------------------------ MODULE SubPicQueueProofs --------------------------
(***************************************************************************)
(* Proofs about SubPicQueue, for every number of streams, every content of *)
(* them and every size of the queue.                                       *)
(***************************************************************************)
EXTENDS SubPicQueue, SequenceTheorems, TLAPS

Line == [start : Nat, stop : Nat, anim : BOOLEAN]

(***************************************************************************)
(* The inductive invariant.  Besides the types and the two properties it   *)
(* says where R is: it holds a lock object of a real provider from Lock to *)
(* Unlock, its position is a subtitle of that provider, and it holds a     *)
(* picture only between rendering and enqueueing.                          *)
(***************************************************************************)
InSubtitle == {"pos", "render", "enqueue", "late"}
Reading == InSubtitle \cup {"reset", "tail", "start", "unlock"}

RPlace ==
    /\ IF ren.pc \in Reading \cup {"lock"}
       THEN ren.gen \in Gens /\ provOf[ren.gen] \in Providers
       ELSE ren.gen = 0
    /\ ren.pc \in InSubtitle => ren.pos \in 1 .. Len(Subtitles(ren.gen))
    /\ ren.pc \in {"enqueue", "block", "sleepFull"} => ren.pic # Nothing
    /\ ren.pic # Nothing => ren.pc \in {"pos", "render", "enqueue", "unlock", "block", "sleepFull"}

PPlace ==
    IF pre.pc \in {"lock", "unlock"}
    THEN pre.gen \in Gens /\ provOf[pre.gen] \in Providers
    ELSE pre.gen = 0

\* The pictures in the queue end before what R has yet to render begins.
EndBy(t) == \A i \in 1 .. Len(queue) : queue[i].stop <= t
Progress ==
    /\ ren.pc = "start" => EndBy(ren.start)
    /\ ren.pc = "pos" => EndBy(ren.start) \/ EndBy(Subtitle.start)
    /\ ren.pc = "render" => EndBy(ren.cur) /\ ren.cur < Subtitle.stop
    /\ ren.pc = "enqueue" => /\ ren.pic.stop <= ren.cur
                             /\ Subtitle.stop = UnknownTime \/ ren.pic.stop <= Subtitle.stop
    /\ ren.pc = "late" => /\ EndBy(ren.cur)
                          /\ Subtitle.stop = UnknownTime \/ EndBy(Subtitle.stop)

IInv == TypeOK /\ LockCounts /\ RPlace /\ PPlace /\ QueueSorted /\ Progress

-----------------------------------------------------------------------------
\* A subtitle that R has reached is one of its stream's, with its times.
LEMMA SubtitleFacts ==
    ASSUME TypeOK, RPlace, ren.pc \in InSubtitle
    PROVE  /\ Subtitles(ren.gen) \in Seq(Line)
           /\ Subtitle \in Line
           /\ Subtitle.start < Subtitle.stop /\ Subtitle.start < UnknownTime
           /\ Subtitle.stop <= UnknownTime
           /\ ren.pos < Len(Subtitles(ren.gen))
              => Subtitle.stop <= Subtitles(ren.gen)[ren.pos + 1].start
           /\ ren.pos < Len(Subtitles(ren.gen))
              => Subtitles(ren.gen)[ren.pos + 1] \in Line
<1>1. ren.gen \in Gens /\ provOf[ren.gen] \in Providers
  BY DEF RPlace, Reading
<1>2. content[provOf[ren.gen]] \in Timelines
  BY <1>1 DEF TypeOK, LockTypeOK
<1>3. Subtitles(ren.gen) \in Timelines
  BY <1>2 DEF Subtitles
<1>4. Subtitles(ren.gen) \in Seq(Line) /\ IsTimeline(Subtitles(ren.gen))
  BY <1>3, TimelineAssumption DEF Line
<1>5. ren.pos \in 1 .. Len(Subtitles(ren.gen))
  BY DEF RPlace
<1>6. UnknownTime \in Nat
  BY TimeAssumption
<1>7. /\ Subtitles(ren.gen)[ren.pos] \in Line
      /\ ren.pos < Len(Subtitles(ren.gen)) => Subtitles(ren.gen)[ren.pos + 1] \in Line
  BY <1>4, <1>5, ElementOfSeq
<1>8. /\ Subtitle.start < Subtitle.stop
      /\ Subtitle.start < UnknownTime /\ Subtitle.stop <= UnknownTime
  BY <1>4, <1>5 DEF IsTimeline, Subtitle
<1>9. ren.pos < Len(Subtitles(ren.gen))
      => Subtitle.stop <= Subtitles(ren.gen)[ren.pos + 1].start
  <2> SUFFICES ASSUME ren.pos < Len(Subtitles(ren.gen))
               PROVE  Subtitle.stop <= Subtitles(ren.gen)[ren.pos + 1].start
    OBVIOUS
  <2>1. ren.pos + 1 \in 1 .. Len(Subtitles(ren.gen)) /\ ren.pos < ren.pos + 1
    BY <1>4, <1>5
  <2> QED
    BY <2>1, <1>4, <1>5 DEF IsTimeline, Subtitle
<1> QED
  BY <1>4, <1>7, <1>8, <1>9 DEF Subtitle

\* The elements of the queue are pictures, and their times are numbers.
LEMMA QueueFacts ==
    ASSUME QueueTypeOK, NEW i \in 1 .. Len(queue)
    PROVE  queue[i] \in Pics /\ queue[i].stop \in Int
<1>1. queue[i] \in Pics
  BY ElementOfSeq DEF QueueTypeOK
<1> QED
  BY <1>1 DEF Pics

\* The types of the initial state.
LEMMA InitIInv == Init => IInv
<1> SUFFICES ASSUME Init PROVE IInv
  OBVIOUS
<1> USE DEF Init
<1>1. rate \in Rate /\ rate.frame \in Nat \ {0, 1} /\ rate.sub \in Nat \ {0, 1}
  BY TimeAssumption DEF Rate
<1>2. QueueTypeOK
  BY SizeAssumption DEF QueueTypeOK
<1>3. TimeTypeOK
  BY <1>1 DEF TimeTypeOK
<1>4. LockTypeOK
  BY DEF LockTypeOK, Gens
<1>5. RenTypeOK
  BY <1>1 DEF RenTypeOK, RStates
<1>6. PreTypeOK
  BY DEF PreTypeOK, PStates
<1>7. CallerTypeOK /\ FlagTypeOK
  <2>1. dec \in [pc : {"idle", "invalidate"}, stream : Providers \cup {NoProvider}, time : Nat]
    OBVIOUS
  <2>2. usr \in [pc : {"idle", "fps", "exit", "join", "destroyed"}, sub : Nat \ {0, 1}]
    BY <1>1
  <2>3. ops \in 0 .. MaxOps
    BY FlagAssumption
  <2>4. rtPres \in Nat /\ cpc \in {"idle", "invalidate", "finish"}
    OBVIOUS
  <2>5. /\ runEvent \in BOOLEAN /\ bExit \in BOOLEAN
        /\ weakened \in BOOLEAN /\ forgotten \in BOOLEAN
    OBVIOUS
  <2> QED
    BY <2>1, <2>2, <2>3, <2>4, <2>5 DEF CallerTypeOK, FlagTypeOK
<1>8. TypeOK
  BY <1>2, <1>3, <1>4, <1>5, <1>6, <1>7 DEF TypeOK
<1>9. LockCounts
  BY DEF LockCounts, Holders, RHolds, PHolds, Gens
<1>10. RPlace /\ PPlace /\ QueueSorted /\ Progress
  BY DEF RPlace, PPlace, QueueSorted, Progress, Reading, InSubtitle
<1> QED
  BY <1>8, <1>9, <1>10 DEF IInv

-----------------------------------------------------------------------------
(***************************************************************************)
(* What the other actors do to the queue and to R.  They only remove       *)
(* pictures, at either end, mark them, and wake R; and they do not touch   *)
(* the stream that R reads.                                                *)
(***************************************************************************)
Shrinks ==
    \E off \in Nat :
        /\ Len(queue') + off <= Len(queue)
        /\ \A i \in 1 .. Len(queue') : queue'[i].stop = queue[i + off].stop

RKept ==
    /\ ren'.pc \in {ren.pc, Awake(ren.pc)}
    /\ ren'.gen = ren.gen /\ ren'.pos = ren.pos
    /\ ren'.start = ren.start /\ ren'.cur = ren.cur
    /\ ren.pic = Nothing <=> ren'.pic = Nothing
    /\ ren.pic # Nothing => ren'.pic.stop = ren.pic.stop
    /\ ren.pc \in Reading \cup {"lock"} => provOf'[ren.gen] = provOf[ren.gen]
    /\ ren.pc \in Reading => content' = content

\* Marking a picture changes neither its being there nor its times.
LEMMA MarkFacts ==
    ASSUME NEW pic \in Pics \cup {Nothing}, NEW rt \in Int
    PROVE  /\ Mark(pic, rt) \in Pics \cup {Nothing}
           /\ Mark(pic, rt) = Nothing <=> pic = Nothing
           /\ pic # Nothing => Mark(pic, rt).stop = pic.stop
<1>1. CASE pic = Nothing
  BY <1>1 DEF Mark
<1>2. CASE pic # Nothing
  <2>1. pic \in Pics
    BY <1>2
  <2>2. [pic EXCEPT !.stale = TRUE] \in Pics
    BY <2>1 DEF Pics
  <2>3. [pic EXCEPT !.stale = TRUE].stop = pic.stop
    BY <2>1 DEF Pics
  <2>4. Nothing \notin Pics
    BY NullAssumption DEF Pics
  <2> QED
    BY <1>2, <2>1, <2>2, <2>3, <2>4 DEF Mark
<1> QED
  BY <1>1, <1>2

\* What Invalidate leaves is a prefix, with the same times.
LEMMA CutQueueFacts ==
    ASSUME QueueTypeOK, NEW rt \in Int, CutQueue(rt)
    PROVE  /\ queue' \in Seq(Pics) /\ Len(queue') <= Len(queue)
           /\ \A i \in 1 .. Len(queue') : queue'[i].stop = queue[i].stop
<1>1. PICK n \in 0 .. Len(queue) : queue' = [i \in 1 .. n |-> Mark(queue[i], rt)]
  BY DEF CutQueue
<1>2. \A i \in 1 .. n : queue[i] \in Pics
  BY ElementOfSeq DEF QueueTypeOK
<1>3. \A i \in 1 .. n : Mark(queue[i], rt) \in Pics /\ Mark(queue[i], rt).stop = queue[i].stop
  <2> SUFFICES ASSUME NEW i \in 1 .. n
               PROVE  Mark(queue[i], rt) \in Pics /\ Mark(queue[i], rt).stop = queue[i].stop
    OBVIOUS
  <2>1. queue[i] \in Pics /\ queue[i] # Nothing
    BY <1>2, NullAssumption DEF Pics
  <2>2. /\ Mark(queue[i], rt) \in Pics \cup {Nothing}
        /\ Mark(queue[i], rt) = Nothing <=> queue[i] = Nothing
        /\ queue[i] # Nothing => Mark(queue[i], rt).stop = queue[i].stop
    BY <2>1, MarkFacts
  <2> QED
    BY <2>1, <2>2
<1>4. n \in Nat
  BY DEF QueueTypeOK
<1>5. queue' \in Seq(Pics) /\ Len(queue') = n
  BY <1>1, <1>3, <1>4, IsASeq
<1> QED
  BY <1>1, <1>3, <1>5

\* The types of what Invalidate assigns, and how it leaves the queue and R.
LEMMA InvalidateFacts ==
    ASSUME TypeOK, NEW rt \in Nat \cup {-1}, Invalidate(rt)
    PROVE  /\ QueueTypeOK' /\ Shrinks
           /\ rtNow' \in Nat /\ rtNowLast' = -1
           /\ bInvalidate' = TRUE /\ rtInvalidate' = rt
           /\ RenTypeOK' /\ PreTypeOK'
           /\ runEvent' \in BOOLEAN /\ weakened' \in BOOLEAN /\ forgotten' \in BOOLEAN
           /\ ren'.pc \in {ren.pc, Awake(ren.pc)}
           /\ ren'.gen = ren.gen /\ ren'.pos = ren.pos
           /\ ren'.start = ren.start /\ ren'.cur = ren.cur
           /\ ren.pic = Nothing <=> ren'.pic = Nothing
           /\ ren.pic # Nothing => ren'.pic.stop = ren.pic.stop
           /\ pre'.pc = pre.pc /\ pre'.gen = pre.gen
<1>1. /\ queue' \in Seq(Pics) /\ Len(queue') <= Len(queue)
      /\ \A i \in 1 .. Len(queue') : queue'[i].stop = queue[i].stop
  BY CutQueueFacts DEF Invalidate, TypeOK
<1>2. cached' \in Pics \cup {Nothing}
  BY DEF Invalidate, TypeOK, QueueTypeOK
<1>3. QueueTypeOK'
  BY <1>1, <1>2, SizeAssumption DEF TypeOK, QueueTypeOK
<1>4. Shrinks
  <2>1. Len(queue') + 0 <= Len(queue)
    BY <1>1, LenProperties DEF TypeOK, QueueTypeOK
  <2>2. \A i \in 1 .. Len(queue') : queue'[i].stop = queue[i + 0].stop
    BY <1>1
  <2> QED
    BY <2>1, <2>2 DEF Shrinks
<1>5. rtNow' \in Nat
  BY DEF Invalidate, TypeOK, TimeTypeOK
<1>6. /\ Mark(ren.pic, rt) \in Pics \cup {Nothing}
      /\ Mark(ren.pic, rt) = Nothing <=> ren.pic = Nothing
      /\ ren.pic # Nothing => Mark(ren.pic, rt).stop = ren.pic.stop
      /\ Mark(pre.pic, rt) \in Pics \cup {Nothing}
  <2>1. /\ ren.pic \in Pics \cup {Nothing} /\ pre.pic \in Pics \cup {Nothing}
        /\ rt \in Int
    BY DEF TypeOK, RenTypeOK, PreTypeOK
  <2> QED
    BY <2>1, MarkFacts
<1>7. Awake(ren.pc) \in RStates
  BY DEF Awake, TypeOK, RenTypeOK, RStates
<1>8. RenTypeOK' /\ PreTypeOK'
  BY <1>6, <1>7 DEF Invalidate, TypeOK, RenTypeOK, PreTypeOK
<1>9. /\ ren'.pc = Awake(ren.pc) /\ ren'.pic = Mark(ren.pic, rt)
      /\ ren'.gen = ren.gen /\ ren'.pos = ren.pos
      /\ ren'.start = ren.start /\ ren'.cur = ren.cur
      /\ pre'.pc = pre.pc /\ pre'.gen = pre.gen
  BY DEF Invalidate, TypeOK, RenTypeOK, PreTypeOK
<1>10. runEvent' \in BOOLEAN /\ forgotten' \in BOOLEAN
  BY DEF Invalidate, TypeOK, FlagTypeOK
<1>11. weakened' \in BOOLEAN
  <2>1. weakened' = (weakened \/ (bInvalidate /\ rt > rtInvalidate))
    BY DEF Invalidate
  <2> QED
    BY <2>1
<1> QED
  BY <1>3, <1>4, <1>5, <1>6, <1>8, <1>9, <1>10, <1>11 DEF Invalidate

\* The order of the queue and the place of R survive such a step.
LEMMA KeptOrder ==
    ASSUME IInv, QueueTypeOK', RenTypeOK', Shrinks, RKept
    PROVE  RPlace' /\ QueueSorted' /\ Progress'
<1> USE DEF IInv
<1>1. PICK off \in Nat :
        /\ Len(queue') + off <= Len(queue)
        /\ \A i \in 1 .. Len(queue') : queue'[i].stop = queue[i + off].stop
  BY DEF Shrinks
<1>2. \A i \in 1 .. Len(queue') : i + off \in 1 .. Len(queue)
  BY <1>1, LenProperties DEF TypeOK, QueueTypeOK
<1>3. ren.pc \in Reading => Subtitles(ren.gen)' = Subtitles(ren.gen)
  BY DEF RKept, Subtitles
<1>4. ren.pc \in InSubtitle => Subtitle' = Subtitle
  BY <1>3 DEF RKept, Subtitle, Reading
<1>5. \/ ren'.pc = ren.pc
      \/ ren.pc = "sleepFull" /\ ren'.pc = "block"
  BY DEF RKept, Awake
<1>6. RPlace'
  <2>1. IF ren'.pc \in Reading \cup {"lock"}
        THEN ren'.gen \in Gens /\ provOf'[ren'.gen] \in Providers
        ELSE ren'.gen = 0
    BY <1>5 DEF RPlace, RKept, Reading, InSubtitle
  <2>2. ren'.pc \in InSubtitle => ren'.pos \in 1 .. Len(Subtitles(ren.gen)')
    BY <1>3, <1>5 DEF RPlace, RKept, Reading, InSubtitle
  <2> QED
    BY <1>5, <2>1, <2>2 DEF RPlace, RKept, InSubtitle
<1>7. \A t \in Int : EndBy(t) => EndBy(t)'
  BY <1>1, <1>2 DEF EndBy
<1>8. \A i, j \in 1 .. Len(queue') : i < j => queue'[i].stop < queue'[j].stop
  <2> SUFFICES ASSUME NEW i \in 1 .. Len(queue'), NEW j \in 1 .. Len(queue'), i < j
               PROVE  queue'[i].stop < queue'[j].stop
    OBVIOUS
  <2>1. i + off < j + off
    BY DEF QueueTypeOK
  <2> QED
    BY <1>1, <1>2, <2>1 DEF QueueSorted
<1>9. ren'.pic # Nothing => \A i \in 1 .. Len(queue') : queue'[i].stop < ren'.pic.stop
  BY <1>1, <1>2 DEF QueueSorted, RKept
<1>10. Progress'
  <2>1. CASE ren'.pc = ren.pc
    <3>1. ren'.start \in Int /\ ren'.cur \in Int
      BY DEF RenTypeOK
    <3>2. ren.pc \in InSubtitle => Subtitle.start \in Int /\ Subtitle.stop \in Int
      BY SubtitleFacts DEF Line
    <3> QED
      BY <2>1, <3>1, <3>2, <1>4, <1>7 DEF Progress, RKept, RPlace, InSubtitle
  <2>2. CASE ren.pc = "sleepFull" /\ ren'.pc = "block"
    BY <2>2 DEF Progress
  <2> QED
    BY <2>1, <2>2, <1>5
<1> QED
  BY <1>6, <1>8, <1>9, <1>10 DEF QueueSorted

\* A step that moves neither thread in or out of its lock keeps the counts.
LEMMA KeptCounts ==
    ASSUME LockCounts, UNCHANGED <<nRef, csOwner>>,
           ren'.pc \in Reading <=> ren.pc \in Reading,
           pre'.pc = "unlock" <=> pre.pc = "unlock",
           ren'.gen = ren.gen \/ ren.pc \notin Reading,
           pre'.gen = pre.gen \/ pre.pc # "unlock"
    PROVE  LockCounts'
<1>1. \A g \in Gens : RHolds(g)' = RHolds(g) /\ PHolds(g)' = PHolds(g)
  BY DEF RHolds, PHolds, Reading, InSubtitle
<1>2. \A g \in Gens : Holders(g)' = Holders(g)
  BY <1>1 DEF Holders
<1> QED
  BY <1>2 DEF LockCounts

-----------------------------------------------------------------------------
(***************************************************************************)
(* The steps of the clock, the decoder and the user interface.             *)
(***************************************************************************)
\* A queue that is left alone is the case of nothing removed.
LEMMA NothingRemoved ==
    ASSUME QueueTypeOK, queue' = queue PROVE Shrinks
<1>1. Len(queue') + 0 <= Len(queue) /\ \A i \in 1 .. Len(queue') : i + 0 = i
  BY DEF QueueTypeOK
<1> QED
  BY <1>1 DEF Shrinks

\* A step that leaves the queue, the locks, the streams and both threads alone.
LEMMA QuietStep ==
    ASSUME IInv, UNCHANGED <<queue, cached, locks, content, ren, pre>>,
           TimeTypeOK', CallerTypeOK', FlagTypeOK'
    PROVE  IInv'
<1> USE DEF IInv, TypeOK, locks
<1>1. QueueTypeOK' /\ LockTypeOK' /\ RenTypeOK' /\ PreTypeOK'
  BY DEF QueueTypeOK, LockTypeOK, RenTypeOK, PreTypeOK
<1>2. Shrinks /\ RKept
  BY NothingRemoved DEF RKept
<1>3. LockCounts'
  BY KeptCounts
<1>4. PPlace'
  BY DEF PPlace
<1> QED
  BY <1>1, <1>2, <1>3, <1>4, KeptOrder

\* A step that invalidates, and may replace a lock object that nobody holds.
LEMMA InvalidateStep ==
    ASSUME IInv, NEW rt \in Nat \cup {-1}, Invalidate(rt),
           UNCHANGED <<nRef, csOwner, content, rate, bExit>>,
           ren.gen # 0 => provOf'[ren.gen] = provOf[ren.gen],
           pre.gen # 0 => provOf'[pre.gen] = provOf[pre.gen],
           LockTypeOK', CallerTypeOK'
    PROVE  IInv'
<1> USE DEF IInv, TypeOK
<1>1. /\ QueueTypeOK' /\ Shrinks
      /\ rtNow' \in Nat /\ rtNowLast' = -1
      /\ bInvalidate' = TRUE /\ rtInvalidate' = rt
      /\ RenTypeOK' /\ PreTypeOK'
      /\ runEvent' \in BOOLEAN /\ weakened' \in BOOLEAN /\ forgotten' \in BOOLEAN
      /\ ren'.pc \in {ren.pc, Awake(ren.pc)}
      /\ ren'.gen = ren.gen /\ ren'.pos = ren.pos
      /\ ren'.start = ren.start /\ ren'.cur = ren.cur
      /\ ren.pic = Nothing <=> ren'.pic = Nothing
      /\ ren.pic # Nothing => ren'.pic.stop = ren.pic.stop
      /\ pre'.pc = pre.pc /\ pre'.gen = pre.gen
  BY InvalidateFacts
<1>2. TimeTypeOK' /\ FlagTypeOK'
  BY <1>1 DEF TimeTypeOK, FlagTypeOK
<1>3. ren.pc \in Reading \cup {"lock"} => ren.gen # 0
  BY DEF RPlace, Gens
<1>4. RKept
  BY <1>1, <1>3 DEF RKept
<1>5. ren'.pc \in Reading <=> ren.pc \in Reading
  BY <1>1 DEF Awake, Reading, InSubtitle
<1>6. LockCounts'
  BY <1>1, <1>5, KeptCounts
<1>7. PPlace'
  BY <1>1 DEF PPlace, Gens
<1> QED
  BY <1>1, <1>2, <1>4, <1>6, <1>7, KeptOrder

\* The bound on the calls.
LEMMA SpendFacts == CallerTypeOK /\ Spend => ops' \in 0 .. MaxOps
BY FlagAssumption DEF CallerTypeOK, Spend

LEMMA ClockStep == IInv /\ CNext => IInv'
<1> SUFFICES ASSUME IInv, CNext PROVE IInv'
  OBVIOUS
<1> USE DEF IInv, TypeOK
<1>1. ASSUME NEW t \in SeekTimes, CSetTime(t) PROVE IInv'
  <2> USE <1>1 DEF CSetTime, KeepThreads, history, static
  <2>1. TimeTypeOK' /\ FlagTypeOK'
    BY TimeAssumption DEF TimeTypeOK, FlagTypeOK
  <2>2. CallerTypeOK'
    BY TimeAssumption, SpendFacts DEF CallerTypeOK
  <2> QED
    BY <2>1, <2>2, QuietStep
<1>2. ASSUME CInvalidate PROVE IInv'
  <2>1. Invalidate(rtNow) /\ rtNow \in Nat \cup {-1}
    BY <1>2 DEF CInvalidate, TimeTypeOK
  <2>2. LockTypeOK' /\ CallerTypeOK'
    BY <1>2 DEF CInvalidate, LockTypeOK, CallerTypeOK, locks, static
  <2> QED
    BY <1>2, <2>1, <2>2, InvalidateStep DEF CInvalidate, locks, static
<1>3. ASSUME CFinish PROVE IInv'
  <2> USE <1>3 DEF CFinish, KeepThreads, history, static
  <2>1. TimeTypeOK' /\ FlagTypeOK' /\ CallerTypeOK'
    BY DEF TimeTypeOK, FlagTypeOK, CallerTypeOK
  <2> QED
    BY <2>1, QuietStep
<1> QED
  BY <1>1, <1>2, <1>3 DEF CNext

LEMMA DecoderStep == IInv /\ DNext => IInv'
<1> SUFFICES ASSUME IInv, DNext PROVE IInv'
  OBVIOUS
<1> USE DEF IInv, TypeOK
<1>1. ASSUME NEW tl \in Timelines, NEW t \in InvalidateTimes \cap Nat, DEdit(tl, t)
      PROVE  IInv'
  <2> USE <1>1 DEF DEdit, KeepThreads, history, data, locks
  <2>1. ProviderNow \in Providers
    BY DEF ProviderNow, LockTypeOK
  <2>2. QueueTypeOK' /\ TimeTypeOK' /\ FlagTypeOK' /\ RenTypeOK' /\ PreTypeOK'
    BY DEF QueueTypeOK, TimeTypeOK, FlagTypeOK, RenTypeOK, PreTypeOK
  <2>3. LockTypeOK'
    BY <2>1 DEF LockTypeOK
  <2>4. CallerTypeOK'
    BY <2>1, SpendFacts DEF CallerTypeOK
  \* The section is free, so nobody reads the stream.
  <2>5. ren.pc \notin Reading
    BY DEF LockCounts, Holders, RHolds, RPlace, Reading, InSubtitle, LockTypeOK, Gens
  <2>6. Shrinks /\ RKept
    BY <2>5, NothingRemoved DEF RKept
  <2>7. LockCounts' /\ PPlace'
    BY KeptCounts DEF PPlace
  <2> QED
    BY <2>2, <2>3, <2>4, <2>6, <2>7, KeptOrder
<1>2. ASSUME DInvalidate PROVE IInv'
  <2>1. LockTypeOK' /\ CallerTypeOK'
    BY <1>2 DEF DInvalidate, LockTypeOK, CallerTypeOK, locks, static
  <2>2. CASE dec.stream = ProviderNow
    <3>1. Invalidate(dec.time) /\ dec.time \in Nat \cup {-1}
      BY <1>2, <2>2 DEF DInvalidate, CallerTypeOK
    <3> QED
      BY <1>2, <2>1, <3>1, InvalidateStep DEF DInvalidate, locks, static
  <2>3. CASE dec.stream # ProviderNow
    <3>1. TimeTypeOK' /\ FlagTypeOK'
      BY <1>2, <2>3 DEF DInvalidate, KeepThreads, history, data, static, TimeTypeOK, FlagTypeOK
    <3> QED
      BY <1>2, <2>1, <2>3, <3>1, QuietStep DEF DInvalidate, KeepThreads, data, static
  <2> QED
    BY <2>2, <2>3
<1> QED
  BY <1>1, <1>2 DEF DNext

\* A new lock object is none of those that the threads hold.
LEMMA SetProviderFacts ==
    ASSUME IInv, NEW p \in Providers \cup {NoProvider}, SetSubPicProvider(p),
           UNCHANGED <<content, rate, bExit>>, CallerTypeOK'
    PROVE  IInv'
<1> USE DEF IInv, TypeOK
<1>1. PICK fresh \in Gens \ {gen, ren.gen, pre.gen} :
        /\ gen' = fresh
        /\ provOf' = [provOf EXCEPT ![fresh] = p]
        /\ Invalidate(-1)
        /\ UNCHANGED <<nRef, csOwner>>
  BY DEF SetSubPicProvider
<1>2. LockTypeOK'
  BY <1>1 DEF LockTypeOK
<1>3. /\ ren.gen # 0 => provOf'[ren.gen] = provOf[ren.gen]
      /\ pre.gen # 0 => provOf'[pre.gen] = provOf[pre.gen]
  BY <1>1 DEF LockTypeOK, RenTypeOK, PreTypeOK
<1> QED
  BY <1>1, <1>2, <1>3, InvalidateStep

LEMMA UserStep == IInv /\ UNext => IInv'
<1> SUFFICES ASSUME IInv, UNext PROVE IInv'
  OBVIOUS
<1> USE DEF IInv, TypeOK
<1>1. ASSUME NEW rt \in InvalidateTimes, UInvalidate(rt) PROVE IInv'
  <2>1. rt \in Nat \cup {-1} /\ Invalidate(rt)
    BY <1>1, TimeAssumption DEF UInvalidate
  <2>2. LockTypeOK' /\ CallerTypeOK'
    BY <1>1, SpendFacts DEF UInvalidate, OnlyU, LockTypeOK, CallerTypeOK, locks
  <2> QED
    BY <1>1, <2>1, <2>2, InvalidateStep DEF UInvalidate, OnlyU, locks
<1>2. ASSUME NEW p \in Providers \cup {NoProvider}, USetProvider(p) PROVE IInv'
  <2>1. CallerTypeOK'
    BY <1>2, SpendFacts DEF USetProvider, OnlyU, CallerTypeOK
  <2> QED
    BY <1>2, <2>1, SetProviderFacts DEF USetProvider, OnlyU
<1>3. ASSUME NEW fps \in Rates, USetFPS(fps) PROVE IInv'
  <2> USE <1>3 DEF USetFPS, OnlyU, KeepThreads, history, data
  <2>1. fps.frame \in Nat \ {0, 1} /\ fps.sub \in Nat \ {0, 1}
    BY TimeAssumption
  <2>2. TimeTypeOK' /\ FlagTypeOK'
    BY <2>1 DEF TimeTypeOK, FlagTypeOK, Rate
  <2>3. CallerTypeOK'
    BY <2>1, SpendFacts DEF CallerTypeOK
  <2> QED
    BY <2>2, <2>3, QuietStep
<1>4. ASSUME USetFPSFinish PROVE IInv'
  <2> USE <1>4 DEF USetFPSFinish, OnlyU, KeepThreads, history, data
  <2>1. TimeTypeOK' /\ FlagTypeOK' /\ CallerTypeOK'
    BY DEF TimeTypeOK, FlagTypeOK, CallerTypeOK, Rate
  <2> QED
    BY <2>1, QuietStep
<1>5. ASSUME UDestroy PROVE IInv'
  <2> USE <1>5 DEF UDestroy, OnlyU, KeepThreads, history, data
  <2>1. TimeTypeOK' /\ FlagTypeOK' /\ CallerTypeOK'
    BY DEF TimeTypeOK, FlagTypeOK, CallerTypeOK
  <2> QED
    BY <2>1, QuietStep
<1>6. ASSUME UClearProvider PROVE IInv'
  <2>1. CallerTypeOK'
    BY <1>6 DEF UClearProvider, OnlyU, CallerTypeOK
  <2> QED
    BY <1>6, <2>1, SetProviderFacts DEF UClearProvider, OnlyU
<1>7. ASSUME UJoin PROVE IInv'
  <2> USE <1>7 DEF UJoin, OnlyU, KeepThreads, history, data
  <2>1. TimeTypeOK' /\ FlagTypeOK' /\ CallerTypeOK'
    BY DEF TimeTypeOK, FlagTypeOK, CallerTypeOK
  <2> QED
    BY <2>1, QuietStep
<1> QED
  BY <1>1, <1>2, <1>3, <1>4, <1>5, <1>6, <1>7 DEF UNext

-----------------------------------------------------------------------------
(***************************************************************************)
(* The steps of the presenter.                                             *)
(***************************************************************************)
\* LockProvider and UnlockProvider count one thread in and out.
LEMMA LockFacts ==
    ASSUME LockTypeOK, LockCounts, NEW g \in Gens, LockProvider(g), content' = content,
           Holders(g)' = Holders(g) + 1,
           \A h \in Gens \ {g} : Holders(h)' = Holders(h)
    PROVE  LockTypeOK' /\ LockCounts'
<1>1. /\ nRef[g] \in Nat /\ nRef' = [nRef EXCEPT ![g] = nRef[g] + 1]
      /\ UNCHANGED <<gen, provOf, content>>
  BY DEF LockTypeOK, LockProvider
<1>2. csOwner' = g
  BY <1>1 DEF LockTypeOK, LockCounts, LockProvider
<1>3. \A h \in Gens \ {g} : csOwner # h /\ nRef'[h] = nRef[h]
  BY <1>1 DEF LockTypeOK, LockCounts, LockProvider, Gens
<1>4. LockTypeOK'
  BY <1>1, <1>2 DEF LockTypeOK
<1>5. nRef'[g] = Holders(g)' /\ nRef'[g] > 0
  BY <1>1 DEF LockTypeOK, LockCounts
<1>6. \A h \in Gens \ {g} : nRef'[h] = Holders(h)' /\ ~(nRef'[h] > 0)
  BY <1>3 DEF LockCounts
<1> QED
  BY <1>2, <1>4, <1>5, <1>6 DEF LockCounts

LEMMA UnlockFacts ==
    ASSUME LockTypeOK, LockCounts, NEW g \in Gens, UnlockProvider(g), content' = content,
           Holders(g) = Holders(g)' + 1,
           \A h \in Gens \ {g} : Holders(h)' = Holders(h)
    PROVE  LockTypeOK' /\ LockCounts'
<1>1. /\ nRef[g] \in Nat /\ nRef' = [nRef EXCEPT ![g] = nRef[g] - 1]
      /\ UNCHANGED <<gen, provOf, content>>
  BY DEF LockTypeOK, UnlockProvider
<1>2. Holders(g)' \in Nat /\ nRef[g] = Holders(g)' + 1
  BY DEF Holders, LockCounts
<1>3. csOwner = g
  BY <1>2 DEF LockCounts
<1>4. csOwner' = (IF Holders(g)' = 0 THEN 0 ELSE g)
  BY <1>2, <1>3 DEF UnlockProvider
<1>5. nRef'[g] = Holders(g)'
  BY <1>1, <1>2 DEF LockTypeOK
<1>6. \A h \in Gens \ {g} : nRef'[h] = nRef[h] /\ ~(nRef[h] > 0)
  BY <1>1, <1>3 DEF LockTypeOK, LockCounts
<1>7. LockTypeOK'
  BY <1>1, <1>2, <1>4 DEF LockTypeOK
<1>8. 0 \notin Gens
  BY DEF Gens
<1>9. nRef'[g] > 0 <=> csOwner' = g
  BY <1>2, <1>4, <1>5, <1>8
<1>10. \A h \in Gens \ {g} : csOwner' # h
  BY <1>4, <1>8
<1> QED
  BY <1>5, <1>6, <1>7, <1>9, <1>10 DEF LockCounts

\* R after a step of P.
LEMMA AfterPresenter ==
    ASSUME IInv, ren' = ren \/ ren' = [ren EXCEPT !.pc = Awake(ren.pc)],
           UNCHANGED <<gen, provOf, content>>
    PROVE  RenTypeOK' /\ RKept /\ (ren'.pc \in Reading <=> ren.pc \in Reading)
<1> USE DEF IInv, TypeOK
<1>1. Awake(ren.pc) \in RStates
  BY DEF Awake, RenTypeOK, RStates
<1>2. RenTypeOK'
  BY <1>1 DEF RenTypeOK
<1>3. RKept
  BY DEF RKept, RenTypeOK
<1>4. ren'.pc \in Reading <=> ren.pc \in Reading
  BY <1>3 DEF RKept, Awake, Reading, InSubtitle
<1> QED
  BY <1>2, <1>3, <1>4

\* A step of P that takes and gives no lock.
LEMMA LockFreeStep ==
    ASSUME IInv, UNCHANGED <<locks, content>>, pre'.gen = pre.gen,
           pre.pc \notin {"lock", "unlock"}, pre'.pc \notin {"lock", "unlock"},
           ren' = ren \/ ren' = [ren EXCEPT !.pc = Awake(ren.pc)],
           QueueTypeOK', Shrinks, PreTypeOK', TimeTypeOK', CallerTypeOK', FlagTypeOK'
    PROVE  IInv'
<1> USE DEF IInv, TypeOK, locks
<1>1. RenTypeOK' /\ RKept /\ (ren'.pc \in Reading <=> ren.pc \in Reading)
  BY AfterPresenter
<1>2. ren'.gen = ren.gen
  BY <1>1 DEF RKept
<1>3. LockTypeOK' /\ LockCounts'
  BY <1>1, <1>2, KeptCounts DEF LockTypeOK
<1>4. PPlace'
  BY DEF PPlace
<1> QED
  BY <1>1, <1>3, <1>4, KeptOrder

\* What the search leaves is a suffix.
LEMMA SuffixFacts ==
    ASSUME QueueTypeOK, NEW n \in 1 .. Len(queue) + 2,
           queue' = SubSeq(queue, n, Len(queue))
    PROVE  queue' \in Seq(Pics) /\ Len(queue') <= nSize /\ Shrinks
<1>1. Len(queue) \in Nat /\ n \in Int
  BY DEF QueueTypeOK
<1>2. \A i \in n .. Len(queue) : queue[i] \in Pics
  BY <1>1, ElementOfSeq DEF QueueTypeOK
<1>3. /\ queue' \in Seq(Pics)
      /\ Len(queue') = IF n <= Len(queue) THEN Len(queue) - n + 1 ELSE 0
      /\ \A i \in 1 .. Len(queue) - n + 1 : queue'[i] = queue[n + i - 1]
  BY <1>1, <1>2, SubSeqProperties
<1>4. Len(queue') <= nSize
  BY <1>1, <1>3, SizeAssumption DEF QueueTypeOK
<1>5. CASE n <= Len(queue)
  <2>1. n - 1 \in Nat /\ Len(queue') + (n - 1) <= Len(queue)
    BY <1>1, <1>3, <1>5
  <2>2. \A i \in 1 .. Len(queue') : queue'[i].stop = queue[i + (n - 1)].stop
    BY <1>1, <1>3, <1>5
  <2> QED
    BY <1>3, <1>4, <2>1, <2>2 DEF Shrinks
<1>6. CASE n > Len(queue)
  <2>1. Len(queue') + 0 <= Len(queue) /\ 1 .. Len(queue') = {}
    BY <1>1, <1>3, <1>6
  <2> QED
    BY <1>3, <1>4, <2>1 DEF Shrinks
<1> QED
  BY <1>1, <1>5, <1>6

LEMMA PresenterStep == IInv /\ PNext => IInv'
<1> SUFFICES ASSUME IInv, PNext PROVE IInv'
  OBVIOUS
<1> USE DEF IInv, TypeOK, ElseUnchanged, static, callers, history
<1>1. ASSUME NEW advise \in BOOLEAN, PLookup(advise) PROVE IInv'
  <2> USE <1>1 DEF PLookup, locks
  <2>1. QueueTypeOK' /\ Shrinks
    BY NothingRemoved DEF QueueTypeOK
  <2>2. /\ pre' = [pre EXCEPT !.now = rtPres, !.try = pre'.try, !.pic = pre'.pic, !.pc = pre'.pc]
        /\ pre'.try \in BOOLEAN /\ pre'.pic \in Pics \cup {Nothing}
        /\ pre'.pc \in {"save", "search"}
    BY DEF PreTypeOK, QueueTypeOK
  <2>3. PreTypeOK' /\ pre'.gen = pre.gen
    BY <2>2 DEF PreTypeOK, PStates, CallerTypeOK
  <2>4. TimeTypeOK' /\ CallerTypeOK' /\ FlagTypeOK'
    BY DEF TimeTypeOK, CallerTypeOK, FlagTypeOK
  <2> QED
    BY <2>1, <2>2, <2>3, <2>4, LockFreeStep
<1>2. ASSUME PSearch PROVE IInv'
  <2>0. PICK k \in 1 .. Len(queue) + 1 : \E c \in 0 .. k - 1 :
          LET candidate == IF c = 0 THEN pre.pic ELSE queue[c]
              found == IF Takes(k, candidate) THEN queue[k] ELSE candidate
          IN  /\ queue' = SubSeq(queue, IF Takes(k, candidate) THEN k + 1 ELSE k, Len(queue))
              /\ pre' = IF found = Nothing /\ pre.try
                        THEN [pre EXCEPT !.pc = "provider", !.try = FALSE]
                        ELSE [pre EXCEPT !.pc = "save", !.pic = found]
    BY <1>2 DEF PSearch
  <2>1. PICK c \in 0 .. k - 1 :
          LET candidate == IF c = 0 THEN pre.pic ELSE queue[c]
              found == IF Takes(k, candidate) THEN queue[k] ELSE candidate
          IN  /\ queue' = SubSeq(queue, IF Takes(k, candidate) THEN k + 1 ELSE k, Len(queue))
              /\ pre' = IF found = Nothing /\ pre.try
                        THEN [pre EXCEPT !.pc = "provider", !.try = FALSE]
                        ELSE [pre EXCEPT !.pc = "save", !.pic = found]
    BY <2>0
  <2> DEFINE candidate == IF c = 0 THEN pre.pic ELSE queue[c]
             found == IF Takes(k, candidate) THEN queue[k] ELSE candidate
             n == IF Takes(k, candidate) THEN k + 1 ELSE k
  <2>2. Len(queue) \in Nat /\ n \in 1 .. Len(queue) + 2
    BY DEF QueueTypeOK
  <2>3. queue' = SubSeq(queue, n, Len(queue))
    BY <2>1
  <2>4. queue' \in Seq(Pics) /\ Len(queue') <= nSize /\ Shrinks
    BY <2>2, <2>3, SuffixFacts
  <2>5. QueueTypeOK'
    BY <1>2, <2>4 DEF PSearch, QueueTypeOK
  <2>6. found \in Pics \cup {Nothing}
    <3>1. c # 0 => queue[c] \in Pics
      BY <2>2, ElementOfSeq DEF QueueTypeOK
    <3>2. Takes(k, candidate) => queue[k] \in Pics
      BY <2>2, ElementOfSeq DEF QueueTypeOK, Takes
    <3> QED
      BY <3>1, <3>2 DEF PreTypeOK
  <2>7. pre' = IF found = Nothing /\ pre.try
               THEN [pre EXCEPT !.pc = "provider", !.try = FALSE]
               ELSE [pre EXCEPT !.pc = "save", !.pic = found]
    BY <2>1
  <2> HIDE DEF found
  <2>8. PreTypeOK' /\ pre'.gen = pre.gen /\ pre'.pc \in {"provider", "save"}
    BY <2>6, <2>7 DEF PreTypeOK, PStates
  <2>9. TimeTypeOK' /\ CallerTypeOK' /\ FlagTypeOK'
    BY <1>2 DEF PSearch, TimeTypeOK, CallerTypeOK, FlagTypeOK
  <2> QED
    BY <1>2, <2>4, <2>5, <2>8, <2>9, LockFreeStep DEF PSearch, locks
<1>3. ASSUME PFetchProvider PROVE IInv'
  <2> USE <1>3 DEF PFetchProvider, OnlyP, data
  <2>1. QueueTypeOK' /\ Shrinks /\ LockTypeOK'
    BY NothingRemoved DEF QueueTypeOK, LockTypeOK, locks
  <2>2. PreTypeOK'
    BY DEF PreTypeOK, PStates, LockTypeOK
  <2>3. TimeTypeOK' /\ CallerTypeOK' /\ FlagTypeOK'
    BY DEF TimeTypeOK, CallerTypeOK, FlagTypeOK
  <2>4. PPlace'
    BY DEF PPlace, PreTypeOK, LockTypeOK, ProviderNow, locks
  <2>5. RenTypeOK' /\ RKept
    BY AfterPresenter DEF locks
  <2>6. LockCounts'
    BY KeptCounts DEF PreTypeOK, locks
  <2> QED
    BY <2>1, <2>2, <2>3, <2>4, <2>5, <2>6, KeptOrder
<1>4. ASSUME PLock PROVE IInv'
  <2> USE <1>4 DEF PLock, data
  <2>1. pre.gen \in Gens /\ pre'.gen = pre.gen /\ pre'.pc = "unlock"
    BY DEF PPlace, PreTypeOK
  <2>2. QueueTypeOK' /\ Shrinks /\ TimeTypeOK' /\ CallerTypeOK' /\ FlagTypeOK'
    BY NothingRemoved DEF QueueTypeOK, TimeTypeOK, CallerTypeOK, FlagTypeOK
  <2>3. PreTypeOK'
    BY DEF PreTypeOK, PStates, Covers
  <2>4. \A g \in Gens : RHolds(g)' = RHolds(g) /\ ~PHolds(g) /\ (PHolds(g)' <=> g = pre.gen)
    BY <2>1 DEF RHolds, PHolds
  <2>5. /\ Holders(pre.gen)' = Holders(pre.gen) + 1
        /\ \A h \in Gens \ {pre.gen} : Holders(h)' = Holders(h)
    BY <2>1, <2>4 DEF Holders
  <2>6. LockTypeOK' /\ LockCounts'
    BY <2>1, <2>5, LockFacts
  <2>7. UNCHANGED <<gen, provOf>>
    BY DEF LockProvider
  <2>8. PPlace'
    BY <2>1, <2>7 DEF PPlace
  <2>9. RenTypeOK' /\ RKept
    BY <2>7, AfterPresenter
  <2> QED
    BY <2>2, <2>3, <2>6, <2>8, <2>9, KeptOrder
<1>5. ASSUME PUnlock PROVE IInv'
  <2> USE <1>5 DEF PUnlock, data
  <2>1. PICK g \in Gens : g = pre.gen
    BY DEF PPlace, PreTypeOK
  <2>10. pre'.gen = 0 /\ pre'.pc \in {"wait", "save"}
    BY DEF PPlace, PreTypeOK
  <2>2. QueueTypeOK' /\ Shrinks /\ TimeTypeOK' /\ CallerTypeOK' /\ FlagTypeOK'
    BY NothingRemoved DEF QueueTypeOK, TimeTypeOK, CallerTypeOK, FlagTypeOK
  <2>3. PreTypeOK'
    BY DEF PreTypeOK, PStates
  <2>4. \A h \in Gens : RHolds(h)' = RHolds(h) /\ ~PHolds(h)' /\ (PHolds(h) <=> h = g)
    BY <2>1, <2>10 DEF RHolds, PHolds
  <2>5. /\ Holders(g) = Holders(g)' + 1
        /\ \A h \in Gens \ {g} : Holders(h)' = Holders(h)
    BY <2>1, <2>4 DEF Holders
  <2>6. LockTypeOK' /\ LockCounts'
    BY <2>1, <2>5, UnlockFacts
  <2>7. UNCHANGED <<gen, provOf>>
    BY DEF UnlockProvider
  <2>8. PPlace'
    BY <2>10 DEF PPlace
  <2>9. RenTypeOK' /\ RKept
    BY <2>7, AfterPresenter
  <2> QED
    BY <2>2, <2>3, <2>6, <2>8, <2>9, KeptOrder
<1>6. ASSUME PWait PROVE IInv'
  <2> USE <1>6 DEF PWait, OnlyP, data
  <2>1. QueueTypeOK' /\ Shrinks /\ TimeTypeOK' /\ CallerTypeOK' /\ FlagTypeOK'
    BY NothingRemoved DEF QueueTypeOK, TimeTypeOK, CallerTypeOK, FlagTypeOK
  <2>2. PreTypeOK' /\ pre'.gen = pre.gen /\ pre'.pc \in {"search", "sleepReady"}
    BY DEF PreTypeOK, PStates
  <2> QED
    BY <2>1, <2>2, LockFreeStep
<1>7. ASSUME PSave PROVE IInv'
  <2> USE <1>7 DEF PSave
  <2>1. QueueTypeOK' /\ Shrinks /\ TimeTypeOK' /\ CallerTypeOK' /\ FlagTypeOK'
    BY NothingRemoved DEF QueueTypeOK, PreTypeOK, TimeTypeOK, CallerTypeOK, FlagTypeOK
  <2>2. PreTypeOK' /\ pre'.gen = pre.gen /\ pre'.pc = "idle"
    BY DEF PreTypeOK, PStates
  <2> QED
    BY <2>1, <2>2, LockFreeStep
<1> QED
  BY <1>1, <1>2, <1>3, <1>4, <1>5, <1>6, <1>7 DEF PNext, PContinue

-----------------------------------------------------------------------------
(***************************************************************************)
(* The steps of the renderer.                                              *)
(***************************************************************************)
LEMMA RoundUpFacts ==
    ASSUME NEW t \in Int, NEW step \in Nat \ {0}
    PROVE  RoundUp(t, step) \in Int /\ RoundUp(t, step) >= t
<1>1. step \in Int /\ step > 0
  OBVIOUS
<1>2. (t \div step) * step + step >= t
  BY <1>1, Z3
<1>3. (t \div step) * step + step \in Int
  BY <1>1, Z3
<1> QED
  BY <1>1, <1>2, <1>3 DEF RoundUp

\* A step of R that leaves the queue and the locks alone.
LEMMA RendererStep ==
    ASSUME IInv, UNCHANGED <<queue, cached, locks, content, pre>>,
           TimeTypeOK', CallerTypeOK', FlagTypeOK', RenTypeOK', RPlace', Progress',
           ren'.pc \in Reading <=> ren.pc \in Reading,
           ren'.gen = ren.gen \/ ren.pc \notin Reading,
           ren'.pic \in {ren.pic, Nothing}
               \/ \A i \in 1 .. Len(queue) : queue[i].stop < ren'.pic.stop
    PROVE  IInv'
<1> USE DEF IInv, TypeOK, locks
<1>1. QueueTypeOK' /\ LockTypeOK' /\ PreTypeOK'
  BY DEF QueueTypeOK, LockTypeOK, PreTypeOK
<1>2. LockCounts'
  BY KeptCounts
<1>3. PPlace'
  BY DEF PPlace
<1>4. QueueSorted'
  BY DEF QueueSorted
<1> QED
  BY <1>1, <1>2, <1>3, <1>4

\* OnlyR keeps the other types.
LEMMA OnlyRFacts ==
    ASSUME IInv, OnlyR
    PROVE  /\ UNCHANGED <<queue, cached, locks, content, pre>>
           /\ TimeTypeOK' /\ CallerTypeOK' /\ FlagTypeOK'
BY DEF OnlyR, ElseUnchanged, data, static, callers, history, IInv, TypeOK,
       TimeTypeOK, CallerTypeOK, FlagTypeOK

\* On to the next subtitle, which begins after the end of this one, with a
\* picture that ends after those in the queue, or with none.
LEMMA NextPosStep ==
    ASSUME IInv, OnlyR, ren.pc \in {"pos", "render", "late"},
           NEW pic \in Pics \cup {Nothing}, ren' = NextPos([ren EXCEPT !.pic = pic]),
           pic \in {ren.pic, Nothing} \/ \A i \in 1 .. Len(queue) : queue[i].stop < pic.stop,
           ren.pos < Len(Subtitles(ren.gen))
               => EndBy(ren.start) \/ EndBy(Subtitles(ren.gen)[ren.pos + 1].start)
    PROVE  IInv'
<1> USE DEF IInv, TypeOK
<1>1. /\ UNCHANGED <<queue, cached, locks, content, pre>>
      /\ TimeTypeOK' /\ CallerTypeOK' /\ FlagTypeOK'
  BY OnlyRFacts
<1>2. ren.pos \in 1 .. Len(Subtitles(ren.gen)) /\ Len(Subtitles(ren.gen)) \in Nat
  BY SubtitleFacts DEF RPlace, InSubtitle
<1> DEFINE r == [ren EXCEPT !.pic = pic]
<1>3. r.pos = ren.pos /\ r.gen = ren.gen
  BY DEF RenTypeOK
<1>4. CASE ren.pos < Len(Subtitles(ren.gen))
  <2>1. ren' = [r EXCEPT !.pc = "pos", !.pos = ren.pos + 1]
    BY <1>3, <1>4 DEF NextPos
  <2>2. RenTypeOK'
    <3>1. ren.pos + 1 \in Nat
      BY DEF RenTypeOK
    <3> QED
      BY <2>1, <3>1 DEF RenTypeOK, RStates
  <2>3. /\ ren'.pc = "pos" /\ ren'.pos = ren.pos + 1 /\ ren'.start = ren.start
        /\ ren'.gen = ren.gen /\ ren'.pic = pic
    BY <2>1 DEF RenTypeOK
  <2>4. Subtitles(ren.gen)' = Subtitles(ren.gen)
    BY <1>1, <2>3 DEF Subtitles, locks
  <2>5. RPlace'
    <3>1. ren'.gen \in Gens /\ provOf'[ren'.gen] \in Providers
      BY <1>1, <2>3 DEF RPlace, Reading, InSubtitle, locks
    <3>2. ren'.pos \in 1 .. Len(Subtitles(ren.gen)')
      BY <1>2, <1>4, <2>3, <2>4
    <3> QED
      BY <2>3, <3>1, <3>2 DEF RPlace, Reading, InSubtitle
  <2>6. Progress'
    BY <1>1, <1>4, <2>3, <2>4 DEF Progress, EndBy, Subtitle
  <2> QED
    BY <1>1, <2>2, <2>3, <2>5, <2>6, RendererStep DEF Reading, InSubtitle
<1>5. CASE ~(ren.pos < Len(Subtitles(ren.gen)))
  <2>1. ren' = [r EXCEPT !.pc = "unlock"]
    BY <1>3, <1>5 DEF NextPos
  <2>2. RenTypeOK'
    BY <2>1 DEF RenTypeOK, RStates
  <2>3. ren'.pc = "unlock" /\ ren'.gen = ren.gen /\ ren'.pic = pic
    BY <2>1 DEF RenTypeOK
  <2>4. RPlace' /\ Progress'
    BY <1>1, <2>3 DEF RPlace, Progress, Reading, InSubtitle, locks
  <2> QED
    BY <1>1, <2>2, <2>3, <2>4, RendererStep DEF Reading, InSubtitle
<1> QED
  BY <1>4, <1>5

\* The same with the picture that R has.
LEMMA NextPosKeeps ==
    ASSUME RenTypeOK
    PROVE  ren.pic \in Pics \cup {Nothing} /\ [ren EXCEPT !.pic = ren.pic] = ren
BY DEF RenTypeOK

\* A picture of the subtitle at ren.cur, and the time that follows it.
LEMMA PictureFacts ==
    ASSUME IInv, ren.pc = "render"
    PROVE  /\ Picture(Subtitle) \in Pics /\ NextTime(Subtitle) \in Int
           /\ ren.cur < Picture(Subtitle).stop
           /\ Picture(Subtitle).stop <= NextTime(Subtitle)
           /\ Subtitle.stop = UnknownTime \/ Picture(Subtitle).stop <= Subtitle.stop
<1> DEFINE s == Subtitle
<1>1. s.start \in Int /\ s.stop \in Int /\ ren.cur < s.stop
  BY SubtitleFacts DEF IInv, Line, Progress, InSubtitle
<1>2. /\ ren.cur \in Int /\ ren.rate.frame \in Nat /\ ren.rate.frame >= 2
      /\ ren.rate.sub \in Nat /\ ren.rate.sub >= 2
  BY DEF IInv, TypeOK, RenTypeOK, Rate
<1> DEFINE sr == StopReal(s)
<1>3. /\ sr \in Int /\ ren.cur < sr
      /\ s.stop = UnknownTime \/ sr <= s.stop
  BY <1>1, <1>2 DEF StopReal
<1> DEFINE part == (ren.rate.sub * 3) \div 4
<1>4. part \in Int /\ 1 <= part /\ part <= ren.rate.sub
  BY <1>2
<1>5. (gen # ren.gen) \in BOOLEAN
  OBVIOUS
<1> HIDE DEF s, sr, part
<1>6. CASE Animated(s)
  <2>1. /\ Picture(s) = [start |-> ren.cur, stop |-> Smaller(ren.cur + part, sr),
                         segStart |-> s.start, segStop |-> Larger(ren.cur + ren.rate.frame, sr),
                         stale |-> FALSE, mixed |-> (gen # ren.gen)]
        /\ NextTime(s) = Smaller(ren.cur + ren.rate.sub, sr)
    BY <1>6 DEF Picture, NextTime, part, sr
  <2>2. /\ Smaller(ren.cur + part, sr) \in Int
        /\ Larger(ren.cur + ren.rate.frame, sr) \in Int
        /\ NextTime(s) \in Int
        /\ ren.cur < Smaller(ren.cur + part, sr)
        /\ Smaller(ren.cur + part, sr) <= NextTime(s)
        /\ Smaller(ren.cur + part, sr) <= sr
    BY <1>2, <1>3, <1>4, <2>1 DEF Smaller, Larger
  <2>3. Picture(s) \in Pics
    BY <1>1, <1>2, <1>5, <2>1, <2>2 DEF Pics
  <2>4. Picture(s).stop = Smaller(ren.cur + part, sr)
    BY <2>1
  <2> QED
    BY <1>1, <1>3, <2>2, <2>3, <2>4, TimeAssumption DEF s
<1>7. CASE ~Animated(s)
  <2>1. /\ Picture(s) = [start |-> s.start, stop |-> sr, segStart |-> s.start, segStop |-> sr,
                         stale |-> FALSE, mixed |-> (gen # ren.gen)]
        /\ NextTime(s) = sr
    BY <1>7 DEF Picture, NextTime, sr
  <2>2. Picture(s) \in Pics /\ Picture(s).stop = sr
    BY <1>1, <1>3, <1>5, <2>1 DEF Pics
  <2> QED
    BY <1>3, <2>1, <2>2 DEF s
<1> QED
  BY <1>6, <1>7

\* The first time to render a subtitle for is after what R begins with.
LEMMA FirstTimeFacts ==
    ASSUME IInv, ren.pc = "pos"
    PROVE  /\ FirstTime(Subtitle) \in Int
           /\ FirstTime(Subtitle) >= ren.start /\ FirstTime(Subtitle) >= Subtitle.start
<1>1. Subtitle.start \in Int
  BY SubtitleFacts DEF IInv, Line, InSubtitle
<1>2. ren.start \in Int /\ rtNow \in Int /\ ren.rate.frame \in Nat \ {0}
  BY DEF IInv, TypeOK, RenTypeOK, TimeTypeOK, Rate
<1> DEFINE t == Larger(Subtitle.start, ren.start)
<1>3. t \in Int /\ t >= ren.start /\ t >= Subtitle.start
  BY <1>1, <1>2 DEF Larger
<1> HIDE DEF t
<1>4. RoundUp(t, ren.rate.frame) \in Int /\ RoundUp(t, ren.rate.frame) >= t
  BY <1>2, <1>3, RoundUpFacts
<1>5. FirstTime(Subtitle) = (IF t > rtNow THEN RoundUp(t, ren.rate.frame) ELSE rtNow)
  BY DEF FirstTime, t
<1>6. FirstTime(Subtitle) \in Int /\ FirstTime(Subtitle) >= t
  BY <1>2, <1>3, <1>4, <1>5
<1> QED
  BY <1>1, <1>2, <1>3, <1>6

\* EnqueueSubPic: the picture joins the queue at its end, or it is dropped.
LEMMA AppendFacts ==
    ASSUME IInv, ren.pic # Nothing, HasRoom, AppendOrDrop
    PROVE  /\ QueueTypeOK' /\ PreTypeOK' /\ TimeTypeOK' /\ CallerTypeOK' /\ FlagTypeOK'
           /\ UNCHANGED <<locks, content>>
           /\ pre'.gen = pre.gen /\ (pre'.pc = "unlock" <=> pre.pc = "unlock")
           /\ pre'.pc \in {"lock", "unlock"} <=> pre.pc \in {"lock", "unlock"}
           /\ IF Outdated(ren.pic) THEN queue' = queue ELSE queue' = Append(queue, ren.pic)
           /\ \A i, j \in 1 .. Len(queue') : i < j => queue'[i].stop < queue'[j].stop
           /\ \A t \in Int : EndBy(t) /\ ren.pic.stop <= t => EndBy(t)'
<1> USE DEF IInv, TypeOK
<1>1. ren.pic \in Pics /\ Len(queue) \in Nat
  BY DEF RenTypeOK, QueueTypeOK
<1>2. UNCHANGED <<locks, content>> /\ TimeTypeOK' /\ CallerTypeOK' /\ FlagTypeOK'
  BY DEF AppendOrDrop, ElseUnchanged, static, callers, history, TimeTypeOK, CallerTypeOK, FlagTypeOK
<1>3. /\ PreTypeOK' /\ pre'.gen = pre.gen
      /\ pre'.pc = "unlock" <=> pre.pc = "unlock"
      /\ pre'.pc \in {"lock", "unlock"} <=> pre.pc \in {"lock", "unlock"}
  BY DEF AppendOrDrop, PreTypeOK, PStates
<1>4. CASE Outdated(ren.pic)
  <2>1. queue' = queue
    BY <1>4 DEF AppendOrDrop
  <2>2. QueueTypeOK'
    BY <2>1 DEF AppendOrDrop, QueueTypeOK
  <2> QED
    BY <1>2, <1>3, <1>4, <2>1, <2>2 DEF QueueSorted, EndBy
<1>5. CASE ~Outdated(ren.pic)
  <2>1. queue' = Append(queue, ren.pic)
    BY <1>5 DEF AppendOrDrop
  <2>2. /\ queue' \in Seq(Pics) /\ Len(queue') = Len(queue) + 1
        /\ \A i \in 1 .. Len(queue) : queue'[i] = queue[i]
        /\ queue'[Len(queue) + 1] = ren.pic
    BY <1>1, <2>1, AppendProperties DEF QueueTypeOK
  <2>3. QueueTypeOK'
    BY <1>1, <2>2, SizeAssumption DEF AppendOrDrop, HasRoom, QueueTypeOK
  <2>4. \A i, j \in 1 .. Len(queue') : i < j => queue'[i].stop < queue'[j].stop
    <3> SUFFICES ASSUME NEW i \in 1 .. Len(queue'), NEW j \in 1 .. Len(queue'), i < j
                 PROVE  queue'[i].stop < queue'[j].stop
      OBVIOUS
    <3>1. i \in 1 .. Len(queue)
      BY <1>1, <2>2
    <3>2. CASE j \in 1 .. Len(queue)
      BY <2>2, <3>1, <3>2 DEF QueueSorted
    <3>3. CASE j = Len(queue) + 1
      BY <2>2, <3>1, <3>3 DEF QueueSorted
    <3> QED
      BY <1>1, <2>2, <3>2, <3>3
  <2>5. \A t \in Int : EndBy(t) /\ ren.pic.stop <= t => EndBy(t)'
    <3> SUFFICES ASSUME NEW t \in Int, EndBy(t), ren.pic.stop <= t,
                        NEW i \in 1 .. Len(queue')
                 PROVE  queue'[i].stop <= t
      BY DEF EndBy
    <3>1. CASE i \in 1 .. Len(queue)
      BY <2>2, <3>1 DEF EndBy
    <3>2. CASE i = Len(queue) + 1
      BY <2>2, <3>2
    <3> QED
      BY <1>1, <2>2, <3>1, <3>2
  <2> QED
    BY <1>2, <1>3, <1>5, <2>1, <2>3, <2>4, <2>5
<1> QED
  BY <1>4, <1>5

\* The steps of R from one pass to the next: nothing is rendered yet.
LEMMA PassStep ==
    IInv /\ (RLoop \/ RWaitEvent \/ RFetchProvider \/ RLock \/ RReset \/ RReadTail
             \/ RStartRendering) => IInv'
<1> USE DEF IInv, TypeOK
<1>1. ASSUME IInv, RLoop PROVE IInv'
  <2>1. /\ UNCHANGED <<queue, cached, locks, content, pre>>
        /\ TimeTypeOK' /\ CallerTypeOK' /\ FlagTypeOK'
    BY <1>1, OnlyRFacts DEF RLoop
  <2>2. /\ ren' = [ren EXCEPT !.wait = FALSE, !.pc = ren'.pc]
        /\ ren'.pc \in {"done", "event", "fetch"}
    BY <1>1 DEF RLoop, RenTypeOK
  <2>3. RenTypeOK' /\ ren'.gen = ren.gen /\ ren'.pic = ren.pic
    BY <1>1, <2>2 DEF RenTypeOK, RStates
  <2>4. RPlace' /\ Progress'
    BY <1>1, <2>2, <2>3 DEF RLoop, RPlace, Progress, Reading, InSubtitle
  <2> QED
    BY <1>1, <2>1, <2>2, <2>3, <2>4, RendererStep DEF RLoop, Reading, InSubtitle
<1>2. ASSUME IInv, RWaitEvent PROVE IInv'
  <2>1. /\ UNCHANGED <<queue, cached, locks, content, pre>>
        /\ TimeTypeOK' /\ CallerTypeOK' /\ FlagTypeOK'
    BY <1>2 DEF RWaitEvent, ElseUnchanged, data, static, callers, history,
                TimeTypeOK, CallerTypeOK, FlagTypeOK
  <2>2. RenTypeOK' /\ ren'.gen = ren.gen /\ ren'.pic = ren.pic /\ ren'.pc = "fetch"
    BY <1>2 DEF RWaitEvent, RenTypeOK, RStates
  <2>3. RPlace' /\ Progress'
    BY <1>2, <2>2 DEF RWaitEvent, RPlace, Progress, Reading, InSubtitle
  <2> QED
    BY <1>2, <2>1, <2>2, <2>3, RendererStep DEF RWaitEvent, Reading, InSubtitle
<1>3. ASSUME IInv, RFetchProvider PROVE IInv'
  <2>1. /\ UNCHANGED <<queue, cached, locks, content, pre>>
        /\ TimeTypeOK' /\ CallerTypeOK' /\ FlagTypeOK'
    BY <1>3, OnlyRFacts DEF RFetchProvider
  <2>2. CASE ProviderNow = NoProvider
    <3>1. RenTypeOK' /\ ren'.gen = ren.gen /\ ren'.pic = ren.pic /\ ren'.pc = "top"
      BY <1>3, <2>2 DEF RFetchProvider, RenTypeOK, RStates
    <3>2. RPlace' /\ Progress'
      BY <1>3, <3>1 DEF RFetchProvider, RPlace, Progress, Reading, InSubtitle
    <3> QED
      BY <1>3, <2>1, <3>1, <3>2, RendererStep DEF RFetchProvider, Reading, InSubtitle
  <2>3. CASE ProviderNow # NoProvider
    <3>1. gen \in Gens /\ provOf[gen] \in Providers
      BY <1>3, <2>3 DEF ProviderNow, LockTypeOK
    <3>2. RenTypeOK' /\ ren'.gen = gen /\ ren'.pic = ren.pic /\ ren'.pc = "lock"
      BY <1>3, <2>3, <3>1 DEF RFetchProvider, RenTypeOK, RStates
    <3>3. RPlace' /\ Progress'
      BY <1>3, <2>1, <3>1, <3>2 DEF RFetchProvider, RPlace, Progress, Reading, InSubtitle, locks
    <3> QED
      BY <1>3, <2>1, <3>2, <3>3, RendererStep DEF RFetchProvider, Reading, InSubtitle
  <2> QED
    BY <2>2, <2>3
<1>4. ASSUME IInv, RLock PROVE IInv'
  <2> USE <1>4 DEF RLock, ElseUnchanged, static, callers, history, data
  <2>1. PICK g \in Gens : g = ren.gen
    BY DEF RPlace
  <2>2. RenTypeOK' /\ ren'.gen = ren.gen /\ ren'.pic = ren.pic /\ ren'.pc = "reset"
    BY DEF RenTypeOK, RStates
  <2>3. QueueTypeOK' /\ TimeTypeOK' /\ PreTypeOK' /\ CallerTypeOK' /\ FlagTypeOK'
    BY DEF QueueTypeOK, TimeTypeOK, PreTypeOK, CallerTypeOK, FlagTypeOK
  <2>4. \A h \in Gens : PHolds(h)' = PHolds(h) /\ ~RHolds(h) /\ (RHolds(h)' <=> h = g)
    BY <2>1, <2>2 DEF RHolds, PHolds
  <2>5. /\ Holders(g)' = Holders(g) + 1
        /\ \A h \in Gens \ {g} : Holders(h)' = Holders(h)
    BY <2>4 DEF Holders
  <2>6. LockTypeOK' /\ LockCounts'
    BY <2>1, <2>5, LockFacts
  <2>7. UNCHANGED <<gen, provOf>>
    BY DEF LockProvider
  <2>8. RPlace' /\ PPlace'
    BY <2>2, <2>7 DEF RPlace, PPlace, Reading, InSubtitle
  <2>9. QueueSorted' /\ Progress'
    BY <2>2 DEF QueueSorted, Progress
  <2> QED
    BY <2>2, <2>3, <2>6, <2>8, <2>9
<1>5. ASSUME IInv, RReset PROVE IInv'
  <2>1. /\ UNCHANGED <<queue, cached, locks, content, pre>>
        /\ TimeTypeOK' /\ CallerTypeOK'
    BY <1>5 DEF RReset, static, callers, TimeTypeOK, CallerTypeOK
  <2>2. FlagTypeOK'
    <3>1. forgotten' = (forgotten \/ (bInvalidate /\ gen # ren.gen))
      BY <1>5 DEF RReset
    <3> QED
      BY <1>5, <3>1 DEF RReset, static, FlagTypeOK
  <2>3. RenTypeOK' /\ ren'.gen = ren.gen /\ ren'.pic = ren.pic /\ ren'.pc = "tail"
    BY <1>5 DEF RReset, RenTypeOK, RStates, TimeTypeOK
  <2>4. RPlace' /\ Progress'
    BY <1>5, <2>1, <2>3 DEF RReset, RPlace, Progress, Reading, InSubtitle, locks
  <2> QED
    BY <1>5, <2>1, <2>2, <2>3, <2>4, RendererStep DEF RReset, Reading, InSubtitle
<1>6. ASSUME IInv, RReadTail PROVE IInv'
  <2>1. /\ UNCHANGED <<queue, cached, locks, content, pre>>
        /\ TimeTypeOK' /\ CallerTypeOK' /\ FlagTypeOK'
    BY <1>6, OnlyRFacts DEF RReadTail
  <2> DEFINE tail == IF queue = <<>> THEN -1 ELSE queue[Len(queue)].stop
  \* The queue is sorted, so it ends with its tail.
  <2>2. tail \in Int /\ EndBy(tail)
    <3>1. CASE queue = <<>>
      BY <3>1 DEF EndBy
    <3>2. CASE queue # <<>>
      <4>1. Len(queue) \in 1 .. Len(queue)
        BY <1>6, <3>2 DEF QueueTypeOK
      <4>2. \A i \in 1 .. Len(queue) : queue[i].stop \in Int
        BY <1>6, QueueFacts
      <4>3. \A i \in 1 .. Len(queue) : i = Len(queue) \/ i < Len(queue)
        BY <4>1
      <4> QED
        BY <1>6, <3>2, <4>1, <4>2, <4>3 DEF EndBy, QueueSorted
    <3> QED
      BY <3>1, <3>2
  <2>3. ren' = [ren EXCEPT !.pc = "start", !.start = tail]
    BY <1>6 DEF RReadTail
  <2> HIDE DEF tail
  <2>4. RenTypeOK' /\ ren'.gen = ren.gen /\ ren'.pic = ren.pic /\ ren'.pc = "start"
        /\ ren'.start = tail
    BY <1>6, <2>2, <2>3 DEF RenTypeOK, RStates
  <2>5. RPlace'
    BY <1>6, <2>1, <2>4 DEF RReadTail, RPlace, Reading, InSubtitle, locks
  <2>6. Progress'
    BY <2>1, <2>2, <2>4 DEF Progress, EndBy
  <2> QED
    BY <1>6, <2>1, <2>4, <2>5, <2>6, RendererStep DEF RReadTail, Reading, InSubtitle
<1>7. ASSUME IInv, RStartRendering PROVE IInv'
  <2>1. /\ UNCHANGED <<queue, cached, locks, content, pre>>
        /\ TimeTypeOK' /\ CallerTypeOK' /\ FlagTypeOK'
    BY <1>7, OnlyRFacts DEF RStartRendering
  <2> DEFINE from == Larger(ren.start, rtNow)
  <2>2. from \in Int /\ from >= ren.start
    BY <1>7 DEF Larger, RenTypeOK, TimeTypeOK
  <2>3. PICK pos \in 0 .. Len(Subtitles(ren.gen)) :
          ren' = [ren EXCEPT !.start = from, !.pos = pos, !.wait = (pos = 0),
                             !.pc = IF pos = 0 THEN "unlock" ELSE "pos"]
    BY <1>7 DEF RStartRendering
  <2>4. Subtitles(ren.gen) \in Seq(Line)
    BY <1>7, TimelineAssumption
       DEF RStartRendering, RPlace, Reading, Subtitles, LockTypeOK, Line
  <2> HIDE DEF from
  <2>5. pos \in Nat
    BY <2>4
  <2>6. RenTypeOK' /\ ren'.gen = ren.gen /\ ren'.pic = ren.pic
        /\ ren'.start = from /\ ren'.pos = pos
        /\ ren'.pc = IF pos = 0 THEN "unlock" ELSE "pos"
    BY <1>7, <2>2, <2>3, <2>5 DEF RenTypeOK, RStates
  <2>7. Subtitles(ren.gen)' = Subtitles(ren.gen)
    BY <2>1, <2>6 DEF Subtitles, locks
  <2>8. RPlace'
    BY <1>7, <2>1, <2>4, <2>6, <2>7 DEF RStartRendering, RPlace, Reading, InSubtitle, locks
  <2>9. EndBy(ren.start)'
    <3>1. EndBy(ren.start) /\ ren.start \in Int
      BY <1>7 DEF RStartRendering, Progress, RenTypeOK
    <3>2. \A i \in 1 .. Len(queue) : queue[i].stop \in Int
      BY <1>7, QueueFacts
    <3> QED
      BY <2>1, <2>2, <2>6, <3>1, <3>2 DEF EndBy
  <2>10. Progress'
    BY <2>6, <2>9 DEF Progress
  <2> QED
    BY <1>7, <2>1, <2>6, <2>8, <2>10, RendererStep DEF RStartRendering, Reading, InSubtitle
<1> QED
  BY <1>1, <1>2, <1>3, <1>4, <1>5, <1>6, <1>7

\* The steps of R within a stream: the queue grows by pictures that end later.
LEMMA RenderStep ==
    IInv /\ (RBeginSubtitle \/ RRender \/ RRenderFails \/ RCopyFails \/ REnqueue \/ RQueueFull
             \/ RCatchUp \/ RUnlock \/ REnqueueBlocking \/ RSleepFull) => IInv'
<1> USE DEF IInv, TypeOK
<1>1. ASSUME IInv, RBeginSubtitle PROVE IInv'
  <2>1. /\ UNCHANGED <<queue, cached, locks, content, pre>>
        /\ TimeTypeOK' /\ CallerTypeOK' /\ FlagTypeOK' /\ OnlyR /\ ren.pc = "pos"
    BY <1>1, OnlyRFacts DEF RBeginSubtitle
  <2>2. /\ Subtitle.start \in Int /\ Subtitle.stop \in Int /\ Subtitle.start < Subtitle.stop
        /\ ren.pos < Len(Subtitles(ren.gen))
           => Subtitle.stop <= Subtitles(ren.gen)[ren.pos + 1].start
        /\ ren.pos < Len(Subtitles(ren.gen))
           => Subtitles(ren.gen)[ren.pos + 1].start \in Int
    BY <1>1, <2>1, SubtitleFacts DEF Line, InSubtitle
  <2>3. \A i \in 1 .. Len(queue) : queue[i].stop \in Int
    BY <1>1, QueueFacts
  <2>4. EndBy(ren.start) \/ EndBy(Subtitle.start)
    BY <1>1, <2>1 DEF Progress
  <2>5. CASE Subtitle.start >= rtNow + LookAhead
    <3>1. RenTypeOK' /\ ren'.gen = ren.gen /\ ren'.pic = ren.pic /\ ren'.pc = "unlock"
      BY <1>1, <2>5 DEF RBeginSubtitle, RenTypeOK, RStates
    <3>2. RPlace' /\ Progress'
      BY <1>1, <2>1, <3>1 DEF RPlace, Progress, Reading, InSubtitle, locks
    <3> QED
      BY <1>1, <2>1, <3>1, <3>2, RendererStep DEF Reading, InSubtitle
  <2>6. CASE ~(Subtitle.start >= rtNow + LookAhead) /\ FirstTime(Subtitle) < Subtitle.stop
    <3>1. /\ FirstTime(Subtitle) \in Int
          /\ FirstTime(Subtitle) >= ren.start /\ FirstTime(Subtitle) >= Subtitle.start
      BY <1>1, <2>1, FirstTimeFacts
    <3>2. RenTypeOK' /\ ren'.gen = ren.gen /\ ren'.pic = ren.pic /\ ren'.pc = "render"
          /\ ren'.pos = ren.pos /\ ren'.cur = FirstTime(Subtitle)
      BY <1>1, <2>6, <3>1 DEF RBeginSubtitle, RenTypeOK, RStates
    <3>3. Subtitles(ren.gen)' = Subtitles(ren.gen) /\ Subtitle' = Subtitle
      BY <2>1, <3>2 DEF Subtitles, Subtitle, locks
    <3>4. RPlace'
      BY <1>1, <2>1, <3>2, <3>3 DEF RPlace, Reading, InSubtitle, locks
    <3>5. EndBy(ren.cur)'
      BY <1>1, <2>1, <2>2, <2>3, <2>4, <3>1, <3>2 DEF EndBy, RenTypeOK
    <3>6. Progress'
      BY <2>6, <3>2, <3>3, <3>5 DEF Progress
    <3> QED
      BY <1>1, <2>1, <3>2, <3>4, <3>6, RendererStep DEF Reading, InSubtitle
  <2>7. CASE ~(Subtitle.start >= rtNow + LookAhead) /\ ~(FirstTime(Subtitle) < Subtitle.stop)
    <3>1. ren' = NextPos(ren)
      BY <1>1, <2>7 DEF RBeginSubtitle
    <3>2. ren.pos < Len(Subtitles(ren.gen))
          => EndBy(ren.start) \/ EndBy(Subtitles(ren.gen)[ren.pos + 1].start)
      BY <2>2, <2>3, <2>4 DEF EndBy
    <3> QED
      BY <1>1, <2>1, <3>1, <3>2, NextPosStep, NextPosKeeps
  <2> QED
    BY <2>5, <2>6, <2>7
<1>2. ASSUME IInv, RRender PROVE IInv'
  <2>1. /\ UNCHANGED <<queue, cached, locks, content, pre>>
        /\ TimeTypeOK' /\ CallerTypeOK' /\ FlagTypeOK' /\ ren.pc = "render"
    BY <1>2, OnlyRFacts DEF RRender
  <2> DEFINE pic == Picture(Subtitle)
             next == NextTime(Subtitle)
  <2>2. /\ pic \in Pics /\ pic.stop \in Int /\ next \in Int
        /\ ren.cur < pic.stop /\ pic.stop <= next
        /\ Subtitle.stop = UnknownTime \/ pic.stop <= Subtitle.stop
    BY <1>2, <2>1, PictureFacts DEF Pics
  <2>3. ren' = [ren EXCEPT !.pc = "enqueue", !.pic = pic, !.cur = next]
    BY <1>2 DEF RRender
  <2> HIDE DEF pic, next
  <2>4. RenTypeOK' /\ ren'.gen = ren.gen /\ ren'.pc = "enqueue" /\ ren'.pic = pic
        /\ ren'.pos = ren.pos /\ ren'.cur = next
    BY <1>2, <2>2, <2>3 DEF RenTypeOK, RStates
  <2>5. pic # Nothing
    BY <2>2, NullAssumption DEF Pics
  <2>6. Subtitles(ren.gen)' = Subtitles(ren.gen) /\ Subtitle' = Subtitle
    BY <2>1, <2>4 DEF Subtitles, Subtitle, locks
  <2>7. RPlace'
    BY <1>2, <2>1, <2>4, <2>5, <2>6 DEF RPlace, Reading, InSubtitle, locks
  <2>8. Progress'
    BY <2>2, <2>4, <2>6 DEF Progress
  <2>9. \A i \in 1 .. Len(queue) : queue[i].stop < ren'.pic.stop
    <3>1. EndBy(ren.cur) /\ ren.cur \in Int
      BY <1>2, <2>1 DEF Progress, RenTypeOK
    <3>2. \A i \in 1 .. Len(queue) : queue[i].stop \in Int
      BY <1>2, QueueFacts
    <3> QED
      BY <2>2, <2>4, <3>1, <3>2 DEF EndBy
  <2> QED
    BY <1>2, <2>1, <2>4, <2>7, <2>8, <2>9, RendererStep DEF Reading, InSubtitle
<1>3. ASSUME IInv, RRenderFails \/ RCopyFails PROVE IInv'
  <2>1. ren.pc = "render" /\ OnlyR
    BY <1>3 DEF RRenderFails, RCopyFails
  <2>2. PICK pic \in {ren.pic, Nothing, Picture(Subtitle)} : ren' = NextPos([ren EXCEPT !.pic = pic])
    BY <1>3, NextPosKeeps DEF RRenderFails, RCopyFails
  <2>3. \A i \in 1 .. Len(queue) : queue[i].stop \in Int
    BY <1>3, QueueFacts
  <2>4. EndBy(ren.cur) /\ ren.cur < Subtitle.stop /\ ren.cur \in Int
    BY <1>3, <2>1 DEF Progress, RenTypeOK
  <2>5. ren.pos < Len(Subtitles(ren.gen)) => EndBy(Subtitles(ren.gen)[ren.pos + 1].start)
    <3>1. /\ Subtitle.stop \in Int
          /\ ren.pos < Len(Subtitles(ren.gen))
             => Subtitle.stop <= Subtitles(ren.gen)[ren.pos + 1].start
          /\ ren.pos < Len(Subtitles(ren.gen))
             => Subtitles(ren.gen)[ren.pos + 1].start \in Int
      BY <1>3, <2>1, SubtitleFacts DEF Line, InSubtitle
    <3> QED
      BY <2>3, <2>4, <3>1 DEF EndBy
  <2>6. /\ Picture(Subtitle) \in Pics /\ Picture(Subtitle).stop \in Int
        /\ ren.cur < Picture(Subtitle).stop
    BY <1>3, <2>1, PictureFacts DEF Pics
  <2>7. \A i \in 1 .. Len(queue) : queue[i].stop < Picture(Subtitle).stop
    BY <2>3, <2>4, <2>6 DEF EndBy
  <2>8. pic \in Pics \cup {Nothing}
    BY <1>3, <2>2, <2>6, NextPosKeeps
  <2>9. pic \in {ren.pic, Nothing} \/ \A i \in 1 .. Len(queue) : queue[i].stop < pic.stop
    BY <2>2, <2>7
  <2> QED
    BY <1>3, <2>1, <2>2, <2>5, <2>8, <2>9, NextPosStep
<1>4. ASSUME IInv, RQueueFull PROVE IInv'
  <2>1. /\ UNCHANGED <<queue, cached, locks, content, pre>>
        /\ TimeTypeOK' /\ CallerTypeOK' /\ FlagTypeOK' /\ ren.pc = "enqueue"
    BY <1>4, OnlyRFacts DEF RQueueFull
  <2>2. RenTypeOK' /\ ren'.gen = ren.gen /\ ren'.pic = ren.pic /\ ren'.pc = "unlock"
    BY <1>4 DEF RQueueFull, RenTypeOK, RStates
  <2>3. RPlace' /\ Progress'
    BY <1>4, <2>1, <2>2 DEF RPlace, Progress, Reading, InSubtitle, locks
  <2> QED
    BY <1>4, <2>1, <2>2, <2>3, RendererStep DEF Reading, InSubtitle
<1>5. ASSUME IInv, RSleepFull PROVE IInv'
  <2>1. /\ UNCHANGED <<queue, cached, locks, content, pre>>
        /\ TimeTypeOK' /\ CallerTypeOK' /\ FlagTypeOK' /\ ren.pc = "block"
    BY <1>5, OnlyRFacts DEF RSleepFull
  <2>2. RenTypeOK' /\ ren'.gen = ren.gen /\ ren'.pic = ren.pic /\ ren'.pc = "sleepFull"
    BY <1>5 DEF RSleepFull, RenTypeOK, RStates
  <2>3. RPlace' /\ Progress'
    BY <1>5, <2>1, <2>2 DEF RPlace, Progress, Reading, InSubtitle, locks
  <2> QED
    BY <1>5, <2>1, <2>2, <2>3, RendererStep DEF Reading, InSubtitle
<1>6. ASSUME IInv, REnqueue PROVE IInv'
  <2>1. ren.pc = "enqueue" /\ ren.pic # Nothing /\ HasRoom /\ AppendOrDrop
    BY <1>6 DEF REnqueue, RPlace
  <2>2. /\ QueueTypeOK' /\ PreTypeOK' /\ TimeTypeOK' /\ CallerTypeOK' /\ FlagTypeOK'
        /\ UNCHANGED <<locks, content>>
        /\ pre'.gen = pre.gen /\ (pre'.pc = "unlock" <=> pre.pc = "unlock")
        /\ pre'.pc \in {"lock", "unlock"} <=> pre.pc \in {"lock", "unlock"}
        /\ IF Outdated(ren.pic) THEN queue' = queue ELSE queue' = Append(queue, ren.pic)
        /\ \A i, j \in 1 .. Len(queue') : i < j => queue'[i].stop < queue'[j].stop
        /\ \A t \in Int : EndBy(t) /\ ren.pic.stop <= t => EndBy(t)'
    BY <1>6, <2>1, AppendFacts
  <2>3. RenTypeOK' /\ ren'.gen = ren.gen /\ ren'.pic = Nothing
        /\ ren'.pc \in {"unlock", "late"} /\ ren'.pos = ren.pos /\ ren'.cur = ren.cur
    BY <1>6 DEF REnqueue, RenTypeOK, RStates
  <2>4. Subtitles(ren.gen)' = Subtitles(ren.gen) /\ Subtitle' = Subtitle
    BY <2>2, <2>3 DEF Subtitles, Subtitle, locks
  <2>5. RPlace'
    BY <1>6, <2>1, <2>2, <2>3, <2>4 DEF RPlace, Reading, InSubtitle, locks
  <2>6. PPlace' /\ LockTypeOK'
    BY <1>6, <2>2 DEF PPlace, LockTypeOK, locks
  <2>7. LockCounts'
    BY <1>6, <2>1, <2>2, <2>3, KeptCounts DEF Reading, InSubtitle, locks
  <2>8. QueueSorted'
    BY <2>2, <2>3 DEF QueueSorted
  \* What was in the queue ends before the picture, and the picture by ren.cur.
  <2>9. \A i \in 1 .. Len(queue) : queue[i].stop \in Int /\ queue[i].stop < ren.pic.stop
    BY <1>6, <2>1, QueueFacts DEF QueueSorted
  <2>10. ren.pic.stop \in Int /\ ren.cur \in Int /\ Subtitle.stop \in Int
    BY <1>6, <2>1, SubtitleFacts DEF RenTypeOK, Pics, Line, InSubtitle
  <2>11. \A t \in Int : ren.pic.stop <= t => EndBy(t)'
    <3> SUFFICES ASSUME NEW t \in Int, ren.pic.stop <= t PROVE EndBy(t)'
      OBVIOUS
    <3>1. EndBy(t)
      BY <2>9, <2>10 DEF EndBy
    <3> QED
      BY <2>2, <3>1
  <2>12. Progress'
    BY <1>6, <2>1, <2>3, <2>4, <2>10, <2>11 DEF Progress, EndBy
  <2> QED
    BY <2>2, <2>3, <2>5, <2>6, <2>7, <2>8, <2>12
<1>7. ASSUME IInv, RCatchUp PROVE IInv'
  <2>1. /\ UNCHANGED <<queue, cached, locks, content, pre>>
        /\ TimeTypeOK' /\ CallerTypeOK' /\ FlagTypeOK' /\ OnlyR /\ ren.pc = "late"
    BY <1>7, OnlyRFacts DEF RCatchUp
  <2>2. /\ Subtitle.start < UnknownTime /\ Subtitle.stop \in Int
        /\ Subtitle.stop <= UnknownTime /\ UnknownTime \in Nat
        /\ ren.pos < Len(Subtitles(ren.gen))
           => /\ Subtitle.stop <= Subtitles(ren.gen)[ren.pos + 1].start
              /\ Subtitles(ren.gen)[ren.pos + 1] \in Line
    BY <1>7, <2>1, SubtitleFacts, TimeAssumption DEF Line, InSubtitle
  <2>3. \A i \in 1 .. Len(queue) : queue[i].stop \in Int
    BY <1>7, QueueFacts
  <2> DEFINE cur == Larger(ren.cur, rtNow)
  <2>4. cur \in Int /\ cur >= ren.cur /\ ren.cur \in Int
    BY <1>7 DEF Larger, RenTypeOK, TimeTypeOK
  <2>5. CASE cur < Subtitle.stop
    <3>1. ren' = [ren EXCEPT !.pc = "render", !.cur = cur]
      BY <1>7, <2>5 DEF RCatchUp
    <3> HIDE DEF cur
    <3>2. RenTypeOK' /\ ren'.gen = ren.gen /\ ren'.pic = ren.pic /\ ren'.pc = "render"
          /\ ren'.pos = ren.pos /\ ren'.cur = cur
      BY <1>7, <2>4, <3>1 DEF RenTypeOK, RStates
    <3>3. Subtitles(ren.gen)' = Subtitles(ren.gen) /\ Subtitle' = Subtitle
      BY <2>1, <3>2 DEF Subtitles, Subtitle, locks
    <3>4. RPlace'
      BY <1>7, <2>1, <3>2, <3>3 DEF RPlace, Reading, InSubtitle, locks
    <3>5. EndBy(ren.cur)'
      BY <1>7, <2>1, <2>3, <2>4, <3>2 DEF EndBy, Progress
    <3>6. Progress'
      BY <2>5, <3>2, <3>3, <3>5 DEF Progress
    <3> QED
      BY <1>7, <2>1, <3>2, <3>4, <3>6, RendererStep DEF Reading, InSubtitle
  <2>6. CASE ~(cur < Subtitle.stop)
    <3>1. ren' = NextPos(ren)
      BY <1>7, <2>6 DEF RCatchUp
    \* A subtitle of unknown end is the last one.
    <3>2. ren.pos < Len(Subtitles(ren.gen)) => Subtitle.stop # UnknownTime
      <4> SUFFICES ASSUME ren.pos < Len(Subtitles(ren.gen)) PROVE Subtitle.stop # UnknownTime
        OBVIOUS
      <4>1. ren.pos \in 1 .. Len(Subtitles(ren.gen)) /\ Len(Subtitles(ren.gen)) \in Nat
        BY <1>7, <2>1, SubtitleFacts DEF RPlace, InSubtitle
      <4>2. Subtitles(ren.gen) \in Timelines
        BY <1>7, <2>1 DEF Subtitles, RPlace, Reading, InSubtitle, LockTypeOK
      <4>3. IsTimeline(Subtitles(ren.gen)) /\ ren.pos + 1 \in 1 .. Len(Subtitles(ren.gen))
        BY <4>1, <4>2, TimelineAssumption
      <4>4. Subtitles(ren.gen)[ren.pos + 1].start < UnknownTime
        BY <4>3 DEF IsTimeline
      <4> QED
        BY <2>2, <4>4 DEF Line
    <3>3. ren.pos < Len(Subtitles(ren.gen)) => EndBy(Subtitle.stop)
      BY <1>7, <2>1, <3>2 DEF Progress
    <3>4. ren.pos < Len(Subtitles(ren.gen)) => EndBy(Subtitles(ren.gen)[ren.pos + 1].start)
      BY <2>2, <2>3, <3>3 DEF EndBy, Line
    <3> QED
      BY <1>7, <2>1, <3>1, <3>4, NextPosStep, NextPosKeeps
  <2> QED
    BY <2>5, <2>6
<1>8. ASSUME IInv, RUnlock PROVE IInv'
  <2> USE <1>8 DEF RUnlock, ElseUnchanged, static, callers, history, data
  <2>1. PICK g \in Gens : g = ren.gen
    BY DEF RPlace, Reading
  <2>2. RenTypeOK' /\ ren'.gen = 0 /\ ren'.pic = ren.pic
        /\ ren'.pc = IF ren.pic = Nothing THEN "top" ELSE "block"
    BY DEF RenTypeOK, RStates
  <2>3. QueueTypeOK' /\ TimeTypeOK' /\ PreTypeOK' /\ CallerTypeOK' /\ FlagTypeOK'
    BY DEF QueueTypeOK, TimeTypeOK, PreTypeOK, CallerTypeOK, FlagTypeOK
  <2>4. \A h \in Gens : PHolds(h)' = PHolds(h) /\ ~RHolds(h)' /\ (RHolds(h) <=> h = g)
    BY <2>1, <2>2 DEF RHolds, PHolds
  <2>5. /\ Holders(g) = Holders(g)' + 1
        /\ \A h \in Gens \ {g} : Holders(h)' = Holders(h)
    BY <2>4 DEF Holders
  <2>6. LockTypeOK' /\ LockCounts'
    BY <2>1, <2>5, UnlockFacts
  <2>7. UNCHANGED <<gen, provOf>>
    BY DEF UnlockProvider
  <2>8. RPlace' /\ PPlace'
    BY <2>2, <2>7 DEF RPlace, PPlace, Reading, InSubtitle
  <2>9. QueueSorted' /\ Progress'
    BY <2>2 DEF QueueSorted, Progress
  <2> QED
    BY <2>2, <2>3, <2>6, <2>8, <2>9
<1>9. ASSUME IInv, REnqueueBlocking PROVE IInv'
  <2>1. ren.pc = "block" /\ ren.pic # Nothing /\ HasRoom /\ AppendOrDrop
    BY <1>9 DEF REnqueueBlocking, RPlace
  <2>2. /\ QueueTypeOK' /\ PreTypeOK' /\ TimeTypeOK' /\ CallerTypeOK' /\ FlagTypeOK'
        /\ UNCHANGED <<locks, content>>
        /\ pre'.gen = pre.gen /\ (pre'.pc = "unlock" <=> pre.pc = "unlock")
        /\ pre'.pc \in {"lock", "unlock"} <=> pre.pc \in {"lock", "unlock"}
        /\ \A i, j \in 1 .. Len(queue') : i < j => queue'[i].stop < queue'[j].stop
    BY <1>9, <2>1, AppendFacts
  <2>3. RenTypeOK' /\ ren'.gen = ren.gen /\ ren'.pic = Nothing /\ ren'.pc = "top"
    BY <1>9 DEF REnqueueBlocking, RenTypeOK, RStates
  <2>4. RPlace' /\ PPlace' /\ Progress'
    BY <1>9, <2>1, <2>2, <2>3 DEF RPlace, PPlace, Progress, Reading, InSubtitle, locks
  <2>5. LockTypeOK'
    BY <1>9, <2>2 DEF LockTypeOK, locks
  <2>6. LockCounts'
    BY <1>9, <2>1, <2>2, <2>3, KeptCounts DEF Reading, InSubtitle, locks
  <2>7. QueueSorted'
    BY <2>2, <2>3 DEF QueueSorted
  <2> QED
    BY <2>2, <2>3, <2>4, <2>5, <2>6, <2>7
<1> QED
  BY <1>1, <1>2, <1>3, <1>4, <1>5, <1>6, <1>7, <1>8, <1>9

-----------------------------------------------------------------------------
(***************************************************************************)
(* The theorems.                                                           *)
(***************************************************************************)
LEMMA StutterStep == IInv /\ UNCHANGED vars => IInv'
<1> SUFFICES ASSUME IInv, UNCHANGED vars PROVE IInv'
  OBVIOUS
<1>1. /\ UNCHANGED <<queue, cached, locks, content, ren, pre>>
      /\ TimeTypeOK' /\ CallerTypeOK' /\ FlagTypeOK'
  BY DEF vars, data, static, callers, history, IInv, TypeOK, TimeTypeOK, CallerTypeOK, FlagTypeOK
<1> QED
  BY <1>1, QuietStep

\* Every step keeps the inductive invariant.
LEMMA Inductive == IInv /\ [Next]_vars => IInv'
BY PassStep, RenderStep, PresenterStep, ClockStep, DecoderStep, UserStep, StutterStep
   DEF Next, RNext

\* The inductive invariant holds in every behaviour of the queue.
LEMMA Invariance == Spec => []IInv
BY InitIInv, Inductive, PTL DEF Spec

\* Whatever the actors do, the variables keep their types and the queue never
\* holds more than m_settings.nSize pictures.
THEOREM TypeCorrect == Spec => []TypeOK
<1>1. IInv => TypeOK
  BY DEF IInv
<1> QED
  BY <1>1, Invariance, PTL

\* The queue stays sorted, although EnqueueSubPic appends without a comparison.
THEOREM Sorted == Spec => []QueueSorted
<1>1. IInv => QueueSorted
  BY DEF IInv
<1> QED
  BY <1>1, Invariance, PTL

\* The shared lock of a stream is owned exactly while somebody holds it.
THEOREM LockCounted == Spec => []LockCounts
<1>1. IInv => LockCounts
  BY DEF IInv
<1> QED
  BY <1>1, Invariance, PTL
=============================================================================
