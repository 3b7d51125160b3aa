---------------------------- MODULE SubPicQueue ----------------------------
(***************************************************************************)
(* The threaded subtitle picture queue of src/src/SubPic/SubPicQueueImpl.  *)
(*                                                                         *)
(* Five actors share one CSubPicQueue object:                              *)
(*   R  the subtitle renderer thread (CSubPicQueue::ThreadProc);           *)
(*   P  the presenter, which asks for the picture to blend (LookupSubPic); *)
(*   C  the clock, which calls SetTime once per video frame;               *)
(*   D  the decoder of an embedded subtitle stream, which edits the        *)
(*      provider under the provider's lock and then calls Invalidate;      *)
(*   U  the user interface: Invalidate, SetSubPicProvider, SetFPS and the  *)
(*      destructor.                                                        *)
(*                                                                         *)
(* A step is one critical section, or one access to a field that the code  *)
(* touches without a lock.  A notify_one or an event Set that follows a    *)
(* critical section is part of it.  Times are small integers; pictures are *)
(* records of the times that the queue looks at.                           *)
(***************************************************************************)
EXTENDS Integers, Sequences

CONSTANTS
    Providers,        \* the subtitle streams (ISubPicProvider objects)
    NoProvider,       \* the null provider
    Nothing,          \* the null ISubPic
    Timelines,        \* the contents a stream may have: sequences of subtitles
    SeekTimes,        \* the arguments of SetTime
    InvalidateTimes,  \* the arguments of Invalidate
    Rates,            \* frame and sub-frame durations that SetFPS may select
    nSize,            \* m_settings.nSize
    LookAhead,        \* the "one minute" of ThreadProc
    UnknownTime,      \* ISubPicProvider::UNKNOWN_TIME
    bDisableAnim,     \* m_settings.bDisableSubtitleAnimation
    bAllowDropping,   \* m_settings.bAllowDroppingSubpic
    AllocFails,       \* whether surfaces may fail to be allocated or copied
    MaxOps            \* bound: calls made by C, D and U in one behaviour

(***************************************************************************)
(* A timeline is a sequence of subtitles in time order, none overlapping   *)
(* the next: the providers cut overlapping lines into disjoint segments.   *)
(***************************************************************************)
IsTimeline(tl) ==
    /\ \A i \in 1 .. Len(tl) : tl[i].start < tl[i].stop
                               /\ tl[i].start < UnknownTime /\ tl[i].stop <= UnknownTime
    /\ \A i, j \in 1 .. Len(tl) : i < j => tl[i].stop <= tl[j].start

ASSUME SizeAssumption == nSize \in Nat \ {0}
ASSUME TimelineAssumption ==
    /\ Timelines # {}
    /\ \A tl \in Timelines : tl \in Seq([start : Nat, stop : Nat, anim : BOOLEAN])
                             /\ IsTimeline(tl)
ASSUME TimeAssumption ==
    /\ SeekTimes \subseteq Nat
    /\ InvalidateTimes \subseteq Nat \cup {-1}
    /\ LookAhead \in Nat \ {0}
    /\ UnknownTime \in Nat
    /\ Rates # {} /\ Rates \subseteq [frame : Nat \ {0, 1}, sub : Nat \ {0, 1}]
ASSUME FlagAssumption ==
    /\ bDisableAnim \in BOOLEAN /\ bAllowDropping \in BOOLEAN
    /\ AllocFails \in BOOLEAN /\ MaxOps \in Nat
ASSUME NullAssumption ==
    /\ NoProvider \notin Providers
    /\ Nothing \notin [start : Int, stop : Int, segStart : Int, segStop : Int,
                       stale : BOOLEAN, mixed : BOOLEAN]

VARIABLES
    queue,        \* m_queue
    cached,       \* m_pSubPic
    rtNow,        \* m_rtNow
    rtNowLast,    \* m_rtNowLast, -1 for LONGLONG_ERROR
    bInvalidate,  \* m_bInvalidate
    rtInvalidate, \* m_rtInvalidate
    rate,         \* m_rtTimePerFrame and m_rtTimePerSubFrame
    runEvent,     \* m_runQueueEvent, auto-reset
    bExit,        \* m_bExitThread
    gen,          \* m_pSubPicProviderWithSharedLock, 0 when null
    provOf,       \* pSubPicProvider of each SubPicProviderWithSharedLock
    nRef,         \* m_nRef of each SubPicProviderWithSharedLock
    csOwner,      \* which of them took the critical section of the streams
    content,      \* what each stream holds
    ren,          \* R: where it is, and the locals of ThreadProc
    pre,          \* P: where it is, and the locals of LookupSubPic
    rtPres,       \* m_rtNow of the presenter
    cpc,          \* where C is in SetTime
    dec,          \* D: where it is, the stream it edited and from which time
    usr,          \* U: where it is, and the sub-frame time SetFPS has yet to write
    ops,          \* calls made so far by C, D and U
    weakened,     \* history: a pending Invalidate was overwritten by a weaker one
    forgotten     \* history: R cleared m_bInvalidate set by a change of provider

data == <<queue, cached, rtNow, rtNowLast, bInvalidate, rtInvalidate>>
locks == <<gen, provOf, nRef, csOwner>>
static == <<rate, bExit, content>>
callers == <<rtPres, cpc, dec, usr, ops>>
history == <<weakened, forgotten>>
vars == <<data, runEvent, locks, static, ren, pre, callers, history>>

Gens == 1 .. 4   \* bound: the current lock object, R's, P's, and a fresh one
Pics == [start : Int, stop : Int, segStart : Int, segStop : Int,
         stale : BOOLEAN, mixed : BOOLEAN]

Larger(a, b) == IF a > b THEN a ELSE b
Smaller(a, b) == IF a < b THEN a ELSE b
ProviderNow == IF gen = 0 THEN NoProvider ELSE provOf[gen]
Subtitles(g) == content[provOf[g]]

\* pos = GetStartPosition(rt): the first subtitle that has not ended at rt, or
\* 0 when they all have.
IsStartPosition(pos, tl, rt) ==
    /\ \A i \in 1 .. (IF pos = 0 THEN Len(tl) ELSE pos - 1) : tl[i].stop <= rt
    /\ pos # 0 => tl[pos].stop > rt

-----------------------------------------------------------------------------
(***************************************************************************)
(* Invalidate.  The queue loses its tail as long as that ends after rt; a  *)
(* picture held by R or P is out of its reach.  History: every picture it  *)
(* should have dropped and did not is marked stale.                        *)
(***************************************************************************)
Mark(pic, rt) ==
    IF pic # Nothing /\ pic.stop > rt THEN [pic EXCEPT !.stale = TRUE] ELSE pic

\* while (... m_queue.GetTail()->GetStop() > rtInvalidate) RemoveTailNoReturn
CutQueue(rt) ==
    \E n \in 0 .. Len(queue) :
        /\ n > 0 => queue[n].stop <= rt
        /\ \A i \in n + 1 .. Len(queue) : queue[i].stop > rt
        /\ queue' = [i \in 1 .. n |-> Mark(queue[i], rt)]

\* Mutant of Awake: Invalidate and LookupSubPic forget m_condQueueFull.
AwakeNever(pc) == pc

\* notify_one on m_condQueueFull, for which only R waits
Awake(pc) == IF pc = "sleepFull" THEN "block" ELSE pc

Invalidate(rt) ==
    /\ bInvalidate' = TRUE
    /\ rtInvalidate' = rt
    /\ rtNowLast' = -1
    /\ cached' = IF cached # Nothing /\ cached.stop > rt THEN Nothing ELSE cached
    /\ CutQueue(rt)
    \* If we invalidate in the past, the rendering time goes back.
    /\ rtNow' = IF rt >= 0 /\ rt < rtNow THEN rt ELSE rtNow
    /\ runEvent' = TRUE
    /\ ren' = [ren EXCEPT !.pc = Awake(@), !.pic = Mark(@, rt)]
    /\ pre' = [pre EXCEPT !.pic = Mark(@, rt)]
    /\ weakened' = (weakened \/ (bInvalidate /\ rt > rtInvalidate))
    /\ UNCHANGED forgotten

SetSubPicProvider(p) ==
    LET free == Gens \ {gen, ren.gen, pre.gen}
    IN  \E fresh \in free :
            /\ \A g \in free : fresh <= g
            /\ gen' = fresh
            /\ provOf' = [provOf EXCEPT ![fresh] = p]
            /\ Invalidate(-1)
            /\ UNCHANGED <<nRef, csOwner>>

(***************************************************************************)
(* SubPicProviderWithSharedLock.  All streams of the main frame share one  *)
(* critical section; a lock object takes it for its first holder and gives *)
(* it back with its last.                                                  *)
(***************************************************************************)
\* Mutant of LockProvider: a second holder is not counted.
LockUncounted(g) ==
    /\ nRef[g] > 0 \/ csOwner = 0
    /\ nRef' = [nRef EXCEPT ![g] = 1]
    /\ csOwner' = g
    /\ UNCHANGED <<gen, provOf>>

LockProvider(g) ==
    /\ nRef[g] > 0 \/ csOwner = 0
    /\ nRef' = [nRef EXCEPT ![g] = @ + 1]
    /\ csOwner' = IF nRef[g] = 0 THEN g ELSE csOwner
    /\ UNCHANGED <<gen, provOf>>

\* Mutant of UnlockProvider: the first Unlock gives the section back.
UnlockAtOnce(g) ==
    /\ nRef' = [nRef EXCEPT ![g] = @ - 1]
    /\ csOwner' = 0
    /\ UNCHANGED <<gen, provOf>>

UnlockProvider(g) ==
    /\ nRef' = [nRef EXCEPT ![g] = @ - 1]
    /\ csOwner' = IF nRef[g] = 1 THEN 0 ELSE csOwner
    /\ UNCHANGED <<gen, provOf>>

-----------------------------------------------------------------------------
(***************************************************************************)
(* R: CSubPicQueue::ThreadProc.                                            *)
(***************************************************************************)
ElseUnchanged == UNCHANGED <<static, callers, history>>
OnlyR == UNCHANGED <<data, runEvent, locks, pre>> /\ ElseUnchanged

\* for (; !m_bExitThread;) { if (bWaitForEvent) ...
RLoop ==
    /\ ren.pc = "top"
    /\ ren' = [ren EXCEPT !.wait = FALSE,
                  !.pc = IF bExit THEN "done" ELSE IF ren.wait THEN "event" ELSE "fetch"]
    /\ OnlyR

RWaitEvent ==
    /\ ren.pc = "event" /\ runEvent
    /\ runEvent' = FALSE
    /\ ren' = [ren EXCEPT !.pc = "fetch"]
    /\ ElseUnchanged /\ UNCHANGED <<data, locks, pre>>

RFetchProvider ==
    /\ ren.pc = "fetch"
    /\ ren' = IF ProviderNow = NoProvider
              THEN [ren EXCEPT !.pc = "top", !.wait = TRUE]
              ELSE [ren EXCEPT !.pc = "lock", !.gen = gen]
    /\ OnlyR

RLock ==
    /\ ren.pc = "lock"
    /\ LockProvider(ren.gen)
    /\ ren' = [ren EXCEPT !.pc = "reset"]
    /\ ElseUnchanged /\ UNCHANGED <<data, runEvent, pre>>

\* The rates are copied and m_bInvalidate is cleared, without m_mutexQueue.
RReset ==
    /\ ren.pc = "reset"
    /\ bInvalidate' = FALSE
    /\ ren' = [ren EXCEPT !.pc = "tail", !.rate = rate]
    /\ forgotten' = (forgotten \/ (bInvalidate /\ gen # ren.gen))
    /\ UNCHANGED <<queue, cached, rtNow, rtNowLast, rtInvalidate, runEvent,
                   locks, static, pre, callers, weakened>>

\* Mutant of RReadTail: the head is read instead.
RReadHead ==
    /\ ren.pc = "tail"
    /\ ren' = [ren EXCEPT !.pc = "start",
                  !.start = IF queue = <<>> THEN -1 ELSE queue[1].stop]
    /\ OnlyR

\* GetCurrentRenderingTime reads the tail under m_mutexQueue ...
RReadTail ==
    /\ ren.pc = "tail"
    /\ ren' = [ren EXCEPT !.pc = "start",
                  !.start = IF queue = <<>> THEN -1 ELSE queue[Len(queue)].stop]
    /\ OnlyR

\* ... and m_rtNow after it; then the first subtitle to render is sought.
RStartRendering ==
    LET from == Larger(ren.start, rtNow)
        tl == Subtitles(ren.gen)
    IN  /\ ren.pc = "start"
        /\ \E pos \in 0 .. Len(tl) :
              /\ IsStartPosition(pos, tl, from)
              /\ ren' = [ren EXCEPT !.start = from, !.pos = pos, !.wait = (pos = 0),
                            !.pc = IF pos = 0 THEN "unlock" ELSE "pos"]
        /\ OnlyR

\* The subtitle at hand, and where the loop goes when R is through with it.
Subtitle == Subtitles(ren.gen)[ren.pos]
NextPos(r) ==
    IF r.pos < Len(Subtitles(r.gen))
    THEN [r EXCEPT !.pc = "pos", !.pos = @ + 1]
    ELSE [r EXCEPT !.pc = "unlock"]

RoundUp(t, step) == IF t % step = 0 THEN t ELSE (t \div step) * step + step

\* Mutant of FirstTime: a subtitle is always rendered from its own start.
FromItsStart(s) == IF s.start > rtNow THEN RoundUp(s.start, ren.rate.frame) ELSE rtNow

\* The first time to render it for: the next frame, or now if that is later.
FirstTime(s) ==
    LET t == Larger(s.start, ren.start)
    IN  IF t > rtNow THEN RoundUp(t, ren.rate.frame) ELSE rtNow

RBeginSubtitle ==
    /\ ren.pc = "pos"
    /\ ren' = IF Subtitle.start >= rtNow + LookAhead
              THEN [ren EXCEPT !.pc = "unlock", !.wait = TRUE]
              ELSE IF FirstTime(Subtitle) < Subtitle.stop
              THEN [ren EXCEPT !.pc = "render", !.cur = FirstTime(Subtitle)]
              ELSE NextPos(ren)
    /\ OnlyR

\* RenderTo and CopyTo: the picture of subtitle s at rtCurrent, with its segment.
StopReal(s) == IF s.stop = UnknownTime THEN ren.cur + ren.rate.frame ELSE s.stop
Animated(s) == s.anim /\ ~bDisableAnim
Picture(s) ==
    LET still == [start |-> s.start, stop |-> StopReal(s),
                  segStart |-> s.start, segStop |-> StopReal(s),
                  stale |-> FALSE, mixed |-> gen # ren.gen]
    IN  IF Animated(s)
        THEN [still EXCEPT
                !.start = ren.cur,
                !.stop = Smaller(ren.cur + (ren.rate.sub * 3) \div 4, StopReal(s)),
                !.segStop = Larger(ren.cur + ren.rate.frame, StopReal(s))]
        ELSE still
NextTime(s) == IF Animated(s) THEN Smaller(ren.cur + ren.rate.sub, StopReal(s))
                              ELSE StopReal(s)

\* RenderTo draws from the provider of the moment, not from the locked one.
RRender ==
    /\ ren.pc = "render"
    /\ ProviderNow # NoProvider
    /\ ren' = [ren EXCEPT !.pc = "enqueue", !.pic = Picture(Subtitle),
                          !.cur = NextTime(Subtitle)]
    /\ OnlyR

\* No surface to draw on, or no provider for RenderTo: on to the next subtitle.
RRenderFails ==
    /\ ren.pc = "render"
    /\ ProviderNow = NoProvider \/ AllocFails
    /\ ren' = NextPos(ren)
    /\ OnlyR

\* AllocDynamic fails, which leaves R without a picture, or CopyTo fails, which
\* leaves it with one: that is enqueued at the end of the pass.
RCopyFails ==
    /\ ren.pc = "render"
    /\ ProviderNow # NoProvider /\ AllocFails
    /\ \E pic \in {Nothing, Picture(Subtitle)} : ren' = NextPos([ren EXCEPT !.pic = pic])
    /\ OnlyR

\* Mutants of HasRoom and Outdated: one picture too many; the start of the
\* picture is compared; an invalidation of everything is not seen.
HasRoomForOneMore == Len(queue) <= nSize
StartsAfter(pic) == bInvalidate /\ pic.start > rtInvalidate
OutdatedFrom(pic) == bInvalidate /\ rtInvalidate >= 0 /\ pic.stop > rtInvalidate

\* EnqueueSubPic, past the wait: the picture joins the queue, and P is
\* notified, or it is dropped.
HasRoom == Len(queue) < nSize
Outdated(pic) == bInvalidate /\ pic.stop > rtInvalidate
\* Mutant of AppendOrDrop: P is not notified.
AppendUnnoticed ==
    /\ queue' = IF Outdated(ren.pic) THEN queue ELSE Append(queue, ren.pic)
    /\ ElseUnchanged
    /\ UNCHANGED <<cached, rtNow, rtNowLast, bInvalidate, rtInvalidate, runEvent, locks, pre>>

AppendOrDrop ==
    /\ IF Outdated(ren.pic)
       THEN UNCHANGED <<queue, pre>>
       ELSE /\ queue' = Append(queue, ren.pic)
            /\ pre' = [pre EXCEPT !.pc = IF @ = "sleepReady" THEN "wait" ELSE @]
    /\ ElseUnchanged
    /\ UNCHANGED <<cached, rtNow, rtNowLast, bInvalidate, rtInvalidate, runEvent, locks>>

\* EnqueueSubPic(pSubPic, false): a picture that was not added ends the pass.
REnqueue ==
    /\ ren.pc = "enqueue"
    /\ HasRoom
    /\ AppendOrDrop
    /\ ren' = [ren EXCEPT !.pc = IF Outdated(ren.pic) THEN "unlock" ELSE "late",
                          !.pic = Nothing]

RQueueFull ==
    /\ ren.pc = "enqueue"
    /\ ~HasRoom
    /\ ren' = [ren EXCEPT !.pc = "unlock"]
    /\ OnlyR

\* if (m_rtNow > rtCurrent) the queue is late; then while (rtCurrent < rtStop)
RCatchUp ==
    /\ ren.pc = "late"
    /\ ren' = LET cur == Larger(ren.cur, rtNow)
              IN  IF cur < Subtitle.stop
                  THEN [ren EXCEPT !.pc = "render", !.cur = cur]
                  ELSE NextPos(ren)
    /\ OnlyR

\* Unlock the provider; a picture that found no room waits for it afterwards.
RUnlock ==
    /\ ren.pc = "unlock"
    /\ UnlockProvider(ren.gen)
    /\ ren' = [ren EXCEPT !.gen = 0, !.pos = 0,
                          !.pc = IF ren.pic = Nothing THEN "top" ELSE "block"]
    /\ ElseUnchanged /\ UNCHANGED <<data, runEvent, pre>>

\* EnqueueSubPic(pSubPic, true)
REnqueueBlocking ==
    /\ ren.pc = "block"
    /\ HasRoom
    /\ AppendOrDrop
    /\ ren' = [ren EXCEPT !.pc = "top", !.pic = Nothing]

RSleepFull ==
    /\ ren.pc = "block"
    /\ ~HasRoom
    /\ ren' = [ren EXCEPT !.pc = "sleepFull"]
    /\ OnlyR

RNext == \/ RLoop \/ RWaitEvent \/ RFetchProvider \/ RLock \/ RReset \/ RReadTail
         \/ RStartRendering \/ RBeginSubtitle \/ RRender \/ RRenderFails
         \/ RCopyFails \/ REnqueue \/ RQueueFull \/ RCatchUp \/ RUnlock
         \/ REnqueueBlocking \/ RSleepFull

-----------------------------------------------------------------------------
(***************************************************************************)
(* P: CSubPicQueue::LookupSubPic, called by AlphaBltSubPic.                *)
(***************************************************************************)
OnlyP == UNCHANGED <<data, runEvent, locks, ren>> /\ ElseUnchanged
Alive == usr.pc \in {"idle", "fps"}
InSegment(pic, t) == pic.segStart <= t /\ t < pic.segStop
Exact(pic, t) == pic.start <= t /\ t < pic.stop

\* See if the latest picture can be reused; forget it when its segment ended.
PLookup(advise) ==
    LET reuse == cached # Nothing /\ InSegment(cached, rtPres)
    IN  /\ pre.pc = "idle" /\ Alive
        /\ pre' = [pre EXCEPT
                     !.now = rtPres, !.try = (advise \/ ~bAllowDropping),
                     !.pic = IF reuse THEN cached ELSE Nothing,
                     !.pc = IF reuse /\ Exact(cached, rtPres) THEN "save" ELSE "search"]
        /\ cached' = IF cached # Nothing /\ cached.segStop <= rtPres
                     THEN Nothing ELSE cached
        /\ ElseUnchanged
        /\ UNCHANGED <<queue, rtNow, rtNowLast, bInvalidate, rtInvalidate, runEvent,
                       locks, ren>>

(***************************************************************************)
(* The search of the queue, head first.  It stops at the first picture     *)
(* that is not over: pictures of which the segment is over, or only the    *)
(* picture, are removed before it; the latter are candidates.              *)
(***************************************************************************)
\* Mutant of Over: a picture stays in the way until its whole segment ends.
SegmentOver(pic) == pic.segStart <= pre.now /\ pic.segStop <= pre.now
Over(pic) == pic.segStart <= pre.now /\ (pic.segStop <= pre.now \/ pic.stop <= pre.now)
IsFirstKept(k) ==
    /\ \A i \in 1 .. k - 1 : Over(queue[i])
    /\ k <= Len(queue) => ~Over(queue[k])

\* Which removed picture is the candidate; 0 for the reused one, if any.
Reusable(i) == pre.now < queue[i].segStop
IsCandidate(c, k) ==
    /\ c > 0 => Reusable(c)
    /\ \A i \in c + 1 .. k - 1 : ~Reusable(i)

\* The first picture kept is taken when it is the right one, or when there is
\* no better one.
Takes(k, candidate) ==
    /\ k <= Len(queue) /\ queue[k].segStart <= pre.now
    /\ Exact(queue[k], pre.now) \/ candidate = Nothing \/ candidate.stop <= pre.now

PSearch ==
    /\ pre.pc = "search"
    /\ \E k \in 1 .. Len(queue) + 1 : \E c \in 0 .. k - 1 :
        LET candidate == IF c = 0 THEN pre.pic ELSE queue[c]
            found == IF Takes(k, candidate) THEN queue[k] ELSE candidate
        IN  /\ IsFirstKept(k) /\ IsCandidate(c, k)
            /\ queue' = SubSeq(queue, IF Takes(k, candidate) THEN k + 1 ELSE k, Len(queue))
            /\ pre' = IF found = Nothing /\ pre.try
                      THEN [pre EXCEPT !.pc = "provider", !.try = FALSE]
                      ELSE [pre EXCEPT !.pc = "save", !.pic = found]
    /\ ren' = [ren EXCEPT !.pc = Awake(@)]
    /\ ElseUnchanged
    /\ UNCHANGED <<cached, rtNow, rtNowLast, bInvalidate, rtInvalidate, runEvent, locks>>

PFetchProvider ==
    /\ pre.pc = "provider"
    /\ pre' = IF ProviderNow = NoProvider THEN [pre EXCEPT !.pc = "save"]
              ELSE [pre EXCEPT !.pc = "lock", !.gen = gen]
    /\ OnlyP

\* Does the provider show a subtitle at the time asked for?
Covers(tl, t) == \E i \in 1 .. Len(tl) : tl[i].start <= t /\ t < tl[i].stop
PLock ==
    /\ pre.pc = "lock"
    /\ LockProvider(pre.gen)
    /\ pre' = [pre EXCEPT !.pc = "unlock", !.cover = Covers(Subtitles(pre.gen), pre.now)]
    /\ ElseUnchanged /\ UNCHANGED <<data, runEvent, ren>>

PUnlock ==
    /\ pre.pc = "unlock"
    /\ UnlockProvider(pre.gen)
    /\ pre' = [pre EXCEPT !.pc = IF pre.cover THEN "wait" ELSE "save", !.gen = 0]
    /\ ElseUnchanged /\ UNCHANGED <<data, runEvent, ren>>

\* m_condQueueReady.wait(lock, queueReady)
QueueReady ==
    Len(queue) = nSize \/ (queue # <<>> /\ queue[Len(queue)].stop > pre.now)
PWait ==
    /\ pre.pc = "wait"
    /\ pre' = [pre EXCEPT !.pc = IF QueueReady THEN "search" ELSE "sleepReady"]
    /\ OnlyP

\* Save the picture for later reuse, and return it.
PSave ==
    /\ pre.pc = "save"
    /\ cached' = IF pre.pic # Nothing THEN pre.pic ELSE cached
    /\ pre' = [pre EXCEPT !.pc = "idle", !.pic = Nothing]
    /\ ElseUnchanged
    /\ UNCHANGED <<queue, rtNow, rtNowLast, bInvalidate, rtInvalidate, runEvent,
                   locks, ren>>

PContinue == PSearch \/ PFetchProvider \/ PLock \/ PUnlock \/ PWait \/ PSave
PNext == (\E advise \in BOOLEAN : PLookup(advise)) \/ PContinue

-----------------------------------------------------------------------------
(***************************************************************************)
(* C: SetTime, in three steps: m_rtNow is written and compared with        *)
(* m_rtNowLast without a lock, Invalidate locks, the rest again does not.  *)
(***************************************************************************)
Spend == ops < MaxOps /\ ops' = ops + 1
KeepThreads == UNCHANGED <<ren, pre, history>>

CSetTime(t) ==
    /\ cpc = "idle" /\ Alive /\ Spend
    /\ rtPres' = t
    /\ rtNow' = t
    /\ cpc' = IF rtNowLast >= 0 /\ rtNowLast - t >= rate.frame
              THEN "invalidate" ELSE "finish"
    /\ KeepThreads
    /\ UNCHANGED <<queue, cached, rtNowLast, bInvalidate, rtInvalidate, runEvent,
                   locks, static, dec, usr>>

\* We want the queue to stay sorted so if we seek in the past, we invalidate.
CInvalidate ==
    /\ cpc = "invalidate"
    /\ Invalidate(rtNow)
    /\ cpc' = "finish"
    /\ UNCHANGED <<locks, static, rtPres, dec, usr, ops>>

CFinish ==
    /\ cpc = "finish"
    /\ rtNowLast' = rtNow
    /\ runEvent' = TRUE
    /\ cpc' = "idle"
    /\ KeepThreads
    /\ UNCHANGED <<queue, cached, rtNow, bInvalidate, rtInvalidate,
                   locks, static, rtPres, dec, usr, ops>>

CNext == (\E t \in SeekTimes : CSetTime(t)) \/ CInvalidate \/ CFinish

-----------------------------------------------------------------------------
(***************************************************************************)
(* D: an entry is added to the current stream under its lock, then the     *)
(* pictures from that time on are invalidated, if the stream is still the  *)
(* selected one (CMainFrame::InvalidateSubtitle).                          *)
(***************************************************************************)
SameBefore(tl1, tl2, t) ==
    \A i \in (1 .. Len(tl1)) \cup (1 .. Len(tl2)) :
        (i <= Len(tl1) /\ tl1[i].stop <= t) \/ (i <= Len(tl2) /\ tl2[i].stop <= t)
        => i <= Len(tl1) /\ i <= Len(tl2) /\ tl1[i] = tl2[i]

DEdit(tl, t) ==
    /\ dec.pc = "idle" /\ Alive /\ Spend
    /\ csOwner = 0
    /\ ProviderNow # NoProvider
    /\ tl # content[ProviderNow] /\ SameBefore(tl, content[ProviderNow], t)
    /\ content' = [content EXCEPT ![ProviderNow] = tl]
    /\ dec' = [pc |-> "invalidate", stream |-> ProviderNow, time |-> t]
    /\ KeepThreads
    /\ UNCHANGED <<data, rate, runEvent, bExit, locks, rtPres, cpc, usr>>

DInvalidate ==
    /\ dec.pc = "invalidate"
    /\ dec' = [dec EXCEPT !.pc = "idle"]
    /\ IF dec.stream = ProviderNow
       THEN Invalidate(dec.time)
       ELSE KeepThreads /\ UNCHANGED <<data, runEvent>>
    /\ UNCHANGED <<locks, static, rtPres, cpc, usr, ops>>

DNext == \/ \E tl \in Timelines, t \in InvalidateTimes \cap Nat : DEdit(tl, t)
         \/ DInvalidate

-----------------------------------------------------------------------------
(***************************************************************************)
(* U: the calls of the user interface thread.  The queue is destroyed when *)
(* nobody else holds a reference: no call of P, C or D is in progress.     *)
(***************************************************************************)
OnlyU == UNCHANGED <<content, rtPres, cpc, dec>>

UInvalidate(rt) ==
    /\ usr.pc = "idle" /\ Spend
    /\ Invalidate(rt)
    /\ OnlyU /\ UNCHANGED <<rate, bExit, locks, usr>>

USetProvider(p) ==
    /\ usr.pc = "idle" /\ Spend
    /\ SetSubPicProvider(p)
    /\ OnlyU /\ UNCHANGED <<rate, bExit, usr>>

\* SetFPS writes the two durations one after the other.
USetFPS(fps) ==
    /\ usr.pc = "idle" /\ Spend
    /\ rate' = [rate EXCEPT !.frame = fps.frame]
    /\ usr' = [pc |-> "fps", sub |-> fps.sub]
    /\ OnlyU /\ KeepThreads /\ UNCHANGED <<data, runEvent, bExit, locks>>

USetFPSFinish ==
    /\ usr.pc = "fps"
    /\ rate' = [rate EXCEPT !.sub = usr.sub]
    /\ runEvent' = TRUE
    /\ usr' = [usr EXCEPT !.pc = "idle"]
    /\ OnlyU /\ KeepThreads /\ UNCHANGED <<data, bExit, locks, ops>>

\* ~CSubPicQueue: m_bExitThread, SetSubPicProvider(nullptr), join the thread.
UDestroy ==
    /\ usr.pc = "idle" /\ pre.pc = "idle" /\ cpc = "idle" /\ dec.pc = "idle"
    /\ bExit' = TRUE
    /\ usr' = [usr EXCEPT !.pc = "exit"]
    /\ OnlyU /\ KeepThreads /\ UNCHANGED <<data, rate, runEvent, locks, ops>>

UClearProvider ==
    /\ usr.pc = "exit"
    /\ SetSubPicProvider(NoProvider)
    /\ usr' = [usr EXCEPT !.pc = "join"]
    /\ OnlyU /\ UNCHANGED <<rate, bExit, ops>>

UJoin ==
    /\ usr.pc = "join" /\ ren.pc = "done"
    /\ usr' = [usr EXCEPT !.pc = "destroyed"]
    /\ OnlyU /\ KeepThreads /\ UNCHANGED <<data, rate, runEvent, bExit, locks, ops>>

UNext == \/ \E rt \in InvalidateTimes : UInvalidate(rt)
         \/ \E p \in Providers \cup {NoProvider} : USetProvider(p)
         \/ \E fps \in Rates : USetFPS(fps)
         \/ USetFPSFinish \/ UDestroy \/ UClearProvider \/ UJoin

-----------------------------------------------------------------------------
Init ==
    /\ queue = <<>> /\ cached = Nothing
    /\ rtNow = 0 /\ rtNowLast = -1
    /\ bInvalidate = FALSE /\ rtInvalidate = 0
    /\ rate \in Rates
    /\ runEvent = FALSE /\ bExit = FALSE
    /\ gen = 0 /\ provOf = [g \in Gens |-> NoProvider]
    /\ nRef = [g \in Gens |-> 0] /\ csOwner = 0
    /\ content \in [Providers -> Timelines]
    /\ ren = [pc |-> "top", wait |-> FALSE, gen |-> 0, rate |-> rate,
              start |-> -1, pos |-> 0, cur |-> 0, pic |-> Nothing]
    /\ pre = [pc |-> "idle", now |-> 0, try |-> FALSE, pic |-> Nothing, gen |-> 0,
              cover |-> FALSE]
    /\ rtPres = 0 /\ cpc = "idle"
    /\ dec = [pc |-> "idle", stream |-> NoProvider, time |-> 0]
    /\ usr = [pc |-> "idle", sub |-> rate.sub]
    /\ ops = 0
    /\ weakened = FALSE /\ forgotten = FALSE

Next == RNext \/ PNext \/ CNext \/ DNext \/ UNext

(***************************************************************************)
(* Fairness: every thread that can run does, and R and P get their turn at *)
(* the critical section of the streams.  Nobody is obliged to call the     *)
(* queue nor to destroy it; a call that has begun goes on.                 *)
(***************************************************************************)
Fairness ==
    /\ WF_vars(RNext) /\ SF_vars(RLock)
    /\ WF_vars(PContinue) /\ SF_vars(PLock)
    /\ WF_vars(CInvalidate \/ CFinish) /\ WF_vars(DInvalidate)
    /\ WF_vars(USetFPSFinish \/ UClearProvider \/ UJoin)

Spec == Init /\ [][Next]_vars
FairSpec == Spec /\ Fairness

-----------------------------------------------------------------------------
(***************************************************************************)
(* Properties.                                                             *)
(***************************************************************************)
RStates == {"top", "event", "fetch", "lock", "reset", "tail", "start", "pos", "render",
            "enqueue", "late", "unlock", "block", "sleepFull", "done"}
PStates == {"idle", "search", "provider", "lock", "unlock", "wait", "sleepReady", "save"}

Rate == [frame : Nat \ {0, 1}, sub : Nat \ {0, 1}]
QueueTypeOK ==
    /\ queue \in Seq(Pics) /\ Len(queue) <= nSize
    /\ cached \in Pics \cup {Nothing}
TimeTypeOK ==
    /\ rtNow \in Nat /\ rtNowLast \in Nat \cup {-1}
    /\ bInvalidate \in BOOLEAN /\ rtInvalidate \in Nat \cup {-1}
    /\ rate \in Rate
LockTypeOK ==
    /\ gen \in Gens \cup {0} /\ provOf \in [Gens -> Providers \cup {NoProvider}]
    /\ nRef \in [Gens -> Nat] /\ csOwner \in Gens \cup {0}
    /\ content \in [Providers -> Timelines]
RenTypeOK ==
    ren \in [pc : RStates, wait : BOOLEAN, gen : Gens \cup {0}, rate : Rate,
             start : Int, pos : Nat, cur : Int, pic : Pics \cup {Nothing}]
PreTypeOK ==
    pre \in [pc : PStates, now : Nat, try : BOOLEAN, pic : Pics \cup {Nothing},
             gen : Gens \cup {0}, cover : BOOLEAN]
CallerTypeOK ==
    /\ rtPres \in Nat /\ cpc \in {"idle", "invalidate", "finish"}
    /\ dec \in [pc : {"idle", "invalidate"}, stream : Providers \cup {NoProvider}, time : Nat]
    /\ usr \in [pc : {"idle", "fps", "exit", "join", "destroyed"}, sub : Nat \ {0, 1}]
    /\ ops \in 0 .. MaxOps
FlagTypeOK ==
    /\ runEvent \in BOOLEAN /\ bExit \in BOOLEAN
    /\ weakened \in BOOLEAN /\ forgotten \in BOOLEAN

\* Every variable keeps its type; the queue never holds more than nSize
\* pictures, whichever of the two calls of EnqueueSubPic added them.
TypeOK == /\ QueueTypeOK /\ TimeTypeOK /\ LockTypeOK
          /\ RenTypeOK /\ PreTypeOK /\ CallerTypeOK /\ FlagTypeOK

\* "We want the queue to stay sorted": whatever the seeks, the edits and the
\* changes of provider, pictures end in queue order, and a picture that R is
\* about to add ends after all of them.  Invalidate relies on it when it stops
\* at the first tail that has ended, EnqueueSubPic does not check it.
QueueSorted ==
    /\ \A i, j \in 1 .. Len(queue) : i < j => queue[i].stop < queue[j].stop
    /\ ren.pic # Nothing => \A i \in 1 .. Len(queue) : queue[i].stop < ren.pic.stop

\* After Invalidate(rt) the queue never again shows a picture rendered before
\* it that ends after rt, not even one that R held at that time or waits to
\* enqueue.  The exception is a call overwritten by a later, weaker one.
NoStaleQueued == weakened \/ \A i \in 1 .. Len(queue) : ~queue[i].stale

\* A picture with the times of one stream and the drawing of another, which
\* RenderTo makes when the provider changes during a pass, never joins the
\* queue, unless R had fetched the old provider before the change and
\* cleared m_bInvalidate after it, or a weaker Invalidate followed.
NoMixedQueued ==
    weakened \/ forgotten \/ \A i \in 1 .. Len(queue) : ~queue[i].mixed

\* R or P is between Lock and Unlock of the lock object that it holds.
RHolds(g) == ren.gen = g /\ ren.pc \in {"reset", "tail", "start", "pos", "render",
                                        "enqueue", "late", "unlock"}
PHolds(g) == pre.gen = g /\ pre.pc = "unlock"
Holders(g) == (IF RHolds(g) THEN 1 ELSE 0) + (IF PHolds(g) THEN 1 ELSE 0)

\* m_nRef counts the threads between Lock and Unlock, and the critical section
\* is owned exactly by the lock object of which the count is not zero: the
\* first Unlock of two holders does not open the stream to the decoder.
LockCounts ==
    \A g \in Gens : nRef[g] = Holders(g) /\ (nRef[g] > 0 <=> csOwner = g)

\* The subtitles that R iterates over do not change during its pass.
ProviderPinned ==
    [][\A g \in Gens : RHolds(g) /\ RHolds(g)' => Subtitles(g)' = Subtitles(g)]_vars

\* When P searches a queue that holds a picture made for pNow, the search
\* returns a picture made for pNow: no head of the queue hides it, unless that
\* is a picture which begins later.  Such a picture may come first when R reads
\* an edited stream before D has called Invalidate.
Findable(i) == /\ Exact(queue[i], pre.now)
               /\ \A j \in 1 .. i - 1 : queue[j].start <= pre.now
SearchFindsExact ==
    [][pre.pc = "search" /\ pre'.pc # "search" /\ (\E i \in 1 .. Len(queue) : Findable(i))
       => pre'.pic # Nothing /\ Exact(pre'.pic, pre.now)]_vars

\* The destructor gets its thread back, wherever R was when it began.
DestructorReturns == usr.pc = "join" ~> usr.pc = "destroyed"

\* LookupSubPic never waits forever for a subtitle that the provider has and
\* that the clock has not passed.
Awaited == ProviderNow # NoProvider /\ rtNow <= pre.now
           /\ Covers(content[ProviderNow], pre.now)
LookupServed == ~<>[](pre.pc = "sleepReady" /\ Awaited)

\* The queue implements the bounded, ordered buffer of end times.
Buffer == INSTANCE PictureBuffer
              WITH Capacity <- nSize, stops <- [i \in 1 .. Len(queue) |-> queue[i].stop]
BufferSpec == Buffer!Spec
=============================================================================
