--------------------------- MODULE SubtitleInputPin ---------------------------
(***************************************************************************)
(* The input pin of an embedded subtitle stream,                           *)
(* src/src/Subtitles/SubtitleInputPin.                                     *)
(*                                                                         *)
(* Three actors:                                                           *)
(*   S  whoever calls the pin: the streaming thread of the upstream filter *)
(*      (NewSegment, Receive, EndOfStream, ReceiveConnection) and, when    *)
(*      that is stopped, the graph (BreakConnect, CompleteConnect, the     *)
(*      destructor).  These calls do not overlap;                          *)
(*   D  the decoding thread of the pin (DecodeSamples);                    *)
(*   V  a thread that reads the subtitles under m_pSubLock: the renderer   *)
(*      of the subtitle queue or the user interface.                       *)
(*                                                                         *)
(* The stream is one of text (plain, UTF-8, SSA, ASS), whose samples carry *)
(* one entry each; samples of pictures (VobSub, PGS, DVB) go the same way  *)
(* but are never announced by D, since DecodeSample returns -1 for them.   *)
(*                                                                         *)
(* A step is one critical section of m_mutexQueue or of m_pSubLock, or one *)
(* access made outside them.  A notify_one made right after a critical     *)
(* section is part of it.                                                  *)
(***************************************************************************)
EXTENDS Integers, Sequences

CONSTANTS
    Times,      \* start times of samples and of segments
    EndMark,    \* the null sample that marks the end of the stream
    MaxStreams, \* bound: connections made
    MaxCalls    \* bound: calls of NewSegment, Receive and EndOfStream

ASSUME TimesAssumption == Times \subseteq Nat
ASSUME BoundAssumption == MaxStreams \in Nat \ {0} /\ MaxCalls \in Nat

\* A sample is blank when there is nothing to show in it.
Samples == [start : Times, blank : BOOLEAN]
ASSUME MarkAssumption == EndMark \notin Samples

VARIABLES
    sampleQueue,   \* m_sampleQueue
    bStopDecoding, \* m_bStopDecoding
    bExit,         \* m_bExitDecodingThread
    mutexQueue,    \* who owns m_mutexQueue
    subLock,       \* who owns m_pSubLock
    subStream,     \* m_pSubStream, 0 when null
    entries,       \* what has been added to each subtitle stream
    spc,           \* S: where it is in a call
    tStart,        \* S: the argument of NewSegment
    dpc,           \* D: where it is in DecodeSamples
    rtInvalidate,  \* D: the earliest time it has added an entry at, or -1
    target,        \* history: the stream that D decoded into in this round
    received,      \* history: the samples received since the last flush
    shown,         \* history: how many entries of each stream were announced
    lostWakeup,    \* history: the destructor's notify_one found D not yet asleep
    calls

flags == <<bStopDecoding, bExit>>
locks == <<mutexQueue, subLock>>
stream == <<subStream, entries, shown>>
dvars == <<dpc, rtInvalidate, target>>
svars == <<spc, tStart, calls>>
vars == <<sampleQueue, flags, locks, stream, dvars, svars, received, lostWakeup>>

Streams == 1 .. MaxStreams

\* The samples with something to show, in order.
Visible(seq) ==
    LET first[n \in 0 .. Len(seq)] ==
            IF n = 0 THEN <<>>
            ELSE IF seq[n] = EndMark \/ seq[n].blank THEN first[n - 1]
            ELSE Append(first[n - 1], seq[n])
    IN  first[Len(seq)]

\* m_condQueueReady.notify_one(): only D waits for it.
Notified(pc) == IF pc = "sleep" THEN "test" ELSE pc

\* InvalidateSubtitle(rt, m_pSubStream): the entries from rt on are announced,
\* which covers those added after the first count of them.
Announce(rt) ==
    LET from(n) == \A i \in n + 1 .. Len(entries[subStream]) : entries[subStream][i].start >= rt
    IN  shown' = IF subStream # 0 /\ from(shown[subStream])
                 THEN [shown EXCEPT ![subStream] = Len(entries[subStream])]
                 ELSE shown

-----------------------------------------------------------------------------
(***************************************************************************)
(* D: DecodeSamples.                                                       *)
(***************************************************************************)
NeedStopProcessing == bStopDecoding \/ bExit
IsQueueReady == sampleQueue # <<>> \/ NeedStopProcessing
OnlyD == UNCHANGED <<flags, svars, received, lostWakeup>>

\* for (; !m_bExitDecodingThread;)
DLoop ==
    /\ dpc = "top"
    /\ dpc' = IF bExit THEN "done" ELSE "test"
    /\ OnlyD /\ UNCHANGED <<sampleQueue, locks, stream, rtInvalidate, target>>

\* m_condQueueReady.wait(lock, isQueueReady): the condition is tested with the
\* mutex held, which D gives back when it falls asleep or goes on.
DTest ==
    /\ dpc = "test" /\ mutexQueue = "free"
    /\ IF IsQueueReady
       THEN dpc' = "ready" /\ UNCHANGED mutexQueue
       ELSE dpc' = "doze" /\ mutexQueue' = "D"
    /\ OnlyD /\ UNCHANGED <<sampleQueue, subLock, stream, rtInvalidate, target>>

DSleep ==
    /\ dpc = "doze"
    /\ dpc' = "sleep" /\ mutexQueue' = "free"
    /\ OnlyD /\ UNCHANGED <<sampleQueue, subLock, stream, rtInvalidate, target>>

DReady ==
    /\ dpc = "ready"
    /\ dpc' = IF NeedStopProcessing THEN "top" ELSE "sublock"
    /\ rtInvalidate' = -1
    /\ OnlyD /\ UNCHANGED <<sampleQueue, locks, stream, target>>

DLockSub ==
    /\ dpc = "sublock" /\ subLock = "free"
    /\ subLock' = "D" /\ dpc' = "relock"
    /\ OnlyD /\ UNCHANGED <<sampleQueue, mutexQueue, stream, rtInvalidate, target>>

DRelock ==
    /\ dpc = "relock" /\ mutexQueue = "free"
    /\ mutexQueue' = "D" /\ dpc' = "decode"
    /\ target' = subStream
    /\ OnlyD /\ UNCHANGED <<sampleQueue, subLock, stream, rtInvalidate>>

\* Mutant of Earlier: the last time wins.
Latest(rt) == rt

\* DecodeSample on the head, which is then removed.
Earlier(rt) == IF rtInvalidate < 0 \/ rt < rtInvalidate THEN rt ELSE rtInvalidate

\* Mutant of DDecode: a blank sample makes an entry too.
DecodeBlank ==
    LET sample == Head(sampleQueue)
    IN  /\ dpc = "decode" /\ sampleQueue # <<>> /\ ~NeedStopProcessing
        /\ IF sample = EndMark
           THEN UNCHANGED <<entries, rtInvalidate>>
           ELSE /\ entries' = [entries EXCEPT ![subStream] = Append(@, sample)]
                /\ rtInvalidate' = Earlier(sample.start)
        /\ sampleQueue' = Tail(sampleQueue)
        /\ OnlyD /\ UNCHANGED <<locks, subStream, shown, dpc, target>>

DDecode ==
    LET sample == Head(sampleQueue)
    IN  /\ dpc = "decode" /\ sampleQueue # <<>> /\ ~NeedStopProcessing
        /\ IF sample = EndMark \/ sample.blank
           THEN UNCHANGED <<entries, rtInvalidate>>
           ELSE /\ entries' = [entries EXCEPT ![subStream] = Append(@, sample)]
                /\ rtInvalidate' = Earlier(sample.start)
        /\ sampleQueue' = Tail(sampleQueue)
        /\ OnlyD /\ UNCHANGED <<locks, subStream, shown, dpc, target>>

\* Mutant of DDecoded: the mutex is given back before InvalidateSubtitle.
DecodedUnlocked ==
    /\ dpc = "decode" /\ (sampleQueue = <<>> \/ NeedStopProcessing)
    /\ subLock' = "free" /\ mutexQueue' = "free"
    /\ dpc' = "tell"
    /\ OnlyD /\ UNCHANGED <<sampleQueue, stream, rtInvalidate, target>>

\* The loop over the samples ends: m_pSubLock is given back, m_mutexQueue is
\* not until the end of the round.
DDecoded ==
    /\ dpc = "decode" /\ (sampleQueue = <<>> \/ NeedStopProcessing)
    /\ subLock' = "free"
    /\ dpc' = "tell"
    /\ OnlyD /\ UNCHANGED <<sampleQueue, mutexQueue, stream, rtInvalidate, target>>

\* Mutant of DTell: the mutex is kept when there is nothing to announce.
TellHolding ==
    /\ dpc = "tell"
    /\ IF rtInvalidate >= 0 THEN Announce(rtInvalidate) ELSE UNCHANGED shown
    /\ mutexQueue' = IF rtInvalidate >= 0 THEN "free" ELSE mutexQueue
    /\ dpc' = "top"
    /\ OnlyD /\ UNCHANGED <<sampleQueue, subLock, subStream, entries, rtInvalidate, target>>

DTell ==
    /\ dpc = "tell"
    /\ IF rtInvalidate >= 0 THEN Announce(rtInvalidate) ELSE UNCHANGED shown
    /\ mutexQueue' = IF mutexQueue = "D" THEN "free" ELSE mutexQueue
    /\ dpc' = "top"
    /\ OnlyD /\ UNCHANGED <<sampleQueue, subLock, subStream, entries, rtInvalidate, target>>

DNext == DLoop \/ DTest \/ DSleep \/ DReady \/ DLockSub \/ DRelock \/ DDecode
         \/ DDecoded \/ DTell

-----------------------------------------------------------------------------
(***************************************************************************)
(* S: the calls of the pin.                                                *)
(***************************************************************************)
OnlyS == UNCHANGED <<rtInvalidate, target>>
Call == calls < MaxCalls /\ calls' = calls + 1
Running == spc = "idle" /\ subStream # 0

\* Mutant of Enqueue: the notification is forgotten.
EnqueueQuietly(sample) ==
    /\ Running /\ mutexQueue = "free" /\ Call
    /\ sampleQueue' = Append(sampleQueue, sample)
    /\ received' = Append(received, sample)
    /\ OnlyS /\ UNCHANGED <<flags, locks, stream, dpc, spc, tStart, lostWakeup>>

\* Receive and EndOfStream
Enqueue(sample) ==
    /\ Running /\ mutexQueue = "free" /\ Call
    /\ sampleQueue' = Append(sampleQueue, sample)
    /\ received' = Append(received, sample)
    /\ dpc' = Notified(dpc)
    /\ OnlyS /\ UNCHANGED <<flags, locks, stream, spc, tStart, lostWakeup>>

Receive(sample) == Enqueue(sample)
EndOfStream == Enqueue(EndMark)

(***************************************************************************)
(* InvalidateSamples: m_bStopDecoding is raised without the mutex, so that *)
(* D leaves its loop, and lowered with it when the queue has been cleared. *)
(* It begins NewSegment (next: "removeAll"), BreakConnect and              *)
(* ReceiveConnection ("detach"), and CompleteConnect ("attach").           *)
(***************************************************************************)
StopDecoding(waiting) ==
    /\ bStopDecoding' = TRUE
    /\ spc' = waiting
    /\ OnlyS /\ UNCHANGED <<sampleQueue, bExit, locks, stream, dpc, received, lostWakeup>>

\* Mutant of ClearSamples: what was received stays in the queue.
KeepSamples(waiting, next) ==
    /\ spc = waiting /\ mutexQueue = "free"
    /\ bStopDecoding' = FALSE
    /\ received' = <<>>
    /\ spc' = next
    /\ OnlyS /\ UNCHANGED <<sampleQueue, bExit, locks, stream, dpc, tStart, calls, lostWakeup>>

ClearSamples(waiting, next) ==
    /\ spc = waiting /\ mutexQueue = "free"
    /\ sampleQueue' = <<>>
    /\ bStopDecoding' = FALSE
    /\ received' = <<>>
    /\ spc' = next
    /\ OnlyS /\ UNCHANGED <<bExit, locks, stream, dpc, tStart, calls, lostWakeup>>

\* NewSegment: stop, clear, RemoveAll under m_pSubLock, InvalidateSubtitle.
SNewSegment(t) ==
    /\ Running /\ Call
    /\ StopDecoding("clearSegment")
    /\ tStart' = t
SClearSegment == ClearSamples("clearSegment", "removeAll")

SRemoveAll ==
    /\ spc = "removeAll" /\ subLock = "free"
    /\ entries' = [entries EXCEPT ![subStream] = <<>>]
    /\ shown' = [shown EXCEPT ![subStream] = 0]
    /\ spc' = "tell"
    /\ OnlyS /\ UNCHANGED <<sampleQueue, flags, locks, subStream, dpc, tStart, calls,
                            received, lostWakeup>>

STell ==
    /\ spc = "tell"
    /\ Announce(tStart)
    /\ spc' = "idle"
    /\ OnlyS /\ UNCHANGED <<sampleQueue, flags, locks, subStream, entries, dpc, tStart,
                            calls, received, lostWakeup>>

\* BreakConnect, or the first half of ReceiveConnection on a connected pin.
SDisconnect ==
    /\ Running
    /\ StopDecoding("clearOld") /\ UNCHANGED <<tStart, calls>>
SClearOld == ClearSamples("clearOld", "detach")

SDetach ==
    /\ spc = "detach"
    /\ subStream' = 0
    /\ spc' = "idle"
    /\ OnlyS /\ UNCHANGED <<sampleQueue, flags, locks, entries, shown, dpc, tStart, calls,
                            received, lostWakeup>>

\* CompleteConnect: a new stream for the new media type.
SConnect ==
    /\ spc = "idle" /\ subStream = 0
    /\ \E s \in Streams : shown[s] < 0 \* bound: MaxStreams
    /\ StopDecoding("clearNew") /\ UNCHANGED <<tStart, calls>>
SClearNew == ClearSamples("clearNew", "attach")

SAttach ==
    /\ spc = "attach"
    /\ \E s \in Streams :
          /\ shown[s] < 0 /\ \A r \in Streams : r < s => shown[r] >= 0
          /\ subStream' = s
          /\ shown' = [shown EXCEPT ![s] = 0]
    /\ spc' = "idle"
    /\ OnlyS /\ UNCHANGED <<sampleQueue, flags, locks, entries, dpc, tStart, calls,
                            received, lostWakeup>>

\* The destructor raises both flags and notifies, all without the mutex, and
\* joins D.
SDestroy ==
    /\ spc = "idle" /\ subStream = 0
    /\ bExit' = TRUE /\ bStopDecoding' = TRUE
    /\ spc' = "notify"
    /\ OnlyS /\ UNCHANGED <<sampleQueue, locks, stream, dpc, tStart, calls, received, lostWakeup>>

\* Mutant of SNotify: D is not woken.
JoinAtOnce ==
    /\ spc = "notify"
    /\ lostWakeup' = (dpc = "doze")
    /\ spc' = "join"
    /\ OnlyS /\ UNCHANGED <<sampleQueue, flags, locks, stream, dpc, tStart, calls, received>>

SNotify ==
    /\ spc = "notify"
    /\ dpc' = Notified(dpc)
    /\ lostWakeup' = (dpc = "doze")
    /\ spc' = "join"
    /\ OnlyS /\ UNCHANGED <<sampleQueue, flags, locks, stream, tStart, calls, received>>

SJoin ==
    /\ spc = "join" /\ dpc = "done"
    /\ spc' = "destroyed"
    /\ OnlyS /\ UNCHANGED <<sampleQueue, flags, locks, stream, dpc, tStart, calls,
                            received, lostWakeup>>

SContinue == SClearSegment \/ SRemoveAll \/ STell \/ SClearOld \/ SDetach \/ SClearNew
             \/ SAttach \/ SNotify \/ SJoin
SNext == \/ \E sample \in Samples : Receive(sample)
         \/ EndOfStream
         \/ \E t \in Times : SNewSegment(t)
         \/ SDisconnect \/ SConnect \/ SDestroy \/ SContinue

-----------------------------------------------------------------------------
(***************************************************************************)
(* V: a reader of the subtitles.                                           *)
(***************************************************************************)
OnlyV == UNCHANGED <<sampleQueue, flags, mutexQueue, stream, dvars, svars, received, lostWakeup>>
VLock == subLock = "free" /\ subLock' = "V" /\ OnlyV
VUnlock == subLock = "V" /\ subLock' = "free" /\ OnlyV

-----------------------------------------------------------------------------
Init ==
    /\ sampleQueue = <<>> /\ received = <<>>
    /\ bStopDecoding = FALSE /\ bExit = FALSE
    /\ mutexQueue = "free" /\ subLock = "free"
    /\ subStream = 0
    /\ entries = [s \in Streams |-> <<>>]
    /\ shown = [s \in Streams |-> -1]
    /\ spc = "idle" /\ tStart = 0 /\ calls = 0
    /\ dpc = "top" /\ rtInvalidate = -1 /\ target = 0
    /\ lostWakeup = FALSE

Next == DNext \/ SNext \/ VLock \/ VUnlock

(***************************************************************************)
(* Fairness: the decoding thread and a call that has begun go on, a reader *)
(* gives m_pSubLock back, and whoever wants that lock gets it in the end.  *)
(* Nobody is obliged to call the pin.                                      *)
(***************************************************************************)
Fairness ==
    /\ WF_vars(DNext) /\ SF_vars(DLockSub)
    /\ WF_vars(SContinue) /\ SF_vars(SRemoveAll)
    /\ WF_vars(VUnlock)

Spec == Init /\ [][Next]_vars
FairSpec == Spec /\ Fairness

-----------------------------------------------------------------------------
(***************************************************************************)
(* Properties.                                                             *)
(***************************************************************************)
DStates == {"top", "test", "doze", "sleep", "ready", "sublock", "relock", "decode", "tell", "done"}
SStates == {"idle", "clearSegment", "removeAll", "tell", "clearOld", "detach", "clearNew",
            "attach", "notify", "join", "destroyed"}

\* Every variable keeps its type, and an entry added is always one to show.
TypeOK ==
    /\ sampleQueue \in Seq(Samples \cup {EndMark}) /\ received \in Seq(Samples \cup {EndMark})
    /\ bStopDecoding \in BOOLEAN /\ bExit \in BOOLEAN /\ lostWakeup \in BOOLEAN
    /\ mutexQueue \in {"free", "D"} /\ subLock \in {"free", "D", "V"}
    /\ subStream \in Streams \cup {0} /\ target \in Streams \cup {0}
    /\ entries \in [Streams -> Seq([start : Times, blank : {FALSE}])]
    /\ shown \in [Streams -> Nat \cup {-1}]
    /\ spc \in SStates /\ dpc \in DStates
    /\ tStart \in Times \cup {0} /\ rtInvalidate \in Times \cup {-1}
    /\ calls \in 0 .. MaxCalls

\* The connected stream holds, in order, exactly what was received since the
\* last flush and is not queued any more: nothing is lost or decoded twice,
\* and nothing received before NewSegment or for another stream gets in.
Conserved ==
    subStream # 0 /\ spc \notin {"removeAll", "detach"}
    => entries[subStream] \o Visible(sampleQueue) = Visible(received)

\* D does not decode without a stream, and the stream it announces is the one
\* it decoded into, although m_pSubStream has no lock of its own.
StreamKept ==
    /\ dpc = "decode" /\ sampleQueue # <<>> /\ ~NeedStopProcessing => subStream # 0
    /\ dpc = "tell" /\ rtInvalidate >= 0 => subStream = target /\ subStream # 0

\* Between two rounds of D every entry of the stream has been announced, so
\* that no picture rendered before it is shown for long.
Announced ==
    subStream # 0 /\ dpc \notin {"decode", "tell"}
    => shown[subStream] = Len(entries[subStream])

\* Every sample received is decoded or flushed.
SamplesConsumed == sampleQueue # <<>> ~> sampleQueue = <<>>

\* NewSegment and a change of media type return, whatever D and the readers do.
CallsReturn == spc \in {"clearSegment", "clearOld", "clearNew"} ~> spc = "idle"

\* The destructor returns, unless it raised its flags and notified between the
\* test of D and its sleep.
DestructorReturns == spc = "join" /\ ~lostWakeup ~> spc = "destroyed"
=============================================================================
