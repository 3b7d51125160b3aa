------------------------ MODULE SubtitleInputPinProofs ------------------------
(***************************************************************************)
(* Proofs about SubtitleInputPin, for every set of times and every number  *)
(* of connections and calls.                                               *)
(***************************************************************************)
EXTENDS SubtitleInputPin, WellFoundedInduction, TLAPS

Entry == [start : Times, blank : {FALSE}]

\* Who holds which lock at each stage of DecodeSamples.
Locked ==
    /\ mutexQueue = "D" <=> dpc \in {"doze", "decode", "tell"}
    /\ subLock = "D" <=> dpc \in {"relock", "decode"}

\* Samples are queued only while there is a stream that stays.
Queued == subStream = 0 \/ spc \in {"detach", "attach"} => sampleQueue = <<>>

\* The stream cannot change between the samples of a round and its announcement.
Round ==
    /\ dpc \in {"sublock", "relock"} => rtInvalidate = -1
    /\ dpc = "decode" /\ sampleQueue # <<>> => target = subStream
    /\ dpc \in {"decode", "tell"} /\ rtInvalidate >= 0
         => subStream = target /\ subStream # 0 /\ spc \notin {"detach", "attach"}

\* The stream with this number has not been made yet.
Unused == \A s \in Streams : shown[s] < 0 => entries[s] = <<>>

\* What has not been announced was added in this round, and not before
\* rtInvalidate.
Told ==
    subStream # 0 =>
        /\ shown[subStream] \in 0 .. Len(entries[subStream])
        /\ \A i \in shown[subStream] + 1 .. Len(entries[subStream]) :
              /\ dpc \in {"decode", "tell"}
              /\ rtInvalidate >= 0 /\ entries[subStream][i].start >= rtInvalidate

IInv == TypeOK /\ Locked /\ Queued /\ Round /\ Unused /\ Told

-----------------------------------------------------------------------------
LEMMA TimesInt == Times \subseteq Int /\ \A t \in Times : t >= 0
  BY TimesAssumption

\* The stream in use, as the type invariant has it.
LEMMA StreamType ==
    ASSUME TypeOK, subStream # 0
    PROVE  /\ subStream \in Streams /\ entries[subStream] \in Seq(Entry)
           /\ shown[subStream] \in Int /\ Len(entries[subStream]) \in Nat
<1>1. /\ subStream \in Streams /\ entries \in [Streams -> Seq(Entry)]
      /\ shown \in [Streams -> Nat \cup {-1}]
  BY DEF TypeOK, Entry
<1>2. entries[subStream] \in Seq(Entry) /\ shown[subStream] \in Nat \cup {-1}
  BY <1>1
<1> QED
  BY <1>1, <1>2

LEMMA SampleType ==
    ASSUME NEW s \in Samples
    PROVE  /\ s.start \in Times /\ s.blank \in BOOLEAN
           /\ ~s.blank => s \in Entry
  BY DEF Samples, Entry

\* Whoever calls InvalidateSubtitle: what has been announced stays so.
LEMMA AnnounceKeeps ==
    ASSUME IInv, NEW rt \in Int, Announce(rt), UNCHANGED <<entries, subStream>>
    PROVE  /\ shown' \in [Streams -> Nat \cup {-1}]
           /\ \A s \in Streams : shown'[s] < 0 <=> shown[s] < 0
           /\ subStream # 0 =>
                 /\ shown'[subStream] \in 0 .. Len(entries[subStream])
                 /\ shown[subStream] <= shown'[subStream]
<1>1. CASE shown' = shown
  BY <1>1, StreamType DEF IInv, TypeOK, Told
<1>2. CASE subStream # 0 /\ shown' = [shown EXCEPT ![subStream] = Len(entries[subStream])]
  <2>1. /\ Len(entries[subStream]) \in Nat /\ subStream \in Streams
        /\ shown[subStream] \in 0 .. Len(entries[subStream])
    BY <1>2, StreamType DEF IInv, Told
  <2>2. shown \in [Streams -> Nat \cup {-1}]
    BY DEF IInv, TypeOK
  <2> DEFINE n == Len(entries[subStream])
  <2> HIDE DEF n
  <2>3. shown' = [shown EXCEPT ![subStream] = n] /\ n \in Nat /\ shown[subStream] \in 0 .. n
    BY <1>2, <2>1 DEF n
  <2>4. shown' \in [Streams -> Nat \cup {-1}] /\ shown'[subStream] = n
    BY <2>1, <2>2, <2>3
  <2>5. \A s \in Streams : shown'[s] < 0 <=> shown[s] < 0
    BY <2>1, <2>2, <2>3
  <2> QED
    BY <2>3, <2>4, <2>5 DEF n
<1> QED
  BY <1>1, <1>2 DEF Announce

-----------------------------------------------------------------------------
(* The decoding thread. *)

LEMMA DecodeStep ==
    ASSUME IInv, DDecode
    PROVE  IInv'
<1> USE DEF IInv
<1> DEFINE sample == Head(sampleQueue)
<1>1. /\ dpc = "decode" /\ sampleQueue # <<>> /\ ~NeedStopProcessing
      /\ sampleQueue' = Tail(sampleQueue)
      /\ UNCHANGED <<flags, svars, received, lostWakeup, locks, subStream, shown, dpc, target>>
  BY DEF DDecode, OnlyD
<1>2. sampleQueue \in Seq(Samples \cup {EndMark}) /\ sampleQueue' \in Seq(Samples \cup {EndMark})
      /\ sample \in Samples \cup {EndMark}
  BY <1>1 DEF TypeOK
<1>3. /\ subStream # 0 /\ target = subStream /\ subStream \in Streams
      /\ spc \notin {"detach", "attach"}
  BY <1>1 DEF Queued, Round, TypeOK
<1>4. CASE sample = EndMark \/ sample.blank
  <2>1. UNCHANGED <<entries, rtInvalidate>>
    BY <1>4 DEF DDecode
  <2>2. TypeOK'
    BY <1>1, <1>2, <2>1 DEF TypeOK, flags, svars, locks
  <2>3. Locked' /\ Queued' /\ Round'
    BY <1>1, <1>3, <2>1 DEF Locked, Queued, Round, svars, locks
  <2>4. Unused' /\ Told'
    BY <1>1, <2>1 DEF Unused, Told
  <2> QED
    BY <2>2, <2>3, <2>4
<1>5. CASE ~(sample = EndMark \/ sample.blank)
  <2>1. /\ entries' = [entries EXCEPT ![subStream] = Append(entries[subStream], sample)]
        /\ rtInvalidate' = Earlier(sample.start)
    BY <1>5 DEF DDecode
  <2>2. sample \in Entry /\ sample.start \in Times
    BY <1>2, <1>5, SampleType
  <2> HIDE DEF sample
  <2>3. rtInvalidate \in Times \cup {-1} /\ rtInvalidate \in Int
    BY TimesInt DEF TypeOK
  <2>4. /\ rtInvalidate' \in Times /\ rtInvalidate' >= 0 /\ rtInvalidate' <= sample.start
        /\ rtInvalidate >= 0 => rtInvalidate' <= rtInvalidate
    <3>1. /\ rtInvalidate' = IF rtInvalidate < 0 \/ sample.start < rtInvalidate
                             THEN sample.start ELSE rtInvalidate
          /\ sample.start \in Int /\ sample.start >= 0
      BY <2>1, <2>2, TimesInt DEF Earlier
    <3>2. rtInvalidate \in Times \/ rtInvalidate < 0
      BY <2>3
    <3> QED
      BY <3>1, <3>2, <2>2, <2>3
  <2>5. entries \in [Streams -> Seq(Entry)]
    BY DEF TypeOK, Entry
  <2>6. Append(entries[subStream], sample) \in Seq(Entry)
    BY <1>3, <2>2, <2>5
  <2>7. /\ entries' \in [Streams -> Seq(Entry)]
        /\ entries'[subStream] = Append(entries[subStream], sample)
        /\ \A s \in Streams \ {subStream} : entries'[s] = entries[s]
    BY <2>1, <2>5, <2>6, <1>3
  <2>8. TypeOK'
    BY <1>1, <1>2, <2>4, <2>7 DEF TypeOK, Entry, flags, svars, locks
  <2>9. Locked' /\ Queued' /\ Round'
    BY <1>1, <1>3 DEF Locked, Queued, Round, svars, locks
  <2>10. shown[subStream] \in 0 .. Len(entries[subStream])
    BY <1>3 DEF Told
  <2>11. Unused'
    <3>1. ~(shown[subStream] < 0)
      BY <2>10
    <3> QED
      BY <1>1, <2>7, <3>1 DEF Unused
  <2>12. Told'
    <3> DEFINE e == entries[subStream]
               n == shown[subStream]
               u == Append(e, sample)
    <3>1. e \in Seq(Entry) /\ Len(e) \in Nat /\ n \in 0 .. Len(e)
      BY <2>5, <2>10, <1>3
    <3>2. \A i \in n + 1 .. Len(e) : rtInvalidate >= 0 /\ e[i].start >= rtInvalidate
      BY <1>3 DEF Told
    <3>e. \A i \in 1 .. Len(e) : e[i].start \in Int
      <4>1. \A i \in 1 .. Len(e) : e[i] \in Entry
        BY <3>1
      <4> QED
        BY <4>1, TimesInt DEF Entry
    <3> HIDE DEF e, n
    <3>3. /\ Len(u) = Len(e) + 1 /\ u[Len(e) + 1] = sample
          /\ \A i \in 1 .. Len(e) : u[i] = e[i]
      BY <3>1, <2>2
    <3> HIDE DEF u
    <3>4. n \in 0 .. Len(u)
      BY <3>1, <3>3
    <3>5. \A i \in n + 1 .. Len(u) : u[i].start >= rtInvalidate'
      <4> TAKE i \in n + 1 .. Len(u)
      <4>1. CASE i = Len(e) + 1
        <5>1. u[i].start = sample.start /\ sample.start \in Int /\ rtInvalidate' \in Int
          BY <4>1, <3>3, <2>2, <2>4, TimesInt
        <5> QED
          BY <5>1, <2>4
      <4>2. CASE i # Len(e) + 1
        <5>1. i \in n + 1 .. Len(e) /\ i \in 1 .. Len(e)
          BY <4>2, <3>1, <3>3
        <5>2. u[i] = e[i] /\ e[i].start \in Int /\ e[i].start >= rtInvalidate /\ rtInvalidate >= 0
          BY <5>1, <3>2, <3>3, <3>e
        <5>3. rtInvalidate' \in Int /\ rtInvalidate' <= rtInvalidate
          BY <5>2, <2>4, TimesInt
        <5> QED
          BY <5>2, <5>3, <2>3
      <4> QED
        BY <4>1, <4>2
    <3>6. entries'[subStream'] = u /\ shown'[subStream'] = n /\ dpc' = "decode"
      BY <1>1, <2>7 DEF e, n, u
    <3> QED
      BY <3>4, <3>5, <3>6, <2>4 DEF Told
  <2> QED
    BY <2>8, <2>9, <2>11, <2>12
<1> QED
  BY <1>4, <1>5

LEMMA TellStep ==
    ASSUME IInv, DTell
    PROVE  IInv'
<1> USE DEF IInv
<1>1. /\ dpc = "tell" /\ dpc' = "top" /\ mutexQueue' = "free" /\ mutexQueue = "D"
      /\ UNCHANGED <<flags, svars, received, lostWakeup, sampleQueue, subLock, subStream, entries,
                     rtInvalidate, target>>
  BY DEF DTell, OnlyD, Locked
<1>r. rtInvalidate \in Int
  BY TimesInt DEF TypeOK
<1>2. /\ shown' \in [Streams -> Nat \cup {-1}]
      /\ \A s \in Streams : shown'[s] < 0 <=> shown[s] < 0
  <2>1. CASE rtInvalidate >= 0
    BY <2>1, <1>1, <1>r, AnnounceKeeps DEF DTell
  <2>2. CASE ~(rtInvalidate >= 0)
    BY <2>2 DEF DTell, TypeOK
  <2> QED
    BY <2>1, <2>2
<1>3. subStream # 0 => shown'[subStream] = Len(entries[subStream])
  <2> SUFFICES ASSUME subStream # 0 PROVE shown'[subStream] = Len(entries[subStream])
    OBVIOUS
  <2>t. /\ subStream \in Streams /\ Len(entries[subStream]) \in Nat
        /\ shown \in [Streams -> Nat \cup {-1}]
    BY StreamType DEF TypeOK
  <2>1. CASE rtInvalidate >= 0
    <3>1. \A i \in shown[subStream] + 1 .. Len(entries[subStream]) :
             entries[subStream][i].start >= rtInvalidate
      BY DEF Told
    <3>2. shown' = [shown EXCEPT ![subStream] = Len(entries[subStream])]
      BY <2>1, <3>1 DEF DTell, Announce
    <3> QED
      BY <3>2, <2>t
  <2>2. CASE ~(rtInvalidate >= 0)
    <3>1. shown' = shown
      BY <2>2 DEF DTell
    <3>2. shown[subStream] \in 0 .. Len(entries[subStream])
          /\ ~(shown[subStream] + 1 \in shown[subStream] + 1 .. Len(entries[subStream]))
      BY <2>2 DEF Told
    <3> QED
      BY <3>1, <3>2, <2>t
  <2> QED
    BY <2>1, <2>2
<1>4. TypeOK'
  BY <1>1, <1>2 DEF TypeOK, DStates, flags, svars
<1>5. Locked' /\ Queued' /\ Round'
  BY <1>1 DEF Locked, Queued, Round, svars
<1>6. Unused'
  BY <1>1, <1>2 DEF Unused
<1>7. Told'
  <2> SUFFICES ASSUME subStream # 0
               PROVE  /\ shown'[subStream] \in 0 .. Len(entries[subStream])
                      /\ ~\E i \in shown'[subStream] + 1 .. Len(entries[subStream]) : TRUE
    BY <1>1 DEF Told
  <2>1. Len(entries[subStream]) \in Nat
    BY StreamType
  <2> QED
    BY <1>3, <2>1
<1> QED
  BY <1>4, <1>5, <1>6, <1>7

\* The steps of the thread that leave the stream alone.
LEMMA OtherDecoderSteps ==
    ASSUME IInv, DLoop \/ DTest \/ DSleep \/ DReady \/ DLockSub \/ DRelock \/ DDecoded
    PROVE  IInv'
<1> USE DEF IInv
<1>1. UNCHANGED <<flags, svars, received, lostWakeup, sampleQueue, stream>>
  BY DEF DLoop, DTest, DSleep, DReady, DLockSub, DRelock, DDecoded, OnlyD
<1>2. TypeOK'
  BY <1>1 DEF DLoop, DTest, DSleep, DReady, DLockSub, DRelock, DDecoded, TypeOK, DStates, flags,
              svars, stream, locks
<1>3. Locked'
  BY DEF DLoop, DTest, DSleep, DReady, DLockSub, DRelock, DDecoded, Locked, locks
<1>4. Queued' /\ Unused'
  BY <1>1 DEF Queued, Unused, svars, stream
<1>5. Round'
  BY <1>1 DEF DLoop, DTest, DSleep, DReady, DLockSub, DRelock, DDecoded, Round, svars, stream
<1>6. Told'
  <2>1. CASE DDecoded
    <3>1. UNCHANGED <<subStream, entries, shown, rtInvalidate>> /\ dpc' = "tell"
      BY <2>1, <1>1 DEF DDecoded, stream
    <3> QED
      BY <3>1 DEF Told
  <2>2. CASE ~DDecoded
    <3>1. UNCHANGED <<subStream, entries, shown>> /\ dpc \notin {"decode", "tell"}
      BY <2>2, <1>1 DEF DLoop, DTest, DSleep, DReady, DLockSub, DRelock, stream
    <3> QED
      BY <3>1 DEF Told
  <2> QED
    BY <2>1, <2>2
<1> QED
  BY <1>2, <1>3, <1>4, <1>5, <1>6
-----------------------------------------------------------------------------
(* The calls of the pin. *)

LEMMA EnqueueStep ==
    ASSUME IInv, NEW s \in Samples \cup {EndMark}, Enqueue(s)
    PROVE  IInv'
<1> USE DEF IInv
<1>1. /\ spc = "idle" /\ subStream # 0 /\ mutexQueue = "free" /\ dpc' = Notified(dpc)
      /\ sampleQueue' = Append(sampleQueue, s) /\ received' = Append(received, s)
      /\ UNCHANGED <<flags, locks, stream, spc, tStart, lostWakeup, rtInvalidate, target>>
  BY DEF Enqueue, Running, OnlyS
<1>2. dpc \notin {"doze", "decode", "tell"} /\ dpc' \in {dpc, "test"}
      /\ dpc' \notin {"doze", "decode", "tell"} /\ (dpc' # dpc => dpc = "sleep")
  BY <1>1 DEF Locked, Notified
<1>3. calls' \in 0 .. MaxCalls
  BY BoundAssumption DEF Enqueue, Call, TypeOK
<1>4. TypeOK'
  <2>1. Append(sampleQueue, s) \in Seq(Samples \cup {EndMark})
        /\ Append(received, s) \in Seq(Samples \cup {EndMark})
    BY DEF TypeOK
  <2> QED
    BY <1>1, <1>2, <1>3, <2>1 DEF TypeOK, DStates, flags, locks, stream
<1>5. Locked' /\ Queued'
  BY <1>1, <1>2 DEF Locked, Queued, locks, stream
<1>6. Round'
  BY <1>1, <1>2 DEF Round, stream
<1>7. Unused' /\ Told'
  BY <1>1, <1>2 DEF Unused, Told, stream
<1> QED
  BY <1>4, <1>5, <1>6, <1>7

\* m_bStopDecoding is raised.
LEMMA StopStep ==
    ASSUME IInv, NEW waiting \in {"clearSegment", "clearOld", "clearNew"},
           StopDecoding(waiting), spc = "idle",
           tStart' \in Times \cup {0}, calls' \in 0 .. MaxCalls
    PROVE  IInv'
<1> USE DEF IInv
<1>1. /\ bStopDecoding' = TRUE /\ spc' = waiting
      /\ UNCHANGED <<sampleQueue, bExit, locks, stream, dpc, received, lostWakeup, rtInvalidate, target>>
  BY DEF StopDecoding, OnlyS
<1>2. TypeOK'
  BY <1>1 DEF TypeOK, SStates, locks, stream
<1>3. Locked' /\ Queued' /\ Round' /\ Unused' /\ Told'
  BY <1>1 DEF Locked, Queued, Round, Unused, Told, locks, stream
<1> QED
  BY <1>2, <1>3

\* The queue is cleared, which waits for the end of a round.
LEMMA ClearStep ==
    ASSUME IInv, NEW waiting, NEW next \in {"removeAll", "detach", "attach"},
           ClearSamples(waiting, next)
    PROVE  IInv'
<1> USE DEF IInv
<1>1. /\ sampleQueue' = <<>> /\ bStopDecoding' = FALSE /\ received' = <<>> /\ spc' = next
      /\ mutexQueue = "free"
      /\ UNCHANGED <<bExit, locks, stream, dpc, tStart, calls, lostWakeup, rtInvalidate, target>>
  BY DEF ClearSamples, OnlyS
<1>2. dpc \notin {"decode", "tell"}
  BY <1>1 DEF Locked
<1>3. TypeOK'
  <2>1. next \in SStates /\ sampleQueue' \in Seq(Samples \cup {EndMark})
        /\ received' \in Seq(Samples \cup {EndMark})
    BY <1>1 DEF SStates
  <2> QED
    BY <1>1, <2>1 DEF TypeOK, locks, stream
<1>4. Locked' /\ Queued' /\ Round'
  BY <1>1, <1>2 DEF Locked, Queued, Round, locks, stream
<1>5. Unused' /\ Told'
  BY <1>1, <1>2 DEF Unused, Told, stream
<1> QED
  BY <1>3, <1>4, <1>5

LEMMA RemoveStep ==
    ASSUME IInv, SRemoveAll
    PROVE  IInv'
<1> USE DEF IInv
<1>1. /\ spc = "removeAll" /\ subLock = "free" /\ spc' = "tell"
      /\ entries' = [entries EXCEPT ![subStream] = <<>>]
      /\ shown' = [shown EXCEPT ![subStream] = 0]
      /\ UNCHANGED <<sampleQueue, flags, locks, subStream, dpc, tStart, calls, received, lostWakeup,
                     rtInvalidate, target>>
  BY DEF SRemoveAll, OnlyS
<1>t. /\ entries \in [Streams -> Seq(Entry)] /\ shown \in [Streams -> Nat \cup {-1}]
      /\ subStream \in Streams \cup {0}
  BY DEF TypeOK, Entry
<1>2. /\ entries' \in [Streams -> Seq(Entry)] /\ shown' \in [Streams -> Nat \cup {-1}]
      /\ \A s \in Streams : \/ entries'[s] = <<>> /\ shown'[s] = 0
                            \/ s # subStream /\ entries'[s] = entries[s] /\ shown'[s] = shown[s]
  <2>1. CASE subStream = 0
    <3>1. 0 \notin Streams
      BY DEF Streams
    <3>2. entries' = entries /\ shown' = shown
      BY <1>1, <1>t, <2>1, <3>1
    <3> QED
      BY <1>t, <2>1, <3>1, <3>2
  <2>2. CASE subStream \in Streams
    <3>1. <<>> \in Seq(Entry) /\ 0 \in Nat
      OBVIOUS
    <3>2. /\ entries' \in [Streams -> Seq(Entry)] /\ entries'[subStream] = <<>>
          /\ \A s \in Streams \ {subStream} : entries'[s] = entries[s]
      BY <1>1, <1>t, <2>2, <3>1
    <3>3. /\ shown' \in [Streams -> Nat \cup {-1}] /\ shown'[subStream] = 0
          /\ \A s \in Streams \ {subStream} : shown'[s] = shown[s]
      BY <1>1, <1>t, <2>2, <3>1
    <3> QED
      BY <3>2, <3>3
  <2> QED
    BY <2>1, <2>2, <1>t
<1>3. TypeOK'
  BY <1>1, <1>2 DEF TypeOK, Entry, SStates, flags, locks
<1>4. Locked' /\ Queued' /\ Round'
  BY <1>1 DEF Locked, Queued, Round, locks
<1>5. Unused'
  BY <1>2 DEF Unused
<1>6. Told'
  <2> SUFFICES ASSUME subStream # 0
               PROVE  /\ shown'[subStream] \in 0 .. Len(entries'[subStream])
                      /\ ~\E i \in shown'[subStream] + 1 .. Len(entries'[subStream]) : TRUE
    BY <1>1 DEF Told
  <2>1. entries'[subStream] = <<>> /\ shown'[subStream] = 0
    BY <1>2, <1>t
  <2> QED
    BY <2>1
<1> QED
  BY <1>3, <1>4, <1>5, <1>6

\* The announcement of a new segment may only add to what has been announced.
LEMMA SegmentStep ==
    ASSUME IInv, STell
    PROVE  IInv'
<1> USE DEF IInv
<1>1. /\ spc = "tell" /\ spc' = "idle" /\ Announce(tStart)
      /\ UNCHANGED <<sampleQueue, flags, locks, subStream, entries, dpc, tStart, calls, received,
                     lostWakeup, rtInvalidate, target>>
  BY DEF STell, OnlyS
<1>2. tStart \in Int
  BY TimesInt DEF TypeOK
<1>3. /\ shown' \in [Streams -> Nat \cup {-1}]
      /\ \A s \in Streams : shown'[s] < 0 <=> shown[s] < 0
      /\ subStream # 0 =>
            /\ shown'[subStream] \in 0 .. Len(entries[subStream])
            /\ shown[subStream] <= shown'[subStream]
  BY <1>1, <1>2, AnnounceKeeps
<1>4. TypeOK'
  BY <1>1, <1>3 DEF TypeOK, SStates, flags, locks
<1>5. Locked' /\ Queued' /\ Round' /\ Unused'
  BY <1>1, <1>3 DEF Locked, Queued, Round, Unused, locks
<1>6. Told'
  <2> SUFFICES ASSUME subStream # 0, NEW i \in shown'[subStream] + 1 .. Len(entries[subStream])
               PROVE  i \in shown[subStream] + 1 .. Len(entries[subStream])
    BY <1>1, <1>3 DEF Told
  <2>1. shown[subStream] \in Int /\ Len(entries[subStream]) \in Nat
    BY StreamType
  <2> QED
    BY <2>1, <1>3
<1> QED
  BY <1>4, <1>5, <1>6

LEMMA AttachStep ==
    ASSUME IInv, SDetach \/ SAttach
    PROVE  IInv'
<1> USE DEF IInv
<1>1. CASE SDetach
  <2>1. /\ spc = "detach" /\ spc' = "idle" /\ subStream' = 0
        /\ UNCHANGED <<sampleQueue, flags, locks, entries, shown, dpc, tStart, calls, received,
                       lostWakeup, rtInvalidate, target>>
    BY <1>1 DEF SDetach, OnlyS
  <2>2. sampleQueue = <<>>
    BY <2>1 DEF Queued
  <2>3. TypeOK'
    BY <2>1 DEF TypeOK, SStates, flags, locks
  <2>4. Locked' /\ Queued' /\ Round' /\ Unused' /\ Told'
    BY <2>1, <2>2 DEF Locked, Queued, Round, Unused, Told, locks
  <2> QED
    BY <2>3, <2>4
<1>2. CASE SAttach
  <2>1. /\ spc = "attach" /\ spc' = "idle"
        /\ UNCHANGED <<sampleQueue, flags, locks, entries, dpc, tStart, calls, received, lostWakeup,
                       rtInvalidate, target>>
    BY <1>2 DEF SAttach, OnlyS
  <2>2. PICK s \in Streams : shown[s] < 0 /\ subStream' = s /\ shown' = [shown EXCEPT ![s] = 0]
    BY <1>2 DEF SAttach
  <2>3. sampleQueue = <<>>
    BY <2>1 DEF Queued
  <2>4. shown' \in [Streams -> Nat \cup {-1}] /\ shown'[s] = 0 /\ entries[s] = <<>>
        /\ \A r \in Streams \ {s} : shown'[r] = shown[r]
    BY <2>2 DEF TypeOK, Unused
  <2>5. TypeOK'
    BY <2>1, <2>2, <2>4 DEF TypeOK, SStates, flags, locks
  <2>6. Locked' /\ Queued' /\ Round'
    BY <2>1, <2>2, <2>3 DEF Locked, Queued, Round, locks
  <2>7. Unused'
    BY <2>1, <2>4 DEF Unused
  <2>8. Told'
    <3>1. entries'[subStream'] = <<>> /\ shown'[subStream'] = 0
      BY <2>1, <2>2, <2>4
    <3> QED
      BY <3>1 DEF Told
  <2> QED
    BY <2>5, <2>6, <2>7, <2>8
<1> QED
  BY <1>1, <1>2

LEMMA DestroyStep ==
    ASSUME IInv, SDestroy \/ SNotify \/ SJoin
    PROVE  IInv'
<1> USE DEF IInv
<1>1. UNCHANGED <<sampleQueue, locks, stream, tStart, calls, received, rtInvalidate, target>>
  BY DEF SDestroy, SNotify, SJoin, OnlyS
<1>2. dpc' \in {dpc, Notified(dpc)} /\ (dpc' # dpc => dpc = "sleep" /\ dpc' = "test")
  BY DEF SDestroy, SNotify, SJoin, Notified
<1>3. spc' \in {"notify", "join", "destroyed"}
  BY DEF SDestroy, SNotify, SJoin
<1>4. bStopDecoding' \in BOOLEAN /\ bExit' \in BOOLEAN /\ lostWakeup' \in BOOLEAN
  BY DEF SDestroy, SNotify, SJoin, flags, TypeOK
<1>5. TypeOK'
  BY ZenonT(30), <1>1, <1>2, <1>3, <1>4 DEF TypeOK, SStates, DStates, locks, stream
<1>6. Locked' /\ Queued' /\ Round' /\ Unused' /\ Told'
  BY <1>1, <1>2, <1>3 DEF Locked, Queued, Round, Unused, Told, locks, stream
<1> QED
  BY <1>5, <1>6

-----------------------------------------------------------------------------
LEMMA InitHolds == Init => IInv
<1> SUFFICES ASSUME Init PROVE IInv
  OBVIOUS
<1>1. TypeOK
  <2>1. <<>> \in Seq(Samples \cup {EndMark}) /\ <<>> \in Seq([start : Times, blank : {FALSE}])
    OBVIOUS
  <2>2. 0 \in 0 .. MaxCalls
    BY BoundAssumption
  <2> QED
    BY <2>1, <2>2 DEF Init, TypeOK, SStates, DStates
<1>2. Locked /\ Queued /\ Round /\ Unused /\ Told
  BY DEF Init, Locked, Queued, Round, Unused, Told
<1> QED
  BY <1>1, <1>2 DEF IInv

LEMMA NextKeeps ==
    ASSUME IInv, [Next]_vars
    PROVE  IInv'
<1>1. CASE DNext
  BY <1>1, DecodeStep, TellStep, OtherDecoderSteps DEF DNext
<1>2. CASE SNext
  <2>c. tStart \in Times \cup {0} /\ calls \in 0 .. MaxCalls /\ (Call => calls' \in 0 .. MaxCalls)
    BY BoundAssumption DEF IInv, TypeOK, Call
  <2>1. CASE \E s \in Samples : Receive(s)
    BY <2>1, EnqueueStep DEF Receive
  <2>2. CASE EndOfStream
    BY <2>2, EnqueueStep DEF EndOfStream
  <2>3. CASE \E t \in Times : SNewSegment(t)
    BY <2>3, <2>c, StopStep DEF SNewSegment, Running
  <2>4. CASE SDisconnect
    BY <2>4, <2>c, StopStep DEF SDisconnect, Running
  <2>5. CASE SConnect
    BY <2>5, <2>c, StopStep DEF SConnect
  <2>6. CASE SClearSegment \/ SClearOld \/ SClearNew
    BY <2>6, ClearStep DEF SClearSegment, SClearOld, SClearNew
  <2>7. CASE SRemoveAll
    BY <2>7, RemoveStep
  <2>8. CASE STell
    BY <2>8, SegmentStep
  <2>9. CASE SDetach \/ SAttach
    BY <2>9, AttachStep
  <2>10. CASE SDestroy \/ SNotify \/ SJoin
    BY <2>10, DestroyStep
  <2> QED
    BY <1>2, <2>1, <2>2, <2>3, <2>4, <2>5, <2>6, <2>7, <2>8, <2>9, <2>10 DEF SNext, SContinue
<1>3. CASE VLock \/ VUnlock
  <2>1. /\ UNCHANGED <<sampleQueue, flags, mutexQueue, stream, dvars, svars, received, lostWakeup>>
        /\ subLock # "D" /\ subLock' \in {"free", "V"}
    BY <1>3 DEF VLock, VUnlock, OnlyV
  <2>2. TypeOK'
    BY <2>1 DEF IInv, TypeOK, flags, stream, dvars, svars
  <2>3. Locked' /\ Queued' /\ Round' /\ Unused' /\ Told'
    BY <2>1 DEF IInv, Locked, Queued, Round, Unused, Told, stream, dvars, svars
  <2> QED
    BY <2>2, <2>3 DEF IInv
<1>4. CASE UNCHANGED vars
  <2>1. TypeOK'
    BY <1>4 DEF IInv, TypeOK, vars, flags, locks, stream, dvars, svars
  <2>2. Locked' /\ Queued' /\ Round' /\ Unused' /\ Told'
    BY <1>4 DEF IInv, Locked, Queued, Round, Unused, Told, vars, locks, stream, dvars, svars
  <2> QED
    BY <2>1, <2>2 DEF IInv
<1> QED
  BY <1>1, <1>2, <1>3, <1>4 DEF Next

LEMMA Invariant == Spec => []IInv
  BY InitHolds, NextKeeps, PTL DEF Spec

\* Every variable of the pin keeps its type, for any times and any number of
\* connections and calls; only samples with something to show become entries.
THEOREM TypeCorrect == Spec => []TypeOK
<1>1. IInv => TypeOK
  BY DEF IInv
<1> QED
  BY <1>1, Invariant, PTL

\* The stream that DecodeSamples announces is the one it decoded into, and it
\* never decodes without one, although it reads m_pSubStream without a lock
\* that BreakConnect and CompleteConnect respect.
THEOREM StreamStays == Spec => []StreamKept
<1>1. IInv => StreamKept
  BY DEF IInv, Queued, Round, StreamKept
<1> QED
  BY <1>1, Invariant, PTL

\* Between two rounds of DecodeSamples every entry has been announced to the
\* player, with whatever segments, reconnections and readers in between.
THEOREM EverythingAnnounced == Spec => []Announced
<1>1. ASSUME IInv PROVE Announced
  <2> SUFFICES ASSUME subStream # 0, dpc \notin {"decode", "tell"}
               PROVE  shown[subStream] = Len(entries[subStream])
    BY DEF Announced
  <2>1. shown[subStream] \in 0 .. Len(entries[subStream]) /\ Len(entries[subStream]) \in Nat
    BY <1>1, StreamType DEF IInv, Told
  <2>2. ~(shown[subStream] + 1 \in shown[subStream] + 1 .. Len(entries[subStream]))
    BY <1>1 DEF IInv, Told
  <2> QED
    BY <2>1, <2>2
<1> QED
  BY <1>1, Invariant, PTL

-----------------------------------------------------------------------------
(***************************************************************************)
(* Nothing is lost: what Visible makes of a sequence that grows at its end *)
(* or shrinks at its head.                                                 *)
(***************************************************************************)
Sample == Samples \cup {EndMark}

\* What has been picked before the next sample, and with it.
Pick(seq, s) == IF s = EndMark \/ s.blank THEN seq ELSE Append(seq, s)

\* first is the function Visible is computed by, along the first K samples.
Picks(first, q, K) ==
    /\ DOMAIN first = 0 .. K
    /\ \A n \in 0 .. K : first[n] = IF n = 0 THEN <<>> ELSE Pick(first[n - 1], q[n])

LEMMA Least ==
    ASSUME NEW T \in SUBSET Nat, T # {}
    PROVE  \E m \in T : \A n \in T : m <= n
<1>1. IsWellFoundedOn(OpToRel(<, Nat), Nat)
  BY NatLessThanWellFounded
<1>2. PICK m \in T : \A n \in T : ~(<<n, m>> \in OpToRel(<, Nat))
  BY <1>1, WFMin
<1>3. \A n \in T : ~(n < m)
  BY <1>2 DEF OpToRel
<1> QED
  BY <1>3

LEMMA PickType ==
    ASSUME NEW e \in Seq(Entry), NEW s \in Sample
    PROVE  Pick(e, s) \in Seq(Entry)
  BY SampleType DEF Pick, Sample

LEMMA PicksExist ==
    ASSUME NEW q \in Seq(Sample)
    PROVE  \E first \in [0 .. Len(q) -> Seq(Entry)] : Picks(first, q, Len(q))
<1> DEFINE Ok(k) == \E f \in [0 .. k -> Seq(Entry)] : Picks(f, q, k)
           T == {k \in 0 .. Len(q) : ~Ok(k)}
<1> SUFFICES ASSUME T # {} PROVE FALSE
  OBVIOUS
<1>1. PICK k \in T : \A n \in T : k <= n
  <2>1. T \in SUBSET Nat
    OBVIOUS
  <2> HIDE DEF T
  <2> QED
    BY <2>1, Least
<1>2. k # 0
  <2> DEFINE f == [n \in 0 .. 0 |-> <<>>]
  <2>1. f \in [0 .. 0 -> Seq(Entry)] /\ Picks(f, q, 0)
    BY DEF Picks
  <2> QED
    BY <2>1
<1>3. Ok(k - 1)
  <2> HIDE DEF Ok
  <2>1. k - 1 \in 0 .. Len(q) /\ ~(k <= k - 1)
    BY <1>1, <1>2
  <2> QED
    BY <1>1, <2>1
<1>4. PICK f \in [0 .. k - 1 -> Seq(Entry)] : Picks(f, q, k - 1)
  BY <1>3
<1> DEFINE e == Pick(f[k - 1], q[k])
           g == [n \in 0 .. k |-> IF n = k THEN e ELSE f[n]]
<1>5. e \in Seq(Entry)
  <2>1. k - 1 \in 0 .. k - 1 /\ k \in 1 .. Len(q)
    BY <1>1, <1>2
  <2>2. f[k - 1] \in Seq(Entry) /\ q[k] \in Sample
    BY <2>1, <1>4
  <2> QED
    BY <2>2, PickType
<1> HIDE DEF e
<1>6. g \in [0 .. k -> Seq(Entry)]
  BY <1>1, <1>2, <1>4, <1>5
<1>7. Picks(g, q, k)
  <2> SUFFICES ASSUME NEW n \in 0 .. k
               PROVE  g[n] = IF n = 0 THEN <<>> ELSE Pick(g[n - 1], q[n])
    BY <1>6 DEF Picks
  <2>1. CASE n = k
    <3>1. g[n] = e /\ n - 1 \in 0 .. k /\ n - 1 # k
      BY <2>1, <1>1, <1>2
    <3> QED
      BY <2>1, <3>1, <1>2 DEF e
  <2>2. CASE n # k
    <3>1. n \in 0 .. k - 1 /\ (n # 0 => n - 1 \in 0 .. k /\ n - 1 # k)
      BY <2>2, <1>1
    <3>2. g[n] = f[n] /\ (n # 0 => g[n - 1] = f[n - 1])
      BY <2>2, <3>1
    <3> QED
      BY <3>1, <3>2, <1>4 DEF Picks
  <2> QED
    BY <2>1, <2>2
<1> QED
  BY <1>1, <1>6, <1>7

LEMMA PicksUnique ==
    ASSUME NEW q, NEW K \in Nat, NEW f, NEW g, Picks(f, q, K), Picks(g, q, K)
    PROVE  f[K] = g[K]
<1> DEFINE T == {k \in 0 .. K : f[k] # g[k]}
<1> SUFFICES ASSUME T # {} PROVE FALSE
  OBVIOUS
<1>1. PICK k \in T : \A n \in T : k <= n
  <2>1. T \in SUBSET Nat
    OBVIOUS
  <2> HIDE DEF T
  <2> QED
    BY <2>1, Least
<1>2. k \in 0 .. K /\ f[k] # g[k]
  OBVIOUS
<1>3. k # 0
  BY <1>2 DEF Picks
<1>4. k - 1 \in 0 .. K /\ f[k - 1] = g[k - 1]
  BY <1>1, <1>2, <1>3
<1> QED
  BY <1>2, <1>3, <1>4 DEF Picks

\* Visible is where any such function ends.
LEMMA VisibleIs ==
    ASSUME NEW q \in Seq(Sample), NEW f, f = [n \in 0 .. Len(q) |-> f[n]], Picks(f, q, Len(q))
    PROVE  Visible(q) = f[Len(q)]
<1> DEFINE Def(h) == h = [n \in 0 .. Len(q) |->
                            IF n = 0 THEN <<>>
                            ELSE IF q[n] = EndMark \/ q[n].blank THEN h[n - 1]
                            ELSE Append(h[n - 1], q[n])]
           first == CHOOSE h : Def(h)
<1>1. Visible(q) = first[Len(q)]
  BY DEF Visible
<1>2. Def(f)
  <2>1. ASSUME NEW n \in 0 .. Len(q)
        PROVE  f[n] = IF n = 0 THEN <<>>
                      ELSE IF q[n] = EndMark \/ q[n].blank THEN f[n - 1]
                      ELSE Append(f[n - 1], q[n])
    BY DEF Picks, Pick
  <2> QED
    BY <2>1
<1>3. Def(first)
  <2> HIDE DEF Def
  <2> QED
    BY <1>2
<1> HIDE DEF first
<1>4. Picks(first, q, Len(q))
  BY <1>3 DEF Picks, Pick
<1> QED
  BY <1>1, <1>4, PicksUnique

LEMMA VisibleType ==
    ASSUME NEW q \in Seq(Sample)
    PROVE  Visible(q) \in Seq(Entry)
<1>1. PICK f \in [0 .. Len(q) -> Seq(Entry)] : Picks(f, q, Len(q))
  BY PicksExist
<1>2. Visible(q) = f[Len(q)]
  BY <1>1, VisibleIs
<1> QED
  BY <1>1, <1>2

LEMMA VisibleEmpty == Visible(<<>>) = <<>>
<1> DEFINE f == [n \in 0 .. 0 |-> <<>>]
<1>1. <<>> \in Seq(Sample) /\ Len(<<>>) = 0
  OBVIOUS
<1>2. Picks(f, <<>>, 0) /\ f[0] = <<>> /\ f = [n \in 0 .. 0 |-> f[n]]
  BY DEF Picks
<1> HIDE DEF f
<1> QED
  BY <1>1, <1>2, VisibleIs

LEMMA VisibleAppend ==
    ASSUME NEW q \in Seq(Sample), NEW s \in Sample
    PROVE  Visible(Append(q, s)) = Pick(Visible(q), s)
<1>1. PICK f \in [0 .. Len(q) -> Seq(Entry)] : Picks(f, q, Len(q))
  BY PicksExist
<1>2. Visible(q) = f[Len(q)]
  BY <1>1, VisibleIs
<1> DEFINE u == Append(q, s)
           K == Len(q)
           e == Pick(f[K], s)
           g == [n \in 0 .. K + 1 |-> IF n = K + 1 THEN e ELSE f[n]]
<1>3. /\ K \in Nat /\ u \in Seq(Sample) /\ Len(u) = K + 1 /\ u[K + 1] = s
      /\ \A n \in 1 .. K : u[n] = q[n]
  OBVIOUS
<1>4. DOMAIN f = 0 .. K
      /\ \A n \in 0 .. K : f[n] = IF n = 0 THEN <<>> ELSE Pick(f[n - 1], q[n])
  BY <1>1 DEF Picks
<1> HIDE DEF u, K
<1>5. Picks(g, u, K + 1)
  <2> SUFFICES ASSUME NEW n \in 0 .. K + 1
               PROVE  g[n] = IF n = 0 THEN <<>> ELSE Pick(g[n - 1], u[n])
    BY DEF Picks
  <2>1. CASE n = K + 1
    <3>1. n # 0 /\ n - 1 = K /\ K \in 0 .. K + 1 /\ K # K + 1
      BY <2>1, <1>3
    <3>2. g[n] = e /\ g[n - 1] = f[K] /\ u[n] = s
      BY <2>1, <3>1, <1>3
    <3> QED
      BY <3>1, <3>2
  <2>2. CASE n # K + 1
    <3>1. n \in 0 .. K /\ (n # 0 => n - 1 \in 0 .. K + 1 /\ n - 1 # K + 1 /\ n \in 1 .. K)
      BY <2>2, <1>3
    <3>2. g[n] = f[n] /\ (n # 0 => g[n - 1] = f[n - 1] /\ u[n] = q[n])
      BY <2>2, <3>1, <1>3
    <3> QED
      BY <3>1, <3>2, <1>4
  <2> QED
    BY <2>1, <2>2
<1>6. g = [n \in 0 .. K + 1 |-> g[n]] /\ g[K + 1] = e
  BY <1>3
<1>7. Visible(u) = e
  <2> HIDE DEF g
  <2> QED
    BY <1>3, <1>5, <1>6, VisibleIs
<1> QED
  BY <1>2, <1>7 DEF u, K

LEMMA ConcatAppend ==
    ASSUME NEW S, NEW d \in Seq(S), NEW e \in Seq(S), NEW s \in S
    PROVE  d \o Append(e, s) = Append(d \o e, s)
  OBVIOUS

LEMMA VisibleTail ==
    ASSUME NEW q \in Seq(Sample), q # <<>>
    PROVE  Visible(q) = Pick(<<>>, Head(q)) \o Visible(Tail(q))
<1> DEFINE t == Tail(q)
           K == Len(t)
           d == Pick(<<>>, Head(q))
<1>1. /\ t \in Seq(Sample) /\ K \in Nat /\ Len(q) = K + 1 /\ Head(q) = q[1] /\ q[1] \in Sample
      /\ \A n \in 1 .. K : t[n] = q[n + 1] /\ t[n] \in Sample
  OBVIOUS
<1>2. PICK f \in [0 .. K -> Seq(Entry)] : Picks(f, t, K)
  BY <1>1, PicksExist
<1>3. Visible(t) = f[K]
  <2> HIDE DEF t
  <2> QED
    BY <1>1, <1>2, VisibleIs
<1>4. \A n \in 0 .. K : f[n] = IF n = 0 THEN <<>> ELSE Pick(f[n - 1], t[n])
  BY <1>2 DEF Picks
<1>5. d \in Seq(Entry)
  <2>1. <<>> \in Seq(Entry)
    OBVIOUS
  <2> QED
    BY <2>1, <1>1, PickType
<1> HIDE DEF t, K
<1> DEFINE g == [n \in 0 .. K + 1 |-> IF n = 0 THEN <<>> ELSE d \o f[n - 1]]
<1>6. Picks(g, q, K + 1)
  <2> SUFFICES \A n \in 1 .. K + 1 : g[n] = Pick(g[n - 1], q[n])
    <3>1. 0 \in 0 .. K + 1 /\ \A n \in 0 .. K + 1 : n # 0 => n \in 1 .. K + 1
      BY <1>1
    <3>2. g[0] = <<>> /\ DOMAIN g = 0 .. K + 1
      BY <3>1
    <3> HIDE DEF g
    <3> QED
      BY <3>1, <3>2 DEF Picks
  <2> TAKE n \in 1 .. K + 1
  <2>1. CASE n = 1
    <3>1. 0 \in 0 .. K + 1 /\ 1 \in 0 .. K + 1 /\ 0 \in 0 .. K
      BY <1>1
    <3>2. g[0] = <<>> /\ g[1] = d \o f[0] /\ f[0] = <<>>
      BY <3>1, <1>4
    <3>3. d \o <<>> = d
      BY <1>5
    <3> QED
      BY <2>1, <3>2, <3>3, <1>1
  <2>2. CASE n # 1
    <3>1. n - 1 \in 1 .. K /\ n - 2 \in 0 .. K /\ n - 1 \in 0 .. K + 1 /\ n \in 0 .. K + 1
          /\ n # 0 /\ n - 1 # 0 /\ (n - 1) - 1 = n - 2 /\ (n - 1) + 1 = n
      BY <2>2, <1>1
    <3>2. g[n] = d \o f[n - 1] /\ g[n - 1] = d \o f[n - 2]
      BY <3>1
    <3>3. f[n - 1] = Pick(f[n - 2], t[n - 1]) /\ t[n - 1] = q[n] /\ q[n] \in Sample
          /\ f[n - 2] \in Seq(Entry)
      <4>1. n - 1 \in 0 .. K
        BY <3>1, <1>1
      <4> QED
        BY <4>1, <3>1, <1>1, <1>2, <1>4
    <3> HIDE DEF g, d
    <3>4. CASE q[n] = EndMark \/ q[n].blank
      BY <3>2, <3>3, <3>4 DEF Pick
    <3>5. CASE ~(q[n] = EndMark \/ q[n].blank)
      <4>1. q[n] \in Entry
        BY <3>3, <3>5, SampleType DEF Sample
      <4>2. f[n - 1] = Append(f[n - 2], q[n])
        BY <3>3, <3>5 DEF Pick
      <4>3. d \o Append(f[n - 2], q[n]) = Append(d \o f[n - 2], q[n])
        BY SMTT(30), <4>1, <3>3, <1>5, ConcatAppend
      <4> QED
        BY <4>2, <4>3, <3>2, <3>5 DEF Pick
    <3> QED
      BY <3>4, <3>5
  <2> QED
    BY <2>1, <2>2
<1>7. g = [n \in 0 .. K + 1 |-> g[n]] /\ g[K + 1] = d \o f[K]
  <2>1. K + 1 \in 0 .. K + 1 /\ K + 1 # 0 /\ (K + 1) - 1 = K
    BY <1>1
  <2> QED
    BY <2>1
<1>8. Visible(q) = d \o f[K]
  <2> HIDE DEF g, d
  <2> QED
    BY <1>1, <1>6, <1>7, VisibleIs
<1> QED
  BY <1>3, <1>8 DEF t

\* The queue is empty from the moment it is cleared until the pin is idle
\* again, and while there is no stream.
Flushed ==
    /\ subStream = 0 \/ spc \in {"removeAll", "detach", "attach"}
         => sampleQueue = <<>> /\ received = <<>>
    /\ spc \in {"clearNew", "attach"} => subStream = 0

CInv == IInv /\ Flushed /\ Conserved

LEMMA DecodeConserves ==
    ASSUME CInv, DDecode
    PROVE  Flushed' /\ Conserved'
<1> DEFINE sample == Head(sampleQueue)
<1>1. /\ sampleQueue # <<>> /\ sampleQueue' = Tail(sampleQueue)
      /\ UNCHANGED <<spc, received, subStream>>
  BY DEF DDecode, OnlyD, svars
<1>2. /\ sampleQueue \in Seq(Sample) /\ sampleQueue' \in Seq(Sample) /\ sample \in Sample
      /\ received \in Seq(Sample)
  BY <1>1 DEF CInv, IInv, TypeOK, Sample
<1>3. subStream # 0 /\ spc \notin {"removeAll", "detach", "attach"}
  BY <1>1 DEF CInv, Flushed
<1>4. Flushed'
  BY <1>1, <1>3 DEF CInv, Flushed
<1>5. entries[subStream] \in Seq(Entry) /\ subStream \in Streams /\ entries \in [Streams -> Seq(Entry)]
  BY <1>3, StreamType DEF CInv, IInv, TypeOK, Entry
<1>6. entries[subStream] \o Visible(sampleQueue) = Visible(received)
  BY <1>3 DEF CInv, Conserved
<1>7. /\ Visible(sampleQueue) = Pick(<<>>, sample) \o Visible(sampleQueue')
      /\ Visible(sampleQueue') \in Seq(Entry)
  BY <1>1, <1>2, VisibleTail, VisibleType
<1>8. entries'[subStream] = Pick(entries[subStream], sample)
  <2>1. CASE sample = EndMark \/ sample.blank
    BY <2>1 DEF DDecode, Pick
  <2>2. CASE ~(sample = EndMark \/ sample.blank)
    <3>1. entries' = [entries EXCEPT ![subStream] = Append(entries[subStream], sample)]
      BY <2>2 DEF DDecode
    <3> QED
      BY <3>1, <2>2, <1>5 DEF Pick
  <2> QED
    BY <2>1, <2>2
<1>9. entries'[subStream] \o Visible(sampleQueue') = Visible(received)
  <2> DEFINE e == entries[subStream]
             v == Visible(sampleQueue')
  <2>t. e \in Seq(Entry) /\ v \in Seq(Entry)
    BY <1>5, <1>7
  <2> HIDE DEF e, v, sample
  <2>1. CASE sample = EndMark \/ sample.blank
    <3>1. Pick(<<>>, sample) = <<>> /\ Pick(e, sample) = e
      BY <2>1 DEF Pick
    <3>2. <<>> \o v = v
      BY <2>t
    <3> QED
      BY <3>1, <3>2, <1>6, <1>7, <1>8 DEF e, v
  <2>2. CASE ~(sample = EndMark \/ sample.blank)
    <3>1. Pick(<<>>, sample) = <<sample>> /\ Pick(e, sample) = Append(e, sample)
      BY <2>2 DEF Pick
    <3>2. sample \in Entry
      BY <2>2, <1>2, SampleType DEF Sample
    <3>3. e \o (<<sample>> \o v) = Append(e, sample) \o v
      BY <2>t, <3>2
    <3> QED
      BY <3>1, <3>3, <1>6, <1>7, <1>8 DEF e, v
  <2> QED
    BY <2>1, <2>2
<1> QED
  BY <1>1, <1>4, <1>9 DEF Conserved

LEMMA EnqueueConserves ==
    ASSUME CInv, NEW s \in Sample, Enqueue(s)
    PROVE  Flushed' /\ Conserved'
<1>1. /\ spc = "idle" /\ subStream # 0 /\ sampleQueue' = Append(sampleQueue, s)
      /\ received' = Append(received, s) /\ UNCHANGED <<subStream, entries, spc>>
  BY DEF Enqueue, Running, stream
<1>2. sampleQueue \in Seq(Sample) /\ received \in Seq(Sample)
  BY DEF CInv, IInv, TypeOK, Sample
<1>3. entries[subStream] \in Seq(Entry)
  BY <1>1, StreamType DEF CInv, IInv
<1>4. entries[subStream] \o Visible(sampleQueue) = Visible(received)
  BY <1>1 DEF CInv, Conserved
<1>5. entries[subStream] \o Pick(Visible(sampleQueue), s) = Pick(Visible(received), s)
  <2>1. CASE s = EndMark \/ s.blank
    BY <2>1, <1>4 DEF Pick
  <2>2. CASE ~(s = EndMark \/ s.blank)
    <3>1. s \in Entry
      BY <2>2, SampleType DEF Sample
    <3>2. Visible(sampleQueue) \in Seq(Entry)
      BY <1>2, VisibleType
    <3>3. entries[subStream] \o Append(Visible(sampleQueue), s)
          = Append(entries[subStream] \o Visible(sampleQueue), s)
      <4> DEFINE d == entries[subStream]
                 e == Visible(sampleQueue)
      <4>1. d \in Seq(Entry) /\ e \in Seq(Entry)
        BY <3>2, <1>3
      <4> HIDE DEF d, e
      <4>2. d \o Append(e, s) = Append(d \o e, s)
        BY <3>1, <4>1
      <4> QED
        BY <4>2 DEF d, e
    <3> QED
      BY <2>2, <3>3, <1>4 DEF Pick
  <2> QED
    BY <2>1, <2>2
<1>6. entries[subStream] \o Visible(sampleQueue') = Visible(received')
  BY <1>1, <1>2, <1>5, VisibleAppend
<1> QED
  BY <1>1, <1>6 DEF Flushed, Conserved

\* The stream that is emptied, or made, has none of what was received: the
\* queue has been cleared, and nothing came in since.
LEMMA StreamConserves ==
    ASSUME CInv, SRemoveAll \/ SAttach
    PROVE  Flushed' /\ Conserved'
<1>1. /\ spc \in {"removeAll", "attach"} /\ spc' \in {"tell", "idle"}
      /\ UNCHANGED <<sampleQueue, received>>
  BY DEF SRemoveAll, SAttach
<1>2. sampleQueue' = <<>> /\ received' = <<>>
  BY <1>1 DEF CInv, Flushed
<1>3. subStream' # 0 => entries'[subStream'] = <<>>
  <2>1. CASE SRemoveAll
    <3>1. subStream' = subStream /\ entries' = [entries EXCEPT ![subStream] = <<>>]
      BY <2>1 DEF SRemoveAll
    <3>2. subStream # 0 => subStream \in Streams
      BY DEF CInv, IInv, TypeOK
    <3>3. entries \in [Streams -> Seq(Entry)]
      BY DEF CInv, IInv, TypeOK, Entry
    <3> QED
      BY <3>1, <3>2, <3>3
  <2>2. CASE SAttach
    <3>1. PICK r \in Streams : shown[r] < 0 /\ subStream' = r /\ entries' = entries
      BY <2>2 DEF SAttach
    <3> QED
      BY <3>1 DEF CInv, IInv, Unused
  <2> QED
    BY <2>1, <2>2 DEF SAttach
<1>4. <<>> \o <<>> = <<>>
  OBVIOUS
<1> QED
  BY <1>1, <1>2, <1>3, <1>4, VisibleEmpty DEF Flushed, Conserved

LEMMA NextConserves ==
    ASSUME CInv, [Next]_vars
    PROVE  Flushed' /\ Conserved'
<1> USE DEF CInv
<1>u. ASSUME UNCHANGED <<sampleQueue, received, subStream, entries, spc>>
      PROVE  Flushed' /\ Conserved'
  BY <1>u DEF Flushed, Conserved
<1>1. CASE DNext
  <2>1. CASE DDecode
    BY <2>1, DecodeConserves
  <2>2. CASE ~DDecode
    <3>1. UNCHANGED <<sampleQueue, received, subStream, entries, spc>>
      BY <1>1, <2>2 DEF DNext, DLoop, DTest, DSleep, DReady, DLockSub, DRelock, DDecoded, DTell,
                        OnlyD, stream, svars
    <3> QED
      BY <3>1, <1>u
  <2> QED
    BY <2>1, <2>2
<1>2. CASE SNext
  <2>1. CASE (\E s \in Samples : Receive(s)) \/ EndOfStream
    BY <2>1, EnqueueConserves DEF Receive, EndOfStream, Sample
  <2>2. CASE (\E t \in Times : SNewSegment(t)) \/ SDisconnect \/ SConnect
    <3>1. /\ spc = "idle" /\ UNCHANGED <<sampleQueue, received, subStream, entries>>
          /\ \/ spc' \in {"clearSegment", "clearOld"}
             \/ spc' = "clearNew" /\ subStream = 0
      BY <2>2 DEF SNewSegment, SDisconnect, SConnect, StopDecoding, Running, stream
    <3> QED
      BY <3>1 DEF Flushed, Conserved
  <2>3. CASE SClearSegment \/ SClearOld \/ SClearNew
    <3>1. /\ sampleQueue' = <<>> /\ received' = <<>> /\ subStream' = subStream
          /\ \/ spc' \in {"removeAll", "detach"}
             \/ spc = "clearNew" /\ spc' = "attach"
      BY <2>3 DEF SClearSegment, SClearOld, SClearNew, ClearSamples, stream
    <3> QED
      BY <3>1 DEF Flushed, Conserved
  <2>4. CASE SRemoveAll \/ SAttach
    BY <2>4, StreamConserves
  <2>5. CASE STell
    <3>1. /\ spc = "tell" /\ spc' = "idle"
          /\ UNCHANGED <<sampleQueue, received, subStream, entries>>
      BY <2>5 DEF STell
    <3> QED
      BY <3>1 DEF Flushed, Conserved
  <2>6. CASE SDetach
    <3>1. /\ spc = "detach" /\ spc' = "idle" /\ subStream' = 0
          /\ UNCHANGED <<sampleQueue, received>>
      BY <2>6 DEF SDetach
    <3> QED
      BY <3>1 DEF Flushed, Conserved
  <2>7. CASE SDestroy \/ SNotify \/ SJoin
    <3>1. /\ spc \in {"idle", "notify", "join"} /\ spc' \in {"notify", "join", "destroyed"}
          /\ UNCHANGED <<sampleQueue, received, subStream, entries>>
      BY <2>7 DEF SDestroy, SNotify, SJoin, stream
    <3> QED
      BY <3>1 DEF Flushed, Conserved
  <2> QED
    BY <1>2, <2>1, <2>2, <2>3, <2>4, <2>5, <2>6, <2>7 DEF SNext, SContinue
<1>3. CASE VLock \/ VUnlock \/ UNCHANGED vars
  BY <1>3, <1>u DEF VLock, VUnlock, OnlyV, stream, svars, vars
<1> QED
  BY <1>1, <1>2, <1>3 DEF Next

\* The subtitle stream holds, in order and once each, the samples with
\* something to show that Receive has taken since the last flush and that are
\* not queued any more, for any number of samples, segments and connections:
\* none is lost or decoded twice when DecodeSamples is stopped in the middle of
\* the queue, and none that came before NewSegment or a reconnection gets in.
THEOREM NothingLost == Spec => []Conserved
<1>1. Init => CInv
  <2> SUFFICES ASSUME Init PROVE CInv
    OBVIOUS
  <2> QED
    BY InitHolds DEF Init, CInv, Flushed, Conserved
<1>2. ASSUME CInv, [Next]_vars PROVE CInv'
  BY <1>2, NextKeeps, NextConserves DEF CInv
<1>3. CInv => Conserved
  BY DEF CInv
<1> QED
  BY <1>1, <1>2, <1>3, PTL DEF Spec

=============================================================================
