-------------------------- MODULE SplitterProofs ---------------------------
(***************************************************************************)
(* Proofs about Splitter, for every number of pins and every size of the   *)
(* queues.                                                                 *)
(***************************************************************************)
EXTENDS Splitter, SequenceTheorems, TLAPS

\* Only S adds to the queues: what it has found below the limit stays below it
\* until it adds its packet, whatever the other threads do.
Room == split.pc = "add" => Len(queue[split.pin]) <= 2 * MaxPackets

IInv == TypeOK /\ QueueBounded /\ Room

-----------------------------------------------------------------------------
\* What a queue holds after a step of W.
LEMMA Shorter ==
    ASSUME NEW s \in Seq(PacketType), s # <<>>
    PROVE  /\ Head(s) \in PacketType /\ Tail(s) \in Seq(PacketType)
           /\ Len(s) \in Nat \ {0} /\ Len(Tail(s)) = Len(s) - 1
  OBVIOUS

LEMMA NoPacketType == NoPacket \in PacketType
  BY SizeAssumption DEF NoPacket, Packet, PacketType, EndOfStream

\* A step that keeps every queue or shortens some keeps the limits.
LEMMA Drained ==
    ASSUME IInv, QueueType', UNCHANGED split,
           \A p \in Pins : Len(queue'[p]) <= Len(queue[p])
    PROVE  QueueBounded' /\ Room'
<1>1. \A p \in Pins : Len(queue'[p]) \in Nat /\ Len(queue[p]) \in Nat
  BY DEF IInv, TypeOK, QueueType
<1>2. QueueBounded'
  BY <1>1, SizeAssumption DEF IInv, QueueBounded
<1>3. Room'
  <2> SUFFICES ASSUME split.pc = "add" PROVE Len(queue'[split.pin]) <= 2 * MaxPackets
    BY DEF Room
  <2>1. split.pin \in Pins
    BY DEF IInv, TypeOK, SplitType
  <2> QED
    BY <2>1, <1>1, SizeAssumption DEF IInv, Room
<1> QED
  BY <1>2, <1>3

-----------------------------------------------------------------------------
LEMMA WorkerStep ==
    ASSUME IInv, NEW p \in Pins, WNext(p)
    PROVE  IInv'
<1> USE DEF IInv, TypeOK, WStates
<1>a. UNCHANGED <<split, active, request, answered, fFlushing, fEndFlush, app, starts, seeks,
                  stops, early, overtaken>>
  BY DEF WNext, WGoOn, WInit, WClear, WFlush, WExit, WTake, WEmpty, WAssert, WAccepted, WRefused,
         WWait, WReport, WFail, OnlyW, svars, fvars, avars
<1>b. SplitType' /\ AppType'
  BY <1>a DEF SplitType, AppType
<1>w. worker[p] \in [pc : WStates, pkt : PacketType, cnt : Nat, ok : BOOLEAN]
  BY DEF WorkerType
<1>l. /\ Looped(worker[p]) \in [pc : WStates, pkt : PacketType, cnt : Nat, ok : BOOLEAN]
      /\ [Looped(worker[p]) EXCEPT !.pc = "top"]
           \in [pc : WStates, pkt : PacketType, cnt : Nat, ok : BOOLEAN]
  BY <1>w, NoPacketType DEF Looped
<1>q. (UNCHANGED queue) => QueueType' /\ QueueBounded' /\ Room'
  <2> SUFFICES ASSUME UNCHANGED queue PROVE QueueType' /\ QueueBounded' /\ Room'
    OBVIOUS
  <2>1. QueueType'
    BY DEF QueueType
  <2>2. \A r \in Pins : Len(queue'[r]) <= Len(queue[r])
    BY DEF QueueType
  <2> QED
    BY <2>1, <2>2, <1>a, Drained
<1>1. CASE WInit(p)
  <2>1. FlagType' /\ WorkerType' /\ DownType'
    BY <1>1, <1>a DEF WInit, WGo, FlagType, WorkerType, DownType
  <2> QED
    BY <2>1, <1>1, <1>b, <1>q DEF WInit
<1>2. CASE WClear(p)
  <2>1. FlagType' /\ WorkerType' /\ DownType'
    BY <1>2, <1>a DEF WClear, WGo, FlagType, WorkerType, DownType
  <2> QED
    BY <2>1, <1>2, <1>b, <1>q DEF WClear
<1>3. CASE WFlush(p)
  <2>1. FlagType' /\ WorkerType' /\ DownType'
    BY <1>3, <1>a DEF WFlush, WGo, FlagType, WorkerType, DownType, pinFlags
  <2> QED
    BY <2>1, <1>3, <1>b, <1>q DEF WFlush
<1>4. CASE WExit(p)
  <2>1. FlagType' /\ WorkerType' /\ DownType'
    BY <1>4, <1>a DEF WExit, WGo, FlagType, WorkerType, DownType, pinFlags
  <2> QED
    BY <2>1, <1>4, <1>b, <1>q DEF WExit
<1>5. CASE WTake(p)
  <2> DEFINE taken == [worker[p] EXCEPT !.pc = "assert", !.pkt = Head(queue[p]), !.cnt = Len(queue[p])]
  <2>1. /\ Head(queue[p]) \in PacketType /\ Tail(queue[p]) \in Seq(PacketType)
        /\ Len(queue[p]) \in Nat \ {0} /\ Len(Tail(queue[p])) = Len(queue[p]) - 1
    BY <1>5, Shorter DEF WTake, QueueType
  <2>2. taken \in [pc : WStates, pkt : PacketType, cnt : Nat, ok : BOOLEAN]
    BY <2>1, <1>w
  <2>3. Looped(taken) \in [pc : WStates, pkt : PacketType, cnt : Nat, ok : BOOLEAN]
    BY <2>2, NoPacketType DEF Looped
  <2>4. WorkerType'
    BY <1>5, <2>2, <2>3 DEF WTake, WorkerType
  <2>5. QueueType' /\ \A r \in Pins : Len(queue'[r]) <= Len(queue[r])
    BY <1>5, <2>1 DEF WTake, QueueType
  <2>6. QueueBounded' /\ Room'
    BY <2>5, <1>a, Drained
  <2>7. FlagType' /\ DownType'
    BY <1>5, <1>a DEF WTake, FlagType, DownType, pinFlags
  <2> QED
    BY <2>4, <2>5, <2>6, <2>7, <1>b
<1>6. CASE WEmpty(p)
  <2>1. FlagType' /\ WorkerType' /\ DownType'
    BY <1>6, <1>a DEF WEmpty, WGo, FlagType, WorkerType, DownType, pinFlags
  <2> QED
    BY <2>1, <1>6, <1>b, <1>q DEF WEmpty
<1>7. CASE WAssert(p)
  <2>1. FlagType' /\ WorkerType' /\ DownType'
    BY <1>7, <1>a DEF WAssert, WGo, FlagType, WorkerType, DownType
  <2> QED
    BY <2>1, <1>7, <1>b, <1>q DEF WAssert
<1>8. CASE WAccepted(p)
  <2>1. FlagType' /\ WorkerType' /\ DownType'
    BY <1>8, <1>a DEF WAccepted, WGo, FlagType, WorkerType, DownType, pinFlags
  <2> QED
    BY <2>1, <1>8, <1>b, <1>q DEF WAccepted
<1>9. CASE WRefused(p)
  <2>1. FlagType' /\ WorkerType' /\ DownType'
    BY <1>9, <1>a DEF WRefused, FlagType, WorkerType, DownType, pinFlags
  <2> QED
    BY <2>1, <1>9, <1>b, <1>q DEF WRefused
<1>10. CASE WWait(p)
  <2>1. ASSUME worker[p].ok PROVE FlagType' /\ WorkerType' /\ DownType'
    <3>1. worker' = [worker EXCEPT ![p] = Looped(worker[p])]
      BY <1>10, <2>1, <1>w DEF WWait, Waited, WorkerType
    <3> QED
      BY <3>1, <1>10, <1>a, <1>l DEF WWait, FlagType, WorkerType, DownType, pinFlags
  <2>2. ASSUME ~worker[p].ok PROVE FlagType' /\ WorkerType' /\ DownType'
    <3>1. worker' = [worker EXCEPT ![p] = [worker[p] EXCEPT !.pc = "report"]]
      BY <1>10, <2>2 DEF WWait, Waited, WGo, WorkerType
    <3> QED
      BY <3>1, <1>10, <1>a, <1>w DEF WWait, FlagType, WorkerType, DownType, pinFlags
  <2>3. FlagType' /\ WorkerType' /\ DownType'
    BY <2>1, <2>2
  <2> QED
    BY <2>3, <1>10, <1>b, <1>q DEF WWait
<1>11. CASE WReport(p)
  <2>1. ASSUME flushed[p] PROVE FlagType' /\ WorkerType' /\ DownType'
    <3>1. worker' = [worker EXCEPT ![p] = Looped(worker[p])]
      BY <1>11, <2>1, <1>w DEF WReport, WorkerType
    <3> QED
      BY <3>1, <1>11, <1>a, <1>l DEF WReport, FlagType, WorkerType, DownType, pinFlags
  <2>2. ASSUME ~flushed[p] PROVE FlagType' /\ WorkerType' /\ DownType'
    <3>1. worker' = [worker EXCEPT ![p] = [worker[p] EXCEPT !.pc = "fail"]]
      BY <1>11, <2>2 DEF WReport, WGo, WorkerType
    <3> QED
      BY <3>1, <1>11, <1>a, <1>w DEF WReport, FlagType, WorkerType, DownType, pinFlags
  <2>3. FlagType' /\ WorkerType' /\ DownType'
    BY <2>1, <2>2
  <2> QED
    BY <2>3, <1>11, <1>b, <1>q DEF WReport
<1>12. CASE WFail(p)
  <2>1. FlagType' /\ WorkerType' /\ DownType'
    BY <1>12, <1>a, <1>l DEF WFail, FlagType, WorkerType, DownType
  <2> QED
    BY <2>1, <1>12, <1>b, <1>q DEF WFail
<1> QED
  BY <1>1, <1>2, <1>3, <1>4, <1>5, <1>6, <1>7, <1>8, <1>9, <1>10, <1>11, <1>12 DEF WNext, WGoOn

-----------------------------------------------------------------------------
LEMMA DemuxerStep ==
    ASSUME IInv, SNext
    PROVE  IInv'
<1> USE DEF IInv, TypeOK
<1>a. UNCHANGED <<pinFlags, worker, exitReq, app, starts, seeks, stops, early, overtaken>>
  BY DEF SNext, SInit, SBroken, SSeek, SFlushWait, SSegment, SSegmentDone, SDemux, SDemuxDone, SEnd,
         SQueue, SAdd, SRequest, OnlyS, wvars, avars
<1>b. WorkerType' /\ AppType'
  BY <1>a DEF WorkerType, AppType
<1>q. (UNCHANGED queue /\ split'.pc # "add") => QueueType' /\ QueueBounded' /\ Room'
  BY DEF QueueType, QueueBounded, Room
<1>1. CASE SInit
  <2>1. FlagType' /\ DownType' /\ SplitType'
    BY <1>1, <1>a DEF SInit, SGo, fvars, FlagType, DownType, SplitType, SStates, pinFlags
  <2>2. UNCHANGED queue /\ split'.pc # "add"
    BY <1>1 DEF SInit, SGo, SplitType
  <2> QED
    BY <2>1, <2>2, <1>b, <1>q
<1>2. CASE SBroken
  <2>1. FlagType' /\ DownType' /\ SplitType'
    BY <1>2, <1>a DEF SBroken, SGo, Reply, fvars, FlagType, DownType, SplitType, SStates, pinFlags
  <2>2. UNCHANGED queue /\ split'.pc # "add"
    BY <1>2 DEF SBroken, SGo, SplitType
  <2> QED
    BY <2>1, <2>2, <1>b, <1>q
<1>3. CASE SSeek
  <2>1. [p \in Pins |-> 0] \in [Pins -> 0 .. FileLength] /\ split.pass + 1 \in Nat
    BY SizeAssumption DEF SplitType
  <2>3. split' = [split EXCEPT !.pc = "flushWait", !.pass = split.pass + 1, !.cmd = FALSE,
                               !.pos = [p \in Pins |-> 0]]
    BY <1>3 DEF SSeek
  <2>4. active' = active /\ request' \in {"none", "seek", "exit"} /\ answered' \in BOOLEAN
    BY <1>3 DEF SSeek, Reply, SplitType
  <2>5. SplitType'
    BY <2>1, <2>3, <2>4 DEF SplitType, SStates
  <2>6. FlagType' /\ DownType'
    BY <1>3, <1>a DEF SSeek, FlagType, DownType, pinFlags, fvars
  <2>2. UNCHANGED queue /\ split'.pc # "add"
    BY <1>3 DEF SSeek, SplitType
  <2> QED
    BY <2>5, <2>6, <2>2, <1>b, <1>q
<1>4. CASE SFlushWait
  <2>1. FlagType' /\ DownType' /\ SplitType'
    BY <1>4, <1>a DEF SFlushWait, FlagType, DownType, SplitType, SStates, pinFlags
  <2>2. UNCHANGED queue /\ split'.pc # "add"
    BY <1>4 DEF SFlushWait, SplitType
  <2> QED
    BY <2>1, <2>2, <1>b, <1>q
<1>5. CASE SSegment
  <2>3. DownType'
    <3>1. PICK p \in Pins : down' = IF flushing[p] \/ ~ThreadExists(p) THEN down
                                    ELSE [down EXCEPT ![p].seg = split.pass]
      BY <1>5, <1>a DEF SSegment, First, SplitType
    <3>2. split.pass \in Nat
      BY <1>a DEF SplitType
    <3> QED
      BY <3>1, <3>2, <1>a DEF DownType
  <2>4. FlagType' /\ SplitType'
    BY <1>5, <1>a, SizeAssumption DEF SSegment, First, fvars, FlagType, SplitType, SStates, pinFlags
  <2>1. FlagType' /\ DownType' /\ SplitType'
    BY <2>3, <2>4
  <2>2. UNCHANGED queue /\ split'.pc # "add"
    BY <1>5 DEF SSegment, First, SplitType
  <2> QED
    BY <2>1, <2>2, <1>b, <1>q
<1>6. CASE SSegmentDone
  <2>1. FlagType' /\ DownType' /\ SplitType'
    BY <1>6, <1>a DEF SSegmentDone, SGo, fvars, FlagType, DownType, SplitType, SStates, pinFlags
  <2>2. UNCHANGED queue /\ split'.pc # "add"
    BY <1>6 DEF SSegmentDone, SGo, SplitType
  <2> QED
    BY <2>1, <2>2, <1>b, <1>q
<1>7. CASE SDemuxDone
  <2>1. FlagType' /\ DownType' /\ SplitType'
    BY <1>7, <1>a DEF SDemuxDone, fvars, FlagType, DownType, SplitType, SStates, pinFlags
  <2>2. UNCHANGED queue /\ split'.pc # "add"
    BY <1>7 DEF SDemuxDone, SplitType
  <2> QED
    BY <2>1, <2>2, <1>b, <1>q
<1>8. CASE SEnd
  <2>1. FlagType' /\ DownType'
    BY <1>8, <1>a DEF SEnd, FlagType, DownType, pinFlags, fvars
  <2>3. ASSUME NEW p \in First(split.todo),
               split' = [split EXCEPT !.pc = "queue", !.pin = p, !.todo = @ \ {p}, !.eos = TRUE],
               UNCHANGED <<active, request, answered>>
        PROVE  SplitType'
    <3>1. p \in Pins /\ p # 0
      BY <2>3 DEF First, SplitType, Pins
    <3> QED
      BY <2>3, <3>1 DEF SplitType, SStates
  <2>4. ASSUME split' = [split EXCEPT !.pc = "idle", !.todo = {}],
               UNCHANGED <<active, request, answered>>
        PROVE  SplitType'
    BY <2>4 DEF SplitType, SStates
  <2>5. SplitType'
    BY <1>8, <2>3, <2>4 DEF SEnd
  <2>2. UNCHANGED queue /\ split'.pc # "add"
    BY <1>8 DEF SEnd, First, SplitType
  <2> QED
    BY <2>1, <2>5, <2>2, <1>b, <1>q
<1>9. CASE SRequest
  <2>1. FlagType' /\ DownType' /\ SplitType'
    BY <1>9, <1>a DEF SRequest, SGo, Reply, fvars, FlagType, DownType, SplitType, SStates, pinFlags
  <2>2. UNCHANGED queue /\ split'.pc # "add"
    BY <1>9 DEF SRequest, SGo, SplitType
  <2> QED
    BY <2>1, <2>2, <1>b, <1>q
<1>10. ASSUME NEW p \in Pins, SDemux(p) PROVE IInv'
  <2>1. split.pos[p] + 1 \in 0 .. FileLength
    BY <1>10, SizeAssumption DEF SDemux, SplitType
  <2>2. p # 0
    BY DEF Pins
  <2>3. FlagType' /\ DownType' /\ SplitType'
    BY <1>10, <1>a, <2>1, <2>2 DEF SDemux, FlagType, DownType, SplitType, SStates, pinFlags, fvars
  <2>4. UNCHANGED queue /\ split'.pc # "add"
    BY <1>10 DEF SDemux, SplitType
  <2> QED
    BY <2>3, <2>4, <1>b, <1>q
<1>11. CASE SQueue
  <2>1. split.pin \in Pins
    BY <1>11 DEF SQueue, SplitType
  <2>2. FlagType' /\ DownType' /\ QueueType' /\ QueueBounded'
    BY <1>11, <1>a DEF SQueue, FlagType, DownType, QueueType, QueueBounded, pinFlags, fvars
  <2>3. ASSUME hrOk[split.pin] PROVE SplitType' /\ Room'
    <3>1. ~Full(split.pin) /\ split' = [split EXCEPT !.pc = "add"]
      BY <1>11, <2>3 DEF SQueue, SGo
    <3>2. SplitType'
      BY <1>11, <2>1, <2>3, <3>1 DEF SQueue, SplitType, SStates
    <3>3. Len(queue[split.pin]) \in Nat
      BY <2>1 DEF QueueType
    <3>4. Len(queue[split.pin]) <= 2 * MaxPackets
      BY <3>1, <3>3, SizeAssumption DEF Full
    <3>5. split'.pin = split.pin /\ UNCHANGED queue
      BY <1>11, <3>1 DEF SQueue, SplitType
    <3> QED
      BY <3>2, <3>4, <3>5 DEF Room
  <2>4. ASSUME ~hrOk[split.pin] PROVE SplitType' /\ Room'
    <3>1. Returned(FALSE)
      BY <1>11, <2>4 DEF SQueue
    <3>2. /\ active' \subseteq Pins
          /\ split' = [split EXCEPT !.pc = IF split.eos THEN "end" ELSE "demux", !.pin = 0,
                                    !.eos = FALSE]
      BY <3>1 DEF Returned, SplitType
    <3>3. UNCHANGED <<request, answered>>
      BY <1>11 DEF SQueue
    <3> QED
      BY <3>2, <3>3 DEF SplitType, SStates, Room
  <2> QED
    BY <2>2, <2>3, <2>4, <1>b
<1>12. CASE SAdd
  <2> DEFINE p == split.pin
             n == IF split.eos THEN EndOfStream ELSE split.pos[p]
  <2>1. p \in Pins /\ split.pc = "add"
    BY <1>12 DEF SAdd, SplitType
  <2>2. Packet(split.pass, n) \in PacketType
    BY <2>1, SizeAssumption DEF SplitType, Packet, PacketType, EndOfStream
  <2>3. queue' = [queue EXCEPT ![p] = Append(queue[p], Packet(split.pass, n))]
    BY <1>12 DEF SAdd, QueueType
  <2>4. queue[p] \in Seq(PacketType)
    BY <2>1 DEF QueueType
  <2>5. /\ Append(queue[p], Packet(split.pass, n)) \in Seq(PacketType)
        /\ Len(Append(queue[p], Packet(split.pass, n))) = Len(queue[p]) + 1
    BY <2>2, <2>4
  <2>6. QueueType'
    BY <2>1, <2>3, <2>5 DEF QueueType
  <2>7. Len(queue[p]) \in Nat /\ Len(queue[p]) <= 2 * MaxPackets
    BY <2>1, <2>4 DEF Room
  <2>8. QueueBounded'
    BY <2>1, <2>3, <2>5, <2>7, SizeAssumption DEF QueueBounded, QueueType
  <2>9. FlagType' /\ DownType' /\ SplitType' /\ Room'
    BY <1>12, <1>a DEF SAdd, Returned, FlagType, DownType, SplitType, SStates, Room, pinFlags, fvars
  <2> QED
    BY <2>6, <2>8, <2>9, <1>b
<1> QED
  BY <1>1, <1>2, <1>3, <1>4, <1>5, <1>6, <1>7, <1>8, <1>9, <1>10, <1>11, <1>12 DEF SNext

-----------------------------------------------------------------------------
LEMMA AppStep ==
    ASSUME IInv, ANext
    PROVE  IInv'
<1> USE DEF IInv, TypeOK
<1>p. /\ 1 \in Pins /\ app.pin \in Pins
      /\ app.pin < NumPins => app.pin + 1 \in Pins
  BY PinAssumption DEF AppType, Pins
<1>q. (UNCHANGED <<queue, split>>) => QueueType' /\ QueueBounded' /\ Room'
  BY DEF QueueType, QueueBounded, Room
<1>1. CASE AStart
  <2>1. FlagType' /\ WorkerType' /\ DownType'
    BY <1>1 DEF AStart, FlagType, WorkerType, DownType, WStates, pinFlags, fvars
  <2>2. SplitType'
    BY <1>1 DEF AStart, SplitType, SStates
  <2>4. starts' \in 0 .. MaxStarts
    BY <1>1, BoundAssumption DEF AStart, AppType
  <2>5. early' \in BOOLEAN
    BY <1>1 DEF AStart
  <2>6. AppType'
    BY <1>1, <1>p, <2>4, <2>5 DEF AStart, AGo, AppType, AStates
  <2>3. QueueType' /\ QueueBounded' /\ Room'
    BY <1>1 DEF AStart, QueueType, QueueBounded, Room, SplitType
  <2> QED
    BY <2>1, <2>2, <2>3, <2>6
<1>2. CASE ASeek
  <2>1. FlagType' /\ WorkerType' /\ DownType'
    BY <1>2, <1>p DEF ASeek, BeginFlush, OnlyA, Calm, Tallies, FlagType, WorkerType, DownType, pinFlags, wvars, fvars
  <2>2. SplitType' /\ AppType'
    BY <1>2, <1>p, BoundAssumption DEF ASeek, BeginFlush, OnlyA, Calm, Tallies, SplitType, AppType, AStates
  <2>3. UNCHANGED <<queue, split>>
    BY <1>2 DEF ASeek, BeginFlush, OnlyA, Calm, Tallies
  <2> QED
    BY <2>1, <2>2, <2>3, <1>q
<1>3. CASE AStop
  <2>1. FlagType' /\ WorkerType' /\ DownType'
    BY <1>3, <1>p DEF AStop, BeginFlush, OnlyA, Calm, Tallies, FlagType, WorkerType, DownType, pinFlags, wvars, fvars
  <2>2. SplitType'
    BY <1>3 DEF AStop, BeginFlush, OnlyA, SplitType
  <2>4. stops' \in 0 .. MaxStops
    <3>1. stops \in 0 .. MaxStops
      BY DEF AppType
    <3>2. stops < MaxStops /\ stops' = stops + 1
      BY <1>3 DEF AStop
    <3> QED
      BY <3>1, <3>2, BoundAssumption
  <2>5. early' \in BOOLEAN
    BY <1>3 DEF AStop, BeginFlush
  <2>6. AppType'
    BY <1>3, <1>p, <2>4, <2>5 DEF AStop, BeginFlush, AppType, AStates
  <2>3. UNCHANGED <<queue, split>>
    BY <1>3 DEF AStop, BeginFlush, OnlyA, Calm, Tallies
  <2> QED
    BY <2>1, <2>2, <2>3, <2>6, <1>q
<1>4. CASE AReset
  <2>1. FlagType' /\ WorkerType' /\ DownType'
    BY <1>4, <1>p DEF AReset, AGo, OnlyA, Calm, Tallies, FlagType, WorkerType, DownType, pinFlags, wvars, fvars
  <2>2. SplitType' /\ AppType'
    BY <1>4, <1>p, BoundAssumption DEF AReset, AGo, OnlyA, Calm, Tallies, SplitType, AppType, AStates
  <2>3. UNCHANGED <<queue, split>>
    BY <1>4 DEF AReset, AGo, OnlyA, Calm, Tallies
  <2> QED
    BY <2>1, <2>2, <2>3, <1>q
<1>5. CASE AFlushDown
  <2>4. WorkerType'
    BY <1>5 DEF AFlushDown, OnlyA, WorkerType, wvars
  <2>5. FlagType'
    BY <1>5, <1>p DEF AFlushDown, FlagType, fvars
  <2>6. DownType'
    BY <1>5, <1>p DEF AFlushDown, DownType
  <2>1. FlagType' /\ WorkerType' /\ DownType'
    BY <2>4, <2>5, <2>6
  <2>2. SplitType' /\ AppType'
    BY <1>5, <1>p, BoundAssumption DEF AFlushDown, AGo, NextPin, OnlyA, Calm, Tallies, SplitType, AppType, AStates
  <2>3. UNCHANGED <<queue, split>>
    BY <1>5 DEF AFlushDown, AGo, NextPin, OnlyA, Calm, Tallies
  <2> QED
    BY <2>1, <2>2, <2>3, <1>q
<1>6. CASE ACall
  <2>1. FlagType' /\ WorkerType' /\ DownType'
    BY <1>6, <1>p DEF ACall, AGo, OnlyA, Calm, Tallies, FlagType, WorkerType, DownType, pinFlags, wvars, fvars
  <2>2. SplitType' /\ AppType'
    BY <1>6, <1>p, BoundAssumption DEF ACall, AGo, OnlyA, Calm, Tallies, SplitType, AppType, AStates
  <2>3. UNCHANGED <<queue, split>>
    BY <1>6 DEF ACall, AGo, OnlyA, Calm, Tallies
  <2> QED
    BY <2>1, <2>2, <2>3, <1>q
<1>7. CASE AAnswered
  <2>1. FlagType' /\ WorkerType' /\ DownType'
    BY <1>7, <1>p DEF AAnswered, AGo, OnlyA, Calm, Tallies, FlagType, WorkerType, DownType, pinFlags, wvars, fvars
  <2>2. SplitType' /\ AppType'
    BY <1>7, <1>p, BoundAssumption DEF AAnswered, AGo, OnlyA, Calm, Tallies, SplitType, AppType, AStates
  <2>3. UNCHANGED <<queue, split>>
    BY <1>7 DEF AAnswered, AGo, OnlyA, Calm, Tallies
  <2> QED
    BY <2>1, <2>2, <2>3, <1>q
<1>8. CASE AEndDown
  <2>4. WorkerType'
    BY <1>8 DEF AEndDown, WorkerType, wvars
  <2>5. FlagType'
    BY <1>8 DEF AEndDown, FlagType, pinFlags, fvars
  <2>6. DownType'
    BY <1>8, <1>p DEF AEndDown, DownType
  <2>1. FlagType' /\ WorkerType' /\ DownType'
    BY <2>4, <2>5, <2>6
  <2>2. SplitType' /\ AppType'
    BY <1>8, <1>p, BoundAssumption DEF AEndDown, AGo, NextPin, OnlyA, Calm, Tallies, SplitType, AppType, AStates
  <2>3. UNCHANGED <<queue, split>>
    BY <1>8 DEF AEndDown, AGo, NextPin, OnlyA, Calm, Tallies
  <2> QED
    BY <2>1, <2>2, <2>3, <1>q
<1>9. CASE AAllow
  <2>1. FlagType' /\ WorkerType' /\ DownType'
    BY <1>9, <1>p DEF AAllow, AGo, OnlyA, Calm, Tallies, FlagType, WorkerType, DownType, pinFlags, wvars, fvars
  <2>2. SplitType' /\ AppType'
    BY <1>9, <1>p, BoundAssumption DEF AAllow, AGo, OnlyA, Calm, Tallies, SplitType, AppType, AStates
  <2>3. UNCHANGED <<queue, split>>
    BY <1>9 DEF AAllow, AGo, OnlyA, Calm, Tallies
  <2> QED
    BY <2>1, <2>2, <2>3, <1>q
<1>10. CASE AEndFlush
  <2>1. FlagType' /\ WorkerType' /\ DownType'
    BY <1>10, <1>p DEF AEndFlush, AGo, NextPin, OnlyA, Calm, Tallies, FlagType, WorkerType, DownType, pinFlags, wvars, fvars
  <2>2. SplitType' /\ AppType'
    BY <1>10, <1>p, BoundAssumption DEF AEndFlush, AGo, NextPin, OnlyA, Calm, Tallies, SplitType, AppType, AStates
  <2>3. UNCHANGED <<queue, split>>
    BY <1>10 DEF AEndFlush, AGo, NextPin, OnlyA, Calm, Tallies
  <2> QED
    BY <2>1, <2>2, <2>3, <1>q
<1>11. CASE AEnded
  <2>1. FlagType' /\ WorkerType' /\ DownType'
    BY <1>11, <1>p DEF AEnded, AGo, OnlyA, Calm, Tallies, FlagType, WorkerType, DownType, pinFlags, wvars, fvars
  <2>2. SplitType' /\ AppType'
    BY <1>11, <1>p, BoundAssumption DEF AEnded, AGo, OnlyA, Calm, Tallies, SplitType, AppType, AStates
  <2>3. UNCHANGED <<queue, split>>
    BY <1>11 DEF AEnded, AGo, OnlyA, Calm, Tallies
  <2> QED
    BY <2>1, <2>2, <2>3, <1>q
<1>12. CASE AInactive
  <2>1. FlagType' /\ WorkerType' /\ DownType'
    BY <1>12, <1>p DEF AInactive, AGo, ThreadExists, OnlyA, Calm, Tallies, FlagType, WorkerType, DownType, pinFlags, wvars, fvars
  <2>2. SplitType' /\ AppType'
    BY <1>12, <1>p, BoundAssumption DEF AInactive, AGo, ThreadExists, OnlyA, Calm, Tallies, SplitType, AppType, AStates
  <2>3. UNCHANGED <<queue, split>>
    BY <1>12 DEF AInactive, AGo, ThreadExists, OnlyA, Calm, Tallies
  <2> QED
    BY <2>1, <2>2, <2>3, <1>q
<1>13. CASE AJoin
  <2>1. FlagType' /\ WorkerType' /\ DownType'
    BY <1>13, <1>p DEF AJoin, AGo, NextPin, OnlyA, Calm, Tallies, FlagType, WorkerType, DownType, pinFlags, wvars, fvars
  <2>2. SplitType' /\ AppType'
    BY <1>13, <1>p, BoundAssumption DEF AJoin, AGo, NextPin, OnlyA, Calm, Tallies, SplitType, AppType, AStates
  <2>3. UNCHANGED <<queue, split>>
    BY <1>13 DEF AJoin, AGo, NextPin, OnlyA, Calm, Tallies
  <2> QED
    BY <2>1, <2>2, <2>3, <1>q
<1>14. CASE ADeny
  <2>1. FlagType' /\ WorkerType' /\ DownType'
    BY <1>14, <1>p DEF ADeny, AGo, OnlyA, Calm, Tallies, FlagType, WorkerType, DownType, pinFlags, wvars, fvars
  <2>2. SplitType' /\ AppType'
    BY <1>14, <1>p DEF ADeny, AGo, OnlyA, Calm, Tallies, SplitType, AppType, AStates
  <2>3. <<>> \in Seq(PacketType) /\ Len(<<>>) = 0
    OBVIOUS
  <2>4. QueueType' /\ \A p \in Pins : Len(queue'[p]) <= Len(queue[p])
    BY <1>14, <1>p, <2>3 DEF ADeny, QueueType
  <2>5. QueueBounded' /\ Room'
    BY <1>14, <2>4, Drained DEF ADeny, OnlyA
  <2> QED
    BY <2>1, <2>2, <2>4, <2>5
<1> QED
  BY <1>1, <1>2, <1>3, <1>4, <1>5, <1>6, <1>7, <1>8, <1>9, <1>10, <1>11, <1>12, <1>13, <1>14 DEF ANext, AContinue

-----------------------------------------------------------------------------
LEMMA Started == Init => IInv
<1> SUFFICES ASSUME Init PROVE IInv
  OBVIOUS
<1>6. DownType
  <2>1. PICK f \in [Pins -> DownFails] :
          down = [p \in Pins |-> [run |-> FALSE, flush |-> FALSE, seg |-> 0, last |-> NoPacket,
                                  fails |-> f[p]]]
    BY DEF Init
  <2> QED
    BY <2>1, NoPacketType, DownAssumption DEF DownType
<1>1. FlagType /\ WorkerType /\ DownType
  BY <1>6, NoPacketType DEF Init, FlagType, WorkerType, WStates
<1>2. [p \in Pins |-> 0] \in [Pins -> 0 .. FileLength]
  BY SizeAssumption
<1>4. SplitType
  BY <1>2 DEF Init, SplitType, SStates
<1>5. AppType
  <2>1. 1 \in Pins /\ 0 \in 0 .. MaxStarts /\ 0 \in 0 .. MaxSeeks /\ 0 \in 0 .. MaxStops
    BY PinAssumption, BoundAssumption DEF Pins
  <2>2. app \in [pc : AStates, pin : Pins, cmd : {"seek", "exit"}]
    BY <2>1 DEF Init, AStates
  <2> QED
    BY <2>1, <2>2 DEF Init, AppType
<1>3. QueueType /\ QueueBounded /\ Room
  BY SizeAssumption DEF Init, QueueType, QueueBounded, Room
<1> QED
  BY <1>1, <1>3, <1>4, <1>5 DEF IInv, TypeOK

LEMMA Stuttered == IInv /\ UNCHANGED vars => IInv'
  BY DEF IInv, TypeOK, QueueType, FlagType, WorkerType, DownType, SplitType, AppType, QueueBounded,
         Room, vars, pinFlags, wvars, svars, fvars, avars

\* The invariant holds throughout.
LEMMA Invariant == Spec => []IInv
<1>1. IInv /\ [Next]_vars => IInv'
  BY WorkerStep, DemuxerStep, AppStep, Stuttered DEF Next
<1> QED
  BY Started, <1>1, PTL DEF Spec

\* Every variable keeps its type.
THEOREM TypeCorrect == Spec => []TypeOK
<1>1. IInv => TypeOK
  BY DEF IInv
<1> QED
  BY Invariant, <1>1, PTL

\* No packet queue grows beyond twice m_QueueMaxPackets and the packet that S
\* was about to add, whatever flushes, failures and refusals come between its
\* look at the queue and the addition.
THEOREM Bounded == Spec => []QueueBounded
<1>1. IInv => QueueBounded
  BY DEF IInv
<1> QED
  BY Invariant, <1>1, PTL
=============================================================================
