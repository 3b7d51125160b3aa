------------------------ MODULE SplitterFlushProofs ------------------------
(***************************************************************************)
(* Proofs about Splitter: what a flush does to packets, segments and pins, *)
(* for every number of pins, packets, starts, seeks and stops.             *)
(***************************************************************************)
EXTENDS SplitterProofs, FiniteSetTheorems

-----------------------------------------------------------------------------
(***************************************************************************)
(* Where a step leaves the thread that takes it.                           *)
(***************************************************************************)
\* W is where it was but for its state; its packet has been dealt with.
Moved(p, pc) == /\ worker'[p].pc = pc
                /\ worker'[p].ok = worker[p].ok /\ worker'[p].pkt = worker[p].pkt
Done(p) == worker'[p].pc \in {"take", "top"} /\ worker'[p].ok

LEMMA WorkerMoves ==
    ASSUME IInv, NEW p \in Pins, WNext(p)
    PROVE  /\ UNCHANGED <<split, request, answered, active, fFlushing, fEndFlush, app, early, overtaken>>
           /\ \A q \in Pins \ {p} : worker'[q] = worker[q]
           /\ ThreadExists(p)
           /\ WInit(p) => Moved(p, "clear")
           /\ WClear(p) => Moved(p, "flush")
           /\ WFlush(p) => Moved(p, "top")
           /\ WExit(p) => Moved(p, "none")
           /\ WTake(p) => \/ /\ hrOk[p] /\ worker'[p].pc = "assert" /\ worker'[p].ok = worker[p].ok
                             /\ worker'[p].pkt = Head(queue[p])
                          \/ ~hrOk[p] /\ Done(p)
           /\ WEmpty(p) => Moved(p, "top")
           /\ WAssert(p) => Moved(p, "deliver")
           /\ WAccepted(p) => Moved(p, "wait")
           /\ WRefused(p) => worker'[p].pc = "wait" /\ ~worker'[p].ok
           /\ WWait(p) => (worker[p].ok /\ Done(p)) \/ (~worker[p].ok /\ Moved(p, "report"))
           /\ WReport(p) => (flushed[p] /\ Done(p)) \/ (~flushed[p] /\ Moved(p, "fail"))
           /\ WFail(p) => Done(p)
<1>a. UNCHANGED <<split, request, answered, active, fFlushing, fEndFlush, app, early, overtaken>>
  BY DEF WNext, WGoOn, WInit, WClear, WFlush, WExit, WTake, WEmpty, WAssert, WAccepted, WRefused,
         WWait, WReport, WFail, OnlyW, svars, fvars, avars
<1>w. worker \in [Pins -> [pc : WStates, pkt : PacketType, cnt : Nat, ok : BOOLEAN]]
  BY DEF IInv, TypeOK, WorkerType
<1>g. ASSUME NEW pc, WGo(p, pc)
      PROVE  Moved(p, pc) /\ \A q \in Pins \ {p} : worker'[q] = worker[q]
  BY <1>g, <1>w DEF WGo, Moved
<1>l. ASSUME NEW w, worker' = [worker EXCEPT ![p] = Looped(w)],
             w \in [pc : WStates, pkt : PacketType, cnt : Nat, ok : BOOLEAN]
      PROVE  Done(p) /\ \A q \in Pins \ {p} : worker'[q] = worker[q]
  BY <1>l, <1>w DEF Looped, Done
<1> DEFINE Others == \A q \in Pins \ {p} : worker'[q] = worker[q]
<1> HIDE DEF Moved
<1>1. WInit(p) => Moved(p, "clear") /\ Others /\ ThreadExists(p)
  BY <1>g DEF WInit, ThreadExists
<1>2. WClear(p) => Moved(p, "flush") /\ Others /\ ThreadExists(p)
  BY <1>g DEF WClear, ThreadExists
<1>3. WFlush(p) => Moved(p, "top") /\ Others /\ ThreadExists(p)
  BY <1>g DEF WFlush, ThreadExists
<1>4. WExit(p) => Moved(p, "none") /\ Others /\ ThreadExists(p)
  BY <1>g DEF WExit, ThreadExists
<1>5. ASSUME WTake(p)
      PROVE  /\ Others /\ ThreadExists(p)
             /\ \/ /\ hrOk[p] /\ worker'[p].pc = "assert" /\ worker'[p].ok = worker[p].ok
                   /\ worker'[p].pkt = Head(queue[p])
                \/ ~hrOk[p] /\ Done(p)
  <2> DEFINE taken == [worker[p] EXCEPT !.pc = "assert", !.pkt = Head(queue[p]), !.cnt = Len(queue[p])]
  <2>1. Head(queue[p]) \in PacketType /\ Len(queue[p]) \in Nat
    BY <1>5, Shorter DEF WTake, IInv, TypeOK, QueueType
  <2>2. taken \in [pc : WStates, pkt : PacketType, cnt : Nat, ok : BOOLEAN]
    BY <2>1, <1>w DEF WStates
  <2>3. worker' = [worker EXCEPT ![p] = IF hrOk[p] THEN taken ELSE Looped(taken)]
    BY <1>5 DEF WTake
  <2>4. ThreadExists(p)
    BY <1>5 DEF WTake, ThreadExists
  <2>5. CASE hrOk[p]
    BY <1>w, <2>3, <2>4, <2>5
  <2>6. CASE ~hrOk[p]
    <3> HIDE DEF taken
    <3>1. worker' = [worker EXCEPT ![p] = Looped(taken)]
      BY <2>3, <2>6
    <3> QED
      BY <1>l, <2>2, <2>4, <2>6, <3>1
  <2> QED
    BY <2>5, <2>6
<1>6. WEmpty(p) => Moved(p, "top") /\ Others /\ ThreadExists(p)
  BY <1>g DEF WEmpty, ThreadExists
<1>7. WAssert(p) => Moved(p, "deliver") /\ Others /\ ThreadExists(p)
  BY <1>g DEF WAssert, ThreadExists
<1>8. WAccepted(p) => Moved(p, "wait") /\ Others /\ ThreadExists(p)
  BY <1>g DEF WAccepted, ThreadExists
<1>9. WRefused(p) => worker'[p].pc = "wait" /\ ~worker'[p].ok /\ Others /\ ThreadExists(p)
  BY <1>w DEF WRefused, ThreadExists
<1>10. ASSUME WWait(p)
       PROVE  /\ Others /\ ThreadExists(p)
              /\ (worker[p].ok /\ Done(p)) \/ (~worker[p].ok /\ Moved(p, "report"))
  <2>1. CASE worker[p].ok
    <3>1. worker' = [worker EXCEPT ![p] = Looped(worker[p])]
      BY <1>10, <2>1, <1>w DEF WWait, Waited
    <3> QED
      BY <1>10, <2>1, <3>1, <1>l, <1>w DEF WWait, ThreadExists
  <2>2. CASE ~worker[p].ok
    BY <1>10, <2>2, <1>g DEF WWait, Waited, ThreadExists
  <2> QED
    BY <2>1, <2>2
<1>11. ASSUME WReport(p)
       PROVE  /\ Others /\ ThreadExists(p)
              /\ (flushed[p] /\ Done(p)) \/ (~flushed[p] /\ Moved(p, "fail"))
  <2>1. CASE flushed[p]
    <3>1. worker' = [worker EXCEPT ![p] = Looped(worker[p])]
      BY <1>11, <2>1, <1>w DEF WReport
    <3> QED
      BY <1>11, <2>1, <3>1, <1>l, <1>w DEF WReport, ThreadExists
  <2>2. CASE ~flushed[p]
    BY <1>11, <2>2, <1>g DEF WReport, ThreadExists
  <2> QED
    BY <2>1, <2>2
<1>12. WFail(p) => Done(p) /\ Others /\ ThreadExists(p)
  BY <1>w DEF WFail, Looped, Done, ThreadExists
<1>13. Others /\ ThreadExists(p)
  BY <1>1, <1>2, <1>3, <1>4, <1>5, <1>6, <1>7, <1>8, <1>9, <1>10, <1>11, <1>12 DEF WNext, WGoOn
<1> QED
  BY <1>a, <1>1, <1>2, <1>3, <1>4, <1>5, <1>6, <1>7, <1>8, <1>9, <1>10, <1>11, <1>12, <1>13

\* A goes on to the next pin, or from the last one to the next state.
Turned(pc, last) ==
    /\ app'.cmd = app.cmd
    /\ \/ app.pin < NumPins /\ app'.pc = pc /\ app'.pin = app.pin + 1
       \/ app.pin = NumPins /\ app'.pc = last /\ app'.pin = 1
Went(pc, p) == app'.pc = pc /\ app'.pin = p /\ app'.cmd = app.cmd

LEMMA AppMoves ==
    ASSUME IInv
    PROVE  /\ NumPins \in Nat /\ Pins = 1 .. NumPins /\ app.pin \in Pins /\ 1 \in Pins
           /\ app.cmd \in {"seek", "exit"}
           /\ AStart => Went("idle", 1)
           /\ ASeek \/ AStop => app'.pc = "reset" /\ app'.pin = 1
           /\ ASeek => app'.cmd = "seek"
           /\ AStop => app'.cmd = "exit"
           /\ AReset => Went("deny", app.pin)
           /\ ADeny => Went("flushDown", app.pin)
           /\ AFlushDown => Turned("reset", "call")
           /\ ACall => Went(IF split.pc = "none" THEN "endDown" ELSE "called", 1)
           /\ AAnswered => Went("endDown", 1)
           /\ AEndDown => IF ThreadExists(app.pin) THEN Went("allow", app.pin)
                          ELSE Turned("endDown", "ended")
           /\ AAllow => Went("endFlush", app.pin)
           /\ AEndFlush => Turned("endDown", "ended")
           /\ AEnded => Went(IF app.cmd = "exit" THEN "inactive" ELSE "idle", 1)
           /\ AInactive => Went("join", app.pin)
           /\ AJoin => Turned("inactive", "stopped")
<1>w. app \in [pc : AStates, pin : Pins, cmd : {"seek", "exit"}]
  BY DEF IInv, TypeOK, AppType
<1>p. NumPins \in Nat /\ Pins = 1 .. NumPins /\ 1 \in Pins
  BY PinAssumption DEF Pins
<1>g. \A pc, p : AGo(pc, p) => Went(pc, p)
  BY <1>w DEF AGo, Went
<1>n. \A pc, last : NextPin(pc, last) => Turned(pc, last)
  <2> SUFFICES ASSUME NEW pc, NEW last, NextPin(pc, last) PROVE Turned(pc, last)
    OBVIOUS
  <2>1. CASE app.pin < NumPins
    BY <1>g, <2>1 DEF NextPin, Turned, Went
  <2>2. CASE ~(app.pin < NumPins)
    <3>1. Went(last, 1)
      BY <1>g, <2>2 DEF NextPin
    <3>2. app.pin = NumPins
      BY <1>w, <1>p, <2>2
    <3> QED
      BY <3>1, <3>2 DEF Turned, Went
  <2> QED
    BY <2>1, <2>2
<1>1. AStart => Went("idle", 1)
  BY <1>g DEF AStart
<1>2. /\ ASeek => app'.pc = "reset" /\ app'.pin = 1 /\ app'.cmd = "seek"
      /\ AStop => app'.pc = "reset" /\ app'.pin = 1 /\ app'.cmd = "exit"
  <2>1. ASSUME ASeek PROVE app'.pc = "reset" /\ app'.pin = 1 /\ app'.cmd = "seek"
    BY <2>1 DEF ASeek
  <2>2. ASSUME AStop PROVE app'.pc = "reset" /\ app'.pin = 1 /\ app'.cmd = "exit"
    BY <2>2 DEF AStop
  <2> QED
    BY <2>1, <2>2
<1>3. /\ AReset => Went("deny", app.pin)
      /\ ADeny => Went("flushDown", app.pin)
  BY <1>g DEF AReset, ADeny
<1>4. AFlushDown => Turned("reset", "call")
  BY <1>n DEF AFlushDown
<1>5. ACall => Went(IF split.pc = "none" THEN "endDown" ELSE "called", 1)
  BY <1>g DEF ACall
<1>6. AAnswered => Went("endDown", 1)
  BY <1>g DEF AAnswered
<1>7. AEndDown => IF ThreadExists(app.pin) THEN Went("allow", app.pin)
                  ELSE Turned("endDown", "ended")
  BY <1>g, <1>n DEF AEndDown
<1>8. /\ AAllow => Went("endFlush", app.pin)
      /\ AEndFlush => Turned("endDown", "ended")
  BY <1>g, <1>n DEF AAllow, AEndFlush
<1>9. AEnded => Went(IF app.cmd = "exit" THEN "inactive" ELSE "idle", 1)
  BY <1>g DEF AEnded
<1>10. /\ AInactive => Went("join", app.pin)
       /\ AJoin => Turned("inactive", "stopped")
  BY <1>g, <1>n DEF AInactive, AJoin
<1> QED
  BY <1>w, <1>p, <1>1, <1>2, <1>3, <1>4, <1>5, <1>6, <1>7, <1>8, <1>9, <1>10

-----------------------------------------------------------------------------
(***************************************************************************)
(* Where the threads are.                                                  *)
(***************************************************************************)
Ending == {"endDown", "allow", "endFlush", "ended"}

\* S has answered the call of A.
Through == (app.pc = "called" /\ answered) \/ app.pc \in Ending

\* The filter runs, and a flush is one of a seek.
Running == app.pc = "idle" \/ (app.pc # "stopped" /\ app.cmd = "seek")

Answering ==
    /\ request # "none" => app.pc = "called" /\ request = app.cmd /\ ~answered
    /\ answered => app.pc = "called" /\ request = "none"
    /\ app.pc = "called" => request # "none" \/ answered
    /\ split.cmd => split.pc = "seek" /\ request = "seek"

\* S waits for the end of the flush when A ends it, and has consumed the end of
\* the one before.
Demuxer ==
    /\ Through => IF app.cmd = "exit" THEN split.pc = "none"
                  ELSE split.pc = "broken" \/ (split.pc = "flushWait" /\ ~fEndFlush)
    /\ app.pc \in {"stopped", "inactive", "join"} => split.pc = "none"
    /\ Running => split.pc # "none"
    /\ fEndFlush => \/ split.pc \in {"none", "init", "broken", "flushWait"}
                    \/ split.pc = "seek" /\ ~split.cmd

\* The threads of the pins exist as long as the filter runs.
Threads ==
    /\ app.pc \in {"inactive", "join"} => app.cmd = "exit"
    /\ app.pc = "stopped" => \A p \in Pins : ~ThreadExists(p)
    /\ app.pc \in {"inactive", "join"} => \A p \in Pins : p < app.pin => ~ThreadExists(p)
    /\ app.pc = "join" => exitReq[app.pin] \/ ~ThreadExists(app.pin)
    /\ \A p \in Pins : exitReq[p] => app.pc = "join" /\ app.pin = p
    /\ Running => \A p \in Pins : ThreadExists(p)

\* A packet that was refused is looked at before anything else is done.
Refusals ==
    \A p \in Pins : /\ ~worker[p].ok => worker[p].pc \in {"wait", "report", "fail"}
                    /\ worker[p].pc \in {"report", "fail"} => ~worker[p].ok

Control == Answering /\ Demuxer /\ Threads /\ Refusals

LEMMA ControlStarted == Init => Control
  BY DEF Init, Control, Answering, Demuxer, Threads, Refusals, Through, Running, Ending, ThreadExists

LEMMA ControlW ==
    ASSUME IInv, Control, NEW p \in Pins, WNext(p)
    PROVE  Control'
<1> USE DEF Control
<1>a. /\ UNCHANGED <<split, request, answered, fEndFlush, app>>
      /\ \A q \in Pins \ {p} : worker'[q] = worker[q]
      /\ ThreadExists(p)
  BY WorkerMoves
<1>b. Answering' /\ Demuxer'
  BY <1>a DEF Answering, Demuxer, Through, Running
<1>c. ASSUME ThreadExists(p)', UNCHANGED exitReq,
             ~worker'[p].ok => worker'[p].pc \in {"wait", "report", "fail"},
             worker'[p].pc \in {"report", "fail"} => ~worker'[p].ok
      PROVE  Control'
  <2>1. Refusals'
    BY <1>a, <1>c DEF Refusals
  <2>3. \A q \in Pins : ThreadExists(q)' <=> ThreadExists(q)
    BY <1>a, <1>c DEF ThreadExists
  <2>4. app.pc = "join" => app.pin \in Pins
    BY AppMoves
  <2>5. app' = app /\ exitReq' = exitReq /\ (Running' <=> Running)
    BY <1>a, <1>c DEF Running
  <2> HIDE DEF ThreadExists, Running
  <2>2. Threads'
    BY <2>3, <2>4, <2>5 DEF Threads
  <2> QED
    BY <1>b, <2>1, <2>2
<1> USE DEF Refusals, ThreadExists, Moved, Done
<1>1. CASE WInit(p)
  BY <1>1, <1>c, WorkerMoves DEF WInit
<1>2. CASE WClear(p)
  BY <1>2, <1>c, WorkerMoves DEF WClear
<1>3. CASE WFlush(p)
  BY <1>3, <1>c, WorkerMoves DEF WFlush
<1>4. CASE WExit(p)
  <2>1. Moved(p, "none") /\ worker[p].pc = "top" /\ exitReq[p]
        /\ exitReq' = [exitReq EXCEPT ![p] = FALSE] /\ exitReq \in [Pins -> BOOLEAN]
    BY <1>4, WorkerMoves DEF WExit, IInv, TypeOK, WorkerType
  <2>2. Refusals'
    BY <1>a, <2>1
  <2>3. app.pc = "join" /\ app.pin = p /\ app.cmd = "exit"
    BY <2>1 DEF Threads
  <2>4. Threads'
    BY <1>a, <2>1, <2>3 DEF Threads, Running
  <2> QED
    BY <1>b, <2>2, <2>4
<1>5. CASE WTake(p)
  BY ZenonT(30), <1>5, <1>c, WorkerMoves DEF WTake
<1>6. CASE WEmpty(p)
  BY <1>6, <1>c, WorkerMoves DEF WEmpty
<1>7. CASE WAssert(p)
  BY <1>7, <1>c, WorkerMoves DEF WAssert
<1>8. CASE WAccepted(p)
  BY <1>8, <1>c, WorkerMoves DEF WAccepted
<1>9. CASE WRefused(p)
  BY <1>9, <1>c, WorkerMoves DEF WRefused
<1>10. CASE WWait(p)
  BY <1>10, <1>c, WorkerMoves DEF WWait
<1>11. CASE WReport(p)
  BY <1>11, <1>c, WorkerMoves DEF WReport
<1>12. CASE WFail(p)
  BY <1>12, <1>c, WorkerMoves DEF WFail
<1> QED
  BY <1>1, <1>2, <1>3, <1>4, <1>5, <1>6, <1>7, <1>8, <1>9, <1>10, <1>11, <1>12 DEF WNext, WGoOn

LEMMA ControlS ==
    ASSUME IInv, Control, SNext
    PROVE  Control'
<1> USE DEF Control
<1>a. UNCHANGED <<worker, exitReq, app>>
  BY DEF SNext, SInit, SBroken, SSeek, SFlushWait, SSegment, SSegmentDone, SDemux, SDemuxDone, SEnd,
         SQueue, SAdd, SRequest, OnlyS, wvars, avars
<1>b. Threads' /\ Refusals'
  BY <1>a DEF Threads, Refusals, Running, ThreadExists
<1>w. SplitType /\ FlagType /\ AppType
  BY DEF IInv, TypeOK
<1> SUFFICES Answering' /\ Demuxer'
  BY <1>b
<1> USE DEF Answering, Demuxer, Through, Running, Ending, SplitType, SGo, Reply, fvars
<1>1. CASE SInit
  BY <1>1, <1>a, <1>w DEF SInit
<1>2. CASE SBroken
  BY <1>2, <1>a, <1>w DEF SBroken, AppType
<1>3. CASE SSeek
  BY <1>3, <1>a, <1>w DEF SSeek
<1>4. CASE SFlushWait
  BY <1>4, <1>a, <1>w DEF SFlushWait
<1>5. CASE SSegment
  BY <1>5, <1>a, <1>w DEF SSegment
<1>6. CASE SSegmentDone
  BY <1>6, <1>a, <1>w DEF SSegmentDone
<1>7. CASE SDemuxDone
  BY <1>7, <1>a, <1>w DEF SDemuxDone
<1>8. CASE SEnd
  BY <1>8, <1>a, <1>w DEF SEnd
<1>9. CASE SRequest
  BY <1>9, <1>a, <1>w DEF SRequest, AppType
<1>10. ASSUME NEW p \in Pins, SDemux(p) PROVE Answering' /\ Demuxer'
  BY <1>10, <1>a, <1>w DEF SDemux
<1>11. CASE SQueue
  BY <1>11, <1>a, <1>w DEF SQueue, Returned
<1>12. CASE SAdd
  BY <1>12, <1>a, <1>w DEF SAdd, Returned
<1> QED
  BY <1>1, <1>2, <1>3, <1>4, <1>5, <1>6, <1>7, <1>8, <1>9, <1>10, <1>11, <1>12 DEF SNext

LEMMA ControlA ==
    ASSUME IInv, Control, ANext
    PROVE  Control'
<1> USE DEF Control
<1>m. /\ NumPins \in Nat /\ Pins = 1 .. NumPins /\ app.pin \in Pins /\ 1 \in Pins
      /\ app.cmd \in {"seek", "exit"}
  BY AppMoves
<1>w. /\ split \in [pc : SStates, pass : Nat, cmd : BOOLEAN, pos : [Pins -> 0 .. FileLength],
                    todo : SUBSET Pins, pin : Pins \cup {0}, eos : BOOLEAN]
      /\ worker \in [Pins -> [pc : WStates, pkt : PacketType, cnt : Nat, ok : BOOLEAN]]
      /\ exitReq \in [Pins -> BOOLEAN]
  BY DEF IInv, TypeOK, SplitType, WorkerType
<1> USE DEF Answering, Demuxer, Through, Running, Ending, OnlyA, Calm, Tallies, Went, Turned,
            fvars, wvars
\* The threads are left as they are.
<1>t. ASSUME UNCHANGED worker PROVE Refusals'
  BY <1>t DEF Refusals
<1>1. CASE AStart
  <2>1. /\ \A p \in Pins : worker'[p].pc = "init" /\ worker'[p].ok = worker[p].ok
        /\ split'.pc = "init" /\ split'.cmd = split.cmd
        /\ app.pc = "stopped" /\ UNCHANGED <<exitReq, request, answered, fEndFlush>>
    BY <1>1, <1>w DEF AStart
  <2>2. Refusals'
    <3>1. \A p \in Pins : worker[p].pc = "none"
      BY <2>1 DEF Threads, ThreadExists
    <3> QED
      BY <2>1, <3>1 DEF Refusals
  <2>3. Went("idle", 1)
    BY <1>1, AppMoves
  <2>4. Threads'
    BY <2>1, <2>3 DEF Threads, ThreadExists
  <2>5. Answering' /\ Demuxer'
    BY <2>1, <2>3
  <2> QED
    BY <2>2, <2>4, <2>5
<1>2. CASE ASeek
  <2>1. UNCHANGED <<worker, split>>
    BY <1>2 DEF ASeek, BeginFlush
  <2>2. Answering'
    BY <1>2, <2>1, AppMoves DEF ASeek, BeginFlush
  <2>3. Demuxer'
    BY <1>2, <1>m, <2>1, AppMoves DEF ASeek, BeginFlush
  <2>4. Threads'
    BY <1>2, <1>m, <1>w, <2>1, AppMoves DEF ASeek, BeginFlush, Threads, ThreadExists
  <2> QED
    BY <1>t, <2>1, <2>2, <2>3, <2>4
<1>3. CASE AStop
  <2>1. UNCHANGED <<worker, split>>
    BY <1>3 DEF AStop, BeginFlush
  <2>2. Answering'
    BY <1>3, <2>1, AppMoves DEF AStop, BeginFlush
  <2>3. Demuxer'
    BY <1>3, <1>m, <2>1, AppMoves DEF AStop, BeginFlush
  <2>4. Threads'
    BY <1>3, <1>m, <1>w, <2>1, AppMoves DEF AStop, BeginFlush, Threads, ThreadExists
  <2> QED
    BY <1>t, <2>1, <2>2, <2>3, <2>4
<1>4. CASE AReset
  <2>1. UNCHANGED <<worker, split>>
    BY <1>4 DEF AReset
  <2>2. Answering'
    BY <1>4, <2>1, AppMoves DEF AReset
  <2>3. Demuxer'
    BY <1>4, <1>m, <2>1, AppMoves DEF AReset
  <2>4. Threads'
    BY <1>4, <1>m, <1>w, <2>1, AppMoves DEF AReset, Threads, ThreadExists
  <2> QED
    BY <1>t, <2>1, <2>2, <2>3, <2>4
<1>5. CASE ADeny
  <2>1. UNCHANGED <<worker, split>>
    BY <1>5 DEF ADeny
  <2>2. Answering'
    BY <1>5, <2>1, AppMoves DEF ADeny
  <2>3. Demuxer'
    BY <1>5, <1>m, <2>1, AppMoves DEF ADeny
  <2>4. Threads'
    BY <1>5, <1>m, <1>w, <2>1, AppMoves DEF ADeny, Threads, ThreadExists
  <2> QED
    BY <1>t, <2>1, <2>2, <2>3, <2>4
<1>6. CASE AFlushDown
  <2>1. UNCHANGED <<worker, split>>
    BY <1>6 DEF AFlushDown
  <2>2. Answering'
    BY <1>6, <2>1, AppMoves DEF AFlushDown
  <2>3. Demuxer'
    BY <1>6, <1>m, <2>1, AppMoves DEF AFlushDown
  <2>4. Threads'
    BY <1>6, <1>m, <1>w, <2>1, AppMoves DEF AFlushDown, Threads, ThreadExists
  <2> QED
    BY <1>t, <2>1, <2>2, <2>3, <2>4
<1>7. CASE ACall
  <2>1. UNCHANGED <<worker, split>>
    BY <1>7 DEF ACall
  <2>2. Answering'
    BY <1>7, <2>1, AppMoves DEF ACall
  <2>3. Demuxer'
    BY <1>7, <1>m, <2>1, AppMoves DEF ACall
  <2>4. Threads'
    BY <1>7, <1>m, <1>w, <2>1, AppMoves DEF ACall, Threads, ThreadExists
  <2> QED
    BY <1>t, <2>1, <2>2, <2>3, <2>4
<1>8. CASE AAnswered
  <2>1. UNCHANGED <<worker, split>>
    BY <1>8 DEF AAnswered
  <2>2. Answering'
    BY <1>8, <2>1, AppMoves DEF AAnswered
  <2>3. Demuxer'
    BY <1>8, <1>m, <2>1, AppMoves DEF AAnswered
  <2>4. Threads'
    BY <1>8, <1>m, <1>w, <2>1, AppMoves DEF AAnswered, Threads, ThreadExists
  <2> QED
    BY <1>t, <2>1, <2>2, <2>3, <2>4
<1>9. CASE AEndDown
  <2>1. UNCHANGED <<worker, split>>
    BY <1>9 DEF AEndDown
  <2>2. Answering'
    BY <1>9, <2>1, AppMoves DEF AEndDown
  <2>3. Demuxer'
    BY <1>9, <1>m, <2>1, AppMoves DEF AEndDown
  <2>4. Threads'
    BY <1>9, <1>m, <1>w, <2>1, AppMoves DEF AEndDown, Threads, ThreadExists
  <2> QED
    BY <1>t, <2>1, <2>2, <2>3, <2>4
<1>10. CASE AAllow
  <2>1. UNCHANGED <<worker, split>>
    BY <1>10 DEF AAllow
  <2>2. Answering'
    BY <1>10, <2>1, AppMoves DEF AAllow
  <2>3. Demuxer'
    BY <1>10, <1>m, <2>1, AppMoves DEF AAllow
  <2>4. Threads'
    BY <1>10, <1>m, <1>w, <2>1, AppMoves DEF AAllow, Threads, ThreadExists
  <2> QED
    BY <1>t, <2>1, <2>2, <2>3, <2>4
<1>11. CASE AEndFlush
  <2>1. UNCHANGED <<worker, split>>
    BY <1>11 DEF AEndFlush
  <2>2. Answering'
    BY <1>11, <2>1, AppMoves DEF AEndFlush
  <2>3. Demuxer'
    BY <1>11, <1>m, <2>1, AppMoves DEF AEndFlush
  <2>4. Threads'
    BY <1>11, <1>m, <1>w, <2>1, AppMoves DEF AEndFlush, Threads, ThreadExists
  <2> QED
    BY <1>t, <2>1, <2>2, <2>3, <2>4
<1>12. CASE AEnded
  <2>1. UNCHANGED <<worker, split>>
    BY <1>12 DEF AEnded
  <2>2. Answering'
    BY <1>12, <2>1, AppMoves DEF AEnded
  <2>3. Demuxer'
    BY <1>12, <1>m, <2>1, AppMoves DEF AEnded
  <2>5. /\ Went(IF app.cmd = "exit" THEN "inactive" ELSE "idle", 1) /\ exitReq' = exitReq
        /\ \A p \in Pins : ThreadExists(p)' <=> ThreadExists(p)
    BY <1>12, <2>1, AppMoves DEF AEnded, ThreadExists
  <2>6. /\ app.pc = "ended" /\ \A p \in Pins : ~exitReq[p]
        /\ app.cmd = "seek" => \A p \in Pins : ThreadExists(p)
    BY <1>12 DEF AEnded, Threads
  <2>7. \A p \in Pins : ~(p < 1)
    BY <1>m
  <2>4. Threads'
    <3>1. CASE app.cmd = "exit"
      BY <2>5, <2>6, <2>7, <3>1 DEF Threads
    <3>2. CASE app.cmd = "seek"
      BY <2>5, <2>6, <3>2 DEF Threads
    <3> QED
      BY <1>m, <3>1, <3>2
  <2> QED
    BY <1>t, <2>1, <2>2, <2>3, <2>4
<1>13. CASE AInactive
  <2>1. UNCHANGED <<worker, split>>
    BY <1>13 DEF AInactive
  <2>2. Answering'
    BY <1>13, <2>1, AppMoves DEF AInactive
  <2>3. Demuxer'
    BY <1>13, <1>m, <2>1, AppMoves DEF AInactive
  <2>4. Threads'
    BY <1>13, <1>m, <1>w, <2>1, AppMoves DEF AInactive, Threads, ThreadExists
  <2> QED
    BY <1>t, <2>1, <2>2, <2>3, <2>4
<1>14. CASE AJoin
  <2>1. UNCHANGED <<worker, split>>
    BY <1>14 DEF AJoin
  <2>2. Answering'
    BY <1>14, <2>1, AppMoves DEF AJoin
  <2>3. Demuxer'
    BY <1>14, <1>m, <2>1, AppMoves DEF AJoin
  <2>5. /\ Turned("inactive", "stopped") /\ exitReq' = exitReq /\ app.pc = "join"
        /\ ~exitReq[app.pin] /\ \A p \in Pins : ThreadExists(p)' <=> ThreadExists(p)
    BY <1>14, <2>1, AppMoves DEF AJoin, ThreadExists
  <2>6. /\ app.cmd = "exit" /\ \A p \in Pins : ~exitReq[p]
        /\ \A p \in Pins : p <= app.pin => ~ThreadExists(p)
    <3>1. app.cmd = "exit" /\ \A p \in Pins : ~exitReq[p]
      BY <2>5 DEF Threads
    <3>2. ~ThreadExists(app.pin) /\ \A p \in Pins : p < app.pin => ~ThreadExists(p)
      BY <2>5 DEF Threads
    <3> QED
      BY <1>m, <3>1, <3>2
  <2>4. Threads'
    <3> HIDE DEF ThreadExists
    <3>1. CASE app.pin < NumPins /\ app'.pc = "inactive" /\ app'.pin = app.pin + 1
      <4>1. \A p \in Pins : p < app.pin + 1 => p <= app.pin
        BY <1>m
      <4> QED
        BY <2>5, <2>6, <3>1, <4>1 DEF Threads
    <3>2. CASE app.pin = NumPins /\ app'.pc = "stopped"
      <4>1. \A p \in Pins : p <= app.pin
        BY <1>m, <3>2
      <4> QED
        BY <2>5, <2>6, <3>2, <4>1 DEF Threads
    <3> QED
      BY <2>5, <3>1, <3>2
  <2> QED
    BY <1>t, <2>1, <2>2, <2>3, <2>4
<1> QED
  BY <1>1, <1>2, <1>3, <1>4, <1>5, <1>6, <1>7, <1>8, <1>9, <1>10, <1>11, <1>12, <1>13, <1>14
     DEF ANext, AContinue

-----------------------------------------------------------------------------
(***************************************************************************)
(* Where a step leaves the packets.                                        *)
(***************************************************************************)
\* W has taken a packet and not delivered it yet.
Held(p) == worker[p].pc \in {"assert", "deliver"}

\* The packets of pin p are the same, but that W may have dropped its own.
Kept(p) == /\ queue'[p] = queue[p] /\ down'[p].last = down[p].last
           /\ Held(p)' => Held(p) /\ worker'[p].pkt = worker[p].pkt
Took(p) == /\ queue[p] # <<>> /\ queue'[p] = Tail(queue[p]) /\ down'[p].last = down[p].last
           /\ ~Held(p)
           /\ Held(p)' => worker'[p].pkt = Head(queue[p])
Delivered(p) == /\ queue'[p] = queue[p] /\ down'[p].last = worker[p].pkt
                /\ Held(p) /\ ~Held(p)'
Emptied(p) == /\ queue'[p] = <<>> /\ down'[p].last = down[p].last
              /\ Held(p)' => Held(p) /\ worker'[p].pkt = worker[p].pkt
Grown(p, k) == /\ queue'[p] = Append(queue[p], k) /\ down'[p].last = down[p].last
               /\ Held(p)' => Held(p) /\ worker'[p].pkt = worker[p].pkt

LEMMA Indices ==
    ASSUME NEW s \in Seq(PacketType), NEW k \in PacketType
    PROVE  /\ Len(s) \in Nat
           /\ \A i \in 1 .. Len(s) : s[i] \in PacketType
           /\ Len(Append(s, k)) = Len(s) + 1
           /\ \A i \in 1 .. Len(s) : Append(s, k)[i] = s[i]
           /\ Append(s, k)[Len(s) + 1] = k
           /\ s # <<>> => /\ Len(s) > 0 /\ Head(s) = s[1] /\ Len(Tail(s)) = Len(s) - 1
                          /\ \A i \in 1 .. Len(s) - 1 : Tail(s)[i] = s[i + 1]
  OBVIOUS

LEMMA Typed ==
    ASSUME IInv, NEW p \in Pins
    PROVE  /\ queue[p] \in Seq(PacketType)
           /\ worker[p].pkt \in PacketType /\ down[p].last \in PacketType
           /\ split.pass \in Nat /\ split.pos[p] \in 0 .. FileLength
           /\ down[p].seg \in Nat /\ FileLength \in Nat
  BY SizeAssumption DEF IInv, TypeOK, QueueType, WorkerType, DownType, SplitType

LEMMA WorkerPackets ==
    ASSUME IInv, NEW p \in Pins, WNext(p)
    PROVE  /\ \A q \in Pins \ {p} : Kept(q)
           /\ \/ WTake(p) /\ Took(p)
              \/ WAccepted(p) /\ Delivered(p)
              \/ ~WAccepted(p) /\ ~WTake(p) /\ Kept(p)
           /\ \A q \in Pins : down'[q].seg = down[q].seg
<1>w. /\ down \in [Pins -> [run : BOOLEAN, flush : BOOLEAN, seg : Nat, last : PacketType, fails : BOOLEAN]]
      /\ queue \in [Pins -> Seq(PacketType)]
  BY DEF IInv, TypeOK, DownType, QueueType
<1> USE DEF Held, Moved, Done
<1>o. \A q \in Pins \ {p} : worker'[q] = worker[q]
  BY WorkerMoves
<1> DEFINE Apart == \A q \in Pins \ {p} : queue'[q] = queue[q] /\ down'[q] = down[q]
           Same == UNCHANGED queue /\ \A q \in Pins : down'[q].last = down[q].last /\ down'[q].seg = down[q].seg
<1>1. WInit(p) \/ WClear(p) \/ WFlush(p) \/ WExit(p) => Same /\ ~Held(p)'
  <2>1. WInit(p) => Same /\ ~Held(p)'
    BY WorkerMoves DEF WInit
  <2>2. WClear(p) => Same /\ ~Held(p)'
    BY WorkerMoves DEF WClear
  <2>3. ASSUME WFlush(p) PROVE Same /\ ~Held(p)'
    <3>1. \A q \in Pins : down'[q] = IF q = p THEN [down[p] EXCEPT !.flush = FALSE] ELSE down[q]
      BY <1>w, <2>3 DEF WFlush
    <3>2. UNCHANGED queue /\ ~Held(p)'
      BY WorkerMoves, <2>3 DEF WFlush
    <3>3. \A q \in Pins : down'[q].last = down[q].last /\ down'[q].seg = down[q].seg
      BY <3>1, <1>w
    <3> QED
      BY <3>2, <3>3
  <2>4. WExit(p) => Same /\ ~Held(p)'
    BY WorkerMoves DEF WExit
  <2> QED
    BY <2>1, <2>2, <2>3, <2>4
<1>2. WTake(p) => Apart /\ Took(p) /\ UNCHANGED down
  BY WorkerMoves, <1>w DEF WTake, Took
<1>3. WEmpty(p) \/ WRefused(p) \/ WWait(p) \/ WReport(p) \/ WFail(p) => Same /\ ~Held(p)'
  <2>1. WEmpty(p) => Same /\ ~Held(p)'
    BY WorkerMoves DEF WEmpty
  <2>2. WRefused(p) => Same /\ ~Held(p)'
    BY WorkerMoves DEF WRefused
  <2>3. WWait(p) => Same /\ ~Held(p)'
    BY WorkerMoves DEF WWait
  <2>4. WReport(p) => Same /\ ~Held(p)'
    BY WorkerMoves DEF WReport
  <2>5. WFail(p) => Same /\ ~Held(p)'
    BY WorkerMoves DEF WFail
  <2> QED
    BY <2>1, <2>2, <2>3, <2>4, <2>5
<1>4. WAssert(p) => Same /\ Held(p) /\ worker'[p].pkt = worker[p].pkt
  BY WorkerMoves DEF WAssert
<1>5. ASSUME WAccepted(p)
      PROVE  Apart /\ Delivered(p) /\ \A q \in Pins : down'[q].seg = down[q].seg
  <2>1. \A q \in Pins : down'[q] = IF q = p THEN [down[p] EXCEPT !.last = worker[p].pkt] ELSE down[q]
    BY <1>w, <1>5 DEF WAccepted
  <2>2. UNCHANGED queue /\ Held(p) /\ ~Held(p)'
    BY WorkerMoves, <1>5 DEF WAccepted
  <2>3. Apart /\ \A q \in Pins : down'[q].seg = down[q].seg
    BY <2>1, <2>2, <1>w
  <2>4. Delivered(p)
    BY <2>1, <2>2, <1>w DEF Delivered
  <2> QED
    BY <2>3, <2>4
<1>6. WAccepted(p) => ~WTake(p)
  BY DEF WAccepted, WTake
<1>7. \A q \in Pins \ {p} : worker'[q] = worker[q] /\ (Held(q)' => Held(q))
  BY <1>o
<1>11. Apart => \A q \in Pins \ {p} : Kept(q)
  BY <1>7 DEF Kept
<1>8. CASE WTake(p)
  BY <1>2, <1>8, <1>11
<1>9. CASE WAccepted(p)
  BY <1>5, <1>9, <1>11
<1>10. CASE ~WTake(p) /\ ~WAccepted(p)
  <2> HIDE DEF Held
  <2>1. Same /\ (Held(p)' => Held(p) /\ worker'[p].pkt = worker[p].pkt)
    BY <1>1, <1>3, <1>4, <1>10 DEF WNext, WGoOn
  <2> QED
    BY <2>1, <1>7, <1>10 DEF Kept
<1> QED
  BY <1>8, <1>9, <1>10

LEMMA SplitPackets ==
    ASSUME IInv, SNext
    PROVE  /\ UNCHANGED <<worker, app, early, overtaken, pinFlags, exitReq>>
           /\ \A p \in Pins : down'[p].last = down[p].last /\ down'[p].run = down[p].run
                              /\ down'[p].flush = down[p].flush /\ down'[p].fails = down[p].fails
           /\ ~SAdd => UNCHANGED queue
           /\ ~SSegment => UNCHANGED down
<1>a. UNCHANGED <<worker, app, early, overtaken, pinFlags, exitReq>>
  BY DEF SNext, SInit, SBroken, SSeek, SFlushWait, SSegment, SSegmentDone, SDemux, SDemuxDone, SEnd,
         SQueue, SAdd, SRequest, OnlyS, wvars, avars
<1>b. /\ ~SAdd => UNCHANGED queue
      /\ ~SSegment => UNCHANGED down
  BY DEF SNext, SInit, SBroken, SSeek, SFlushWait, SSegment, SSegmentDone, SDemux, SDemuxDone, SEnd,
         SQueue, SAdd, SRequest
<1>c. SSegment => \A p \in Pins : down'[p].last = down[p].last /\ down'[p].run = down[p].run
                              /\ down'[p].flush = down[p].flush /\ down'[p].fails = down[p].fails
  BY DEF IInv, TypeOK, DownType, SSegment
<1> QED
  BY <1>a, <1>b, <1>c

LEMMA AppPackets ==
    ASSUME IInv, Control, ANext
    PROVE  /\ \A p \in Pins : down'[p].last = down[p].last /\ down'[p].seg = down[p].seg
                              /\ down'[p].fails = down[p].fails
           /\ ~AStart => UNCHANGED <<worker, split>>
           /\ \A p \in Pins : worker'[p].pkt = worker[p].pkt /\ worker'[p].ok = worker[p].ok
           /\ \A p \in Pins : (ADeny /\ p = app.pin /\ Emptied(p)) \/ Kept(p)
           /\ active' = active
           /\ ~ADeny => UNCHANGED queue
<1>w. /\ down \in [Pins -> [run : BOOLEAN, flush : BOOLEAN, seg : Nat, last : PacketType, fails : BOOLEAN]]
      /\ queue \in [Pins -> Seq(PacketType)]
      /\ worker \in [Pins -> [pc : WStates, pkt : PacketType, cnt : Nat, ok : BOOLEAN]]
  BY DEF IInv, TypeOK, DownType, QueueType, WorkerType
<1>a. /\ ~AStart => UNCHANGED <<worker, split>>
      /\ ~ADeny => UNCHANGED queue
      /\ active' = active
  BY DEF ANext, AContinue, AStart, ASeek, AStop, BeginFlush, AReset, ADeny, AFlushDown, ACall,
         AAnswered, AEndDown, AAllow, AEndFlush, AEnded, AInactive, AJoin, OnlyA, wvars
<1> DEFINE Like == \A p \in Pins : down'[p].last = down[p].last /\ down'[p].seg = down[p].seg
                                    /\ down'[p].fails = down[p].fails
<1>b. Like
  <2>1. UNCHANGED down => Like
    OBVIOUS
  <2>2. AStart => Like
    BY <1>w DEF AStart
  <2>3. ASSUME AStop PROVE Like
    <3> SUFFICES ASSUME NEW q \in Pins
                 PROVE  down'[q].last = down[q].last /\ down'[q].seg = down[q].seg
                        /\ down'[q].fails = down[q].fails
      OBVIOUS
    <3>1. down'[q] = [down[q] EXCEPT !.run = FALSE, !.flush = FALSE]
      BY <2>3 DEF AStop
    <3>2. down[q] \in [run : BOOLEAN, flush : BOOLEAN, seg : Nat, last : PacketType, fails : BOOLEAN]
      BY <1>w
    <3> QED
      BY <3>1, <3>2
  <2>4. ASSUME NEW b \in BOOLEAN, down' = [down EXCEPT ![app.pin].flush = b] PROVE Like
    <3>1. \A q \in Pins : down'[q] = IF q = app.pin THEN [down[q] EXCEPT !.flush = b] ELSE down[q]
      BY <1>w, <2>4
    <3> QED
      BY <3>1, <1>w
  <2>5. AFlushDown => Like
    BY <2>1, <2>4 DEF AFlushDown
  <2>6. AEndDown => Like
    BY <2>1, <2>4 DEF AEndDown
  <2>7. ~(AStart \/ AStop \/ AFlushDown \/ AEndDown) => UNCHANGED down
    BY DEF ANext, AContinue, ASeek, AReset, ADeny, ACall, AAnswered, AAllow, AEndFlush, AEnded,
           AInactive, AJoin
  <2> QED
    BY <2>1, <2>2, <2>3, <2>5, <2>6, <2>7
<1>c. AStart => \A p \in Pins : ~Held(p)' /\ worker'[p].pkt = worker[p].pkt /\ worker'[p].ok = worker[p].ok
  BY <1>w DEF AStart, Held
<1>d. ADeny => \A p \in Pins : queue'[p] = IF p = app.pin THEN <<>> ELSE queue[p]
  BY <1>w DEF ADeny
<1>e. \A p \in Pins : (ADeny /\ p = app.pin /\ Emptied(p)) \/ Kept(p)
  <2>1. CASE ADeny
    <3>1. UNCHANGED worker
      BY <2>1 DEF ADeny, wvars
    <3> QED
      BY <1>b, <1>d, <2>1, <3>1 DEF Emptied, Kept, Held
  <2>2. CASE ~ADeny
    BY <1>a, <1>b, <1>c, <2>2 DEF Kept, Held
  <2> QED
    BY <2>1, <2>2
<1> QED
  BY <1>a, <1>b, <1>c, <1>e

-----------------------------------------------------------------------------
(***************************************************************************)
(* The order of the packets.                                               *)
(***************************************************************************)
\* Downstream, in the hands of W, in the queue: each packet comes after those
\* before it.
Sorted(p) ==
    /\ \A i, j \in 1 .. Len(queue[p]) : i < j => After(queue[p][j], queue[p][i])
    /\ \A i \in 1 .. Len(queue[p]) : After(queue[p][i], down[p].last)
    /\ \A i \in 1 .. Len(queue[p]) : Held(p) => After(queue[p][i], worker[p].pkt)
    /\ Held(p) => After(worker[p].pkt, down[p].last)

\* The number of the last packet of this pass that S has added to the queue of
\* pin p, or that it would have added if it had not dropped it.
Added(p) ==
    IF split.pc \in {"flushWait", "segment"} THEN -1
    ELSE IF split.pc = "demux" THEN split.pos[p]
    ELSE IF split.pc \in {"queue", "add"} /\ ~split.eos
         THEN IF p = split.pin THEN split.pos[p] - 1 ELSE split.pos[p]
    ELSE IF \/ split.pc \in {"end", "queue", "add"} /\ p \in split.todo
            \/ split.pc \in {"queue", "add"} /\ p = split.pin
         THEN FileLength
    ELSE EndOfStream
Behind(p, k) == k.pass < split.pass \/ (k.pass = split.pass /\ k.n <= Added(p))
BehindS(p) == /\ Behind(p, down[p].last)
              /\ Held(p) => Behind(p, worker[p].pkt)
              /\ \A i \in 1 .. Len(queue[p]) : Behind(p, queue[p][i])

\* The locals of S.
Locals ==
    /\ split.eos => split.pc \in {"queue", "add"} /\ split.pin \notin split.todo
    /\ split.pc \in {"queue", "add"} => split.pin \in active
    /\ split.pc = "end" \/ split.eos => split.todo \subseteq active
    /\ split.pc \in {"flushWait", "segment"} => \A p \in Pins : split.pos[p] = 0

Ordered == (\A p \in Pins : Sorted(p) /\ BehindS(p)) /\ Locals

LEMMA OrderedStarted == Init => Ordered
<1> SUFFICES ASSUME Init PROVE Ordered
  OBVIOUS
<1>1. Locals
  BY DEF Init, Locals
<1>2. /\ split.pc = "none" /\ split.pass = 0
      /\ \A p \in Pins : Len(queue[p]) = 0 /\ ~Held(p) /\ down[p].last = NoPacket
  BY EmptySeq DEF Init, Held
<1>3. ASSUME NEW p \in Pins PROVE Sorted(p) /\ BehindS(p)
  BY <1>2, SizeAssumption DEF Sorted, BehindS, Behind, Added, NoPacket, Packet, EndOfStream
<1> QED
  BY <1>1, <1>3 DEF Ordered

\* What a step may do with the packets of a pin without disturbing their order.
LEMMA StillSorted ==
    ASSUME IInv, NEW p \in Pins, Sorted(p), Kept(p) \/ Took(p) \/ Delivered(p) \/ Emptied(p)
    PROVE  Sorted(p)'
<1> USE DEF Sorted, After
<1>t. queue[p] \in Seq(PacketType)
  BY Typed
<1>1. CASE Kept(p)
  BY <1>1 DEF Kept
<1>2. CASE Took(p)
  <2>1. /\ Len(queue'[p]) = Len(queue[p]) - 1 /\ Len(queue[p]) \in Nat /\ Len(queue[p]) > 0
        /\ \A i \in 1 .. Len(queue'[p]) : queue'[p][i] = queue[p][i + 1]
        /\ Head(queue[p]) = queue[p][1]
    BY <1>2, <1>t, Indices, Typed DEF Took
  <2>2. \A i, j \in 1 .. Len(queue'[p]) : i < j => After(queue'[p][j], queue'[p][i])
    <3> SUFFICES ASSUME NEW i \in 1 .. Len(queue'[p]), NEW j \in 1 .. Len(queue'[p]), i < j
                 PROVE  After(queue'[p][j], queue'[p][i])
      OBVIOUS
    <3>1. i + 1 \in 1 .. Len(queue[p]) /\ j + 1 \in 1 .. Len(queue[p]) /\ i + 1 < j + 1
      BY <2>1
    <3> HIDE DEF After
    <3> QED
      BY <2>1, <3>1
  <2>3. \A i \in 1 .. Len(queue'[p]) : i + 1 \in 1 .. Len(queue[p]) /\ i + 1 > 1 /\ 1 \in 1 .. Len(queue[p])
    BY <2>1
  <2> HIDE DEF After
  <2>4. \A i \in 1 .. Len(queue'[p]) : After(queue'[p][i], queue[p][1]) /\ After(queue'[p][i], down[p].last)
    BY <2>1, <2>3
  <2>5. Held(p)' => After(queue[p][1], down[p].last) /\ worker'[p].pkt = queue[p][1]
    <3>1. 1 \in 1 .. Len(queue[p])
      BY <2>1
    <3> QED
      BY <1>2, <2>1, <3>1 DEF Took
  <2> QED
    BY <1>2, <2>2, <2>4, <2>5 DEF Took
<1>3. CASE Delivered(p)
  BY <1>3 DEF Delivered
<1>4. CASE Emptied(p)
  <2>1. Len(queue'[p]) = 0
    BY <1>4, EmptySeq DEF Emptied
  <2> QED
    BY <1>4, <2>1 DEF Emptied
<1> QED
  BY <1>1, <1>2, <1>3, <1>4

LEMMA AddedNumber == IInv => \A p \in Pins : Added(p) \in Int
  BY SizeAssumption, Typed DEF Added, EndOfStream

LEMMA StillBehind ==
    ASSUME IInv, IInv', NEW p \in Pins, BehindS(p), Kept(p) \/ Took(p) \/ Delivered(p) \/ Emptied(p),
           split'.pass > split.pass \/ (split'.pass = split.pass /\ Added(p)' >= Added(p))
    PROVE  BehindS(p)'
<1> DEFINE B(k) == k.pass < split.pass \/ (k.pass = split.pass /\ k.n <= Added(p))
           C(k) == k.pass < split'.pass \/ (k.pass = split'.pass /\ k.n <= Added(p)')
<1>t. /\ queue[p] \in Seq(PacketType) /\ worker[p].pkt \in PacketType /\ down[p].last \in PacketType
      /\ \A i \in 1 .. Len(queue[p]) : queue[p][i] \in PacketType
      /\ split.pass \in Nat /\ split'.pass \in Nat
  BY Typed, Indices DEF IInv, TypeOK, SplitType
<1>n. Added(p) \in Int /\ Added(p)' \in Int
  <2>1. FileLength \in Nat /\ split'.pos[p] \in 0 .. FileLength
    BY SizeAssumption DEF IInv, TypeOK, SplitType
  <2>2. Added(p)' \in Int
    BY <2>1 DEF Added, EndOfStream
  <2> QED
    BY <2>2, AddedNumber
<1>k. \A k \in PacketType : B(k) => C(k)
  BY <1>t, <1>n, SizeAssumption DEF PacketType, EndOfStream
<1>i. /\ B(down[p].last)
      /\ Held(p) => B(worker[p].pkt)
      /\ \A i \in 1 .. Len(queue[p]) : B(queue[p][i])
  BY DEF BehindS, Behind
<1>j. ASSUME C(down'[p].last), Held(p)' => C(worker'[p].pkt),
             \A i \in 1 .. Len(queue'[p]) : C(queue'[p][i])
      PROVE  BehindS(p)'
  BY <1>j DEF BehindS, Behind
<1> HIDE DEF B, C
<1>1. CASE Kept(p)
  BY <1>1, <1>t, <1>i, <1>j, <1>k DEF Kept
<1>2. CASE Took(p)
  <2>1. /\ Len(queue'[p]) = Len(queue[p]) - 1 /\ Len(queue[p]) \in Nat /\ Len(queue[p]) > 0
        /\ \A i \in 1 .. Len(queue'[p]) : queue'[p][i] = queue[p][i + 1]
        /\ Head(queue[p]) = queue[p][1]
    BY <1>2, <1>t, Indices, Typed DEF Took
  <2>2. \A i \in 1 .. Len(queue'[p]) : i + 1 \in 1 .. Len(queue[p])
    BY <2>1
  <2>3. 1 \in 1 .. Len(queue[p])
    BY <2>1
  <2>4. \A i \in 1 .. Len(queue'[p]) : C(queue'[p][i])
    BY <1>i, <1>k, <1>t, <2>1, <2>2
  <2>5. C(down'[p].last) /\ (Held(p)' => C(worker'[p].pkt))
    BY <1>2, <1>i, <1>k, <1>t, <2>1, <2>3 DEF Took
  <2> QED
    BY <1>j, <2>4, <2>5
<1>3. CASE Delivered(p)
  BY <1>3, <1>t, <1>i, <1>j, <1>k DEF Delivered
<1>4. CASE Emptied(p)
  <2>1. Len(queue'[p]) = 0
    BY <1>4, EmptySeq DEF Emptied
  <2> QED
    BY <1>4, <1>t, <1>i, <1>j, <1>k, <2>1 DEF Emptied
<1> QED
  BY <1>1, <1>2, <1>3, <1>4

LEMMA OrderedW ==
    ASSUME IInv, Ordered, NEW p \in Pins, WNext(p)
    PROVE  Ordered'
<1>1. IInv'
  BY WorkerStep
<1>2. UNCHANGED <<split, active>>
  BY WorkerMoves
<1>3. Locals'
  BY <1>2 DEF Ordered, Locals
<1>4. \A q \in Pins : Added(q)' = Added(q) /\ Added(q) \in Int
  BY <1>2, AddedNumber DEF Added
<1>5. \A q \in Pins : Kept(q) \/ Took(q) \/ Delivered(q) \/ Emptied(q)
  BY WorkerPackets
<1>6. ASSUME NEW q \in Pins PROVE Sorted(q)' /\ BehindS(q)'
  <2>1. Sorted(q) /\ BehindS(q)
    BY DEF Ordered
  <2>2. split'.pass = split.pass /\ Added(q)' >= Added(q)
    BY <1>2, <1>4
  <2> QED
    BY <1>1, <1>5, <2>1, <2>2, StillSorted, StillBehind
<1> QED
  BY <1>3, <1>6 DEF Ordered

LEMMA OrderedA ==
    ASSUME IInv, Control, Ordered, ANext
    PROVE  Ordered'
<1>1. IInv'
  BY AppStep
<1>2. /\ split'.pass = split.pass /\ \A p \in Pins : Added(p)' = Added(p)
      /\ Locals'
  <2>1. CASE AStart
    <3>1. split.pc = "none" /\ split' = [split EXCEPT !.pc = "init"] /\ active' = active
      BY <2>1 DEF AStart, Control, Demuxer
    <3>2. /\ split'.pc = "init" /\ split'.pass = split.pass /\ split'.pos = split.pos
          /\ split'.todo = split.todo /\ split'.pin = split.pin /\ split'.eos = split.eos
      BY <3>1 DEF IInv, TypeOK, SplitType
    <3> QED
      BY <3>1, <3>2 DEF Ordered, Added, Locals
  <2>2. CASE ~AStart
    <3>1. UNCHANGED <<split, active>>
      BY <2>2, AppPackets
    <3> QED
      BY <3>1 DEF Ordered, Added, Locals
  <2> QED
    BY <2>1, <2>2
<1>5. \A q \in Pins : Kept(q) \/ Took(q) \/ Delivered(q) \/ Emptied(q)
  BY AppPackets
<1>6. ASSUME NEW q \in Pins PROVE Sorted(q)' /\ BehindS(q)'
  <2>1. Sorted(q) /\ BehindS(q)
    BY DEF Ordered
  <2>2. split'.pass = split.pass /\ Added(q)' >= Added(q)
    BY <1>2, AddedNumber
  <2> QED
    BY <1>1, <1>5, <2>1, <2>2, StillSorted, StillBehind
<1> QED
  BY <1>2, <1>6 DEF Ordered

\* What S adds comes after all that it has added before.
LEMMA OrderedAdd ==
    ASSUME IInv, Ordered, SAdd
    PROVE  Ordered'
<1>p. PICK p \in Pins : p = split.pin
  BY DEF SAdd, IInv, TypeOK, SplitType
<1> DEFINE k == Packet(split.pass, IF split.eos THEN EndOfStream ELSE split.pos[p])
<1>w. /\ split \in [pc : SStates, pass : Nat, cmd : BOOLEAN, pos : [Pins -> 0 .. FileLength],
                    todo : SUBSET Pins, pin : Pins \cup {0}, eos : BOOLEAN]
      /\ p \in Pins /\ split.pin = p /\ split.pc = "add" /\ FileLength \in Nat
      /\ queue \in [Pins -> Seq(PacketType)]
  BY <1>p, SizeAssumption DEF SAdd, IInv, TypeOK, SplitType, QueueType
<1>1. IInv'
  BY DemuxerStep DEF SNext
<1>2. /\ split' = [split EXCEPT !.pc = IF split.eos THEN "end" ELSE "demux", !.pin = 0, !.eos = FALSE]
      /\ active' = IF hrOk[p] \/ split.eos THEN active ELSE active \ {p}
  BY <1>p DEF SAdd, Returned
<1>3. /\ split'.pc = (IF split.eos THEN "end" ELSE "demux") /\ split'.pass = split.pass
      /\ split'.pos = split.pos /\ split'.todo = split.todo /\ split'.eos = FALSE
  BY <1>2, <1>w
<1>4. Locals'
  BY <1>2, <1>3 DEF Ordered, Locals
<1>5. /\ \A q \in Pins : queue'[q] = IF q = p THEN Append(queue[p], k) ELSE queue[q]
      /\ UNCHANGED <<worker, down>>
  <2>1. queue' = [queue EXCEPT ![p] = Append(queue[p], k)]
    BY <1>w DEF SAdd
  <2>2. UNCHANGED <<worker, down>>
    BY DEF SAdd, OnlyS, wvars
  <2> QED
    BY <1>w, <2>1, <2>2
<1>6. k.pass = split.pass /\ k.n = (IF split.eos THEN EndOfStream ELSE split.pos[p]) /\ k \in PacketType
  BY <1>w DEF Packet, PacketType, EndOfStream
<1>7. /\ split.pos[p] \in 0 .. FileLength
      /\ Added(p) = (IF split.eos THEN FileLength ELSE split.pos[p] - 1)
      /\ Added(p)' >= k.n
  <2>1. split.pos[p] \in 0 .. FileLength
    BY <1>w
  <2>2. Added(p) = (IF split.eos THEN FileLength ELSE split.pos[p] - 1)
    BY <1>w DEF Added
  <2>3. split.eos => p \notin split.todo
    BY <1>w DEF Ordered, Locals
  <2>4. Added(p)' >= k.n
    BY <1>w, <1>3, <1>6, <2>1, <2>3 DEF Added, EndOfStream
  <2> QED
    BY <2>1, <2>2, <2>4
\* A packet that is behind S comes before the new one, and stays behind S.
<1>8. \A l \in PacketType : Behind(p, l) => After(k, l) /\ (l.pass < split.pass \/ (l.pass = split.pass /\ l.n <= k.n))
  BY <1>w, <1>6, <1>7 DEF Behind, After, PacketType, EndOfStream
<1>t. /\ queue[p] \in Seq(PacketType) /\ worker[p].pkt \in PacketType /\ down[p].last \in PacketType
      /\ \A i \in 1 .. Len(queue[p]) : queue[p][i] \in PacketType
      /\ Len(queue[p]) \in Nat
      /\ Len(queue'[p]) = Len(queue[p]) + 1
      /\ \A i \in 1 .. Len(queue[p]) : queue'[p][i] = queue[p][i]
      /\ queue'[p][Len(queue[p]) + 1] = k
  <2>1. queue[p] \in Seq(PacketType) /\ worker[p].pkt \in PacketType /\ down[p].last \in PacketType
    BY Typed
  <2>2. queue'[p] = Append(queue[p], k) /\ k \in PacketType
    BY <1>5, <1>6
  <2> HIDE DEF k
  <2> QED
    BY <2>1, <2>2, Indices
<1>b. BehindS(p) /\ Sorted(p)
  BY <1>w DEF Ordered
<1>9. /\ After(k, down[p].last)
      /\ Held(p) => After(k, worker[p].pkt)
      /\ \A i \in 1 .. Len(queue[p]) : After(k, queue[p][i])
  BY <1>8, <1>t, <1>b DEF BehindS
<1>i. \A i \in 1 .. Len(queue'[p]) : i \in 1 .. Len(queue[p]) \/ i = Len(queue[p]) + 1
  BY <1>t
<1>10. Sorted(p)'
  <2>1. \A i, j \in 1 .. Len(queue'[p]) : i < j => After(queue'[p][j], queue'[p][i])
    <3> SUFFICES ASSUME NEW i \in 1 .. Len(queue'[p]), NEW j \in 1 .. Len(queue'[p]), i < j
                 PROVE  After(queue'[p][j], queue'[p][i])
      OBVIOUS
    <3>1. i \in 1 .. Len(queue[p])
      BY <1>t
    <3>2. CASE j \in 1 .. Len(queue[p])
      BY <1>t, <1>b, <3>1, <3>2 DEF Sorted
    <3>3. CASE j = Len(queue[p]) + 1
      BY <1>t, <1>9, <3>1, <3>3
    <3> QED
      BY <1>i, <3>2, <3>3
  <2>2. \A i \in 1 .. Len(queue'[p]) : After(queue'[p][i], down[p].last)
    BY <1>t, <1>b, <1>9, <1>i DEF Sorted
  <2>3. \A i \in 1 .. Len(queue'[p]) : Held(p) => After(queue'[p][i], worker[p].pkt)
    BY <1>t, <1>b, <1>9, <1>i DEF Sorted
  <2> HIDE DEF k
  <2> QED
    BY <1>5, <1>b, <2>1, <2>2, <2>3 DEF Sorted, Held
<1>11. BehindS(p)'
  <2> DEFINE C(l) == l.pass < split.pass \/ (l.pass = split.pass /\ l.n <= Added(p)')
  <2>1. Added(p)' \in Int
    BY <1>1, <1>w, <1>3 DEF Added, EndOfStream
  <2>2. \A l \in PacketType : Behind(p, l) => C(l)
    BY <1>7, <1>8, <1>6, <2>1 DEF PacketType, EndOfStream
  <2>3. C(k)
    BY <1>6, <1>7
  <2>4. /\ C(down[p].last)
        /\ Held(p) => C(worker[p].pkt)
        /\ \A i \in 1 .. Len(queue'[p]) : C(queue'[p][i])
    <3> HIDE DEF C
    <3> QED
      BY <1>t, <1>b, <1>i, <2>2, <2>3 DEF BehindS
  <2> HIDE DEF k
  <2> QED
    BY <1>3, <1>5, <2>4 DEF BehindS, Behind, Held
<1>12. ASSUME NEW q \in Pins, q # p PROVE Sorted(q)' /\ BehindS(q)'
  <2>1. Kept(q)
    BY <1>5, <1>12 DEF Kept, Held
  <2>2. split'.pass = split.pass /\ Added(q)' >= Added(q)
    BY <1>w, <1>3, <1>12 DEF Added, EndOfStream
  <2> QED
    BY <1>1, <2>1, <2>2, StillSorted, StillBehind DEF Ordered
<1> QED
  BY <1>4, <1>10, <1>11, <1>12, <1>w DEF Ordered

LEMMA OrderedS ==
    ASSUME IInv, Ordered, SNext
    PROVE  Ordered'
<1>w. /\ split \in [pc : SStates, pass : Nat, cmd : BOOLEAN, pos : [Pins -> 0 .. FileLength],
                    todo : SUBSET Pins, pin : Pins \cup {0}, eos : BOOLEAN]
      /\ split.pc \in {"queue", "add"} => split.pin # 0
      /\ active \subseteq Pins /\ FileLength \in Nat
      /\ \A p \in Pins : split.pos[p] \in 0 .. FileLength
      /\ \A p \in Pins : p # 0
  <2>1. \A p \in Pins : p # 0
    BY DEF Pins
  <2> QED
    BY <2>1, SizeAssumption DEF IInv, TypeOK, SplitType
<1>l. Locals
  BY DEF Ordered
<1>1. IInv'
  BY DemuxerStep
\* It is enough that S does not go back.
<1>2. ASSUME ~SAdd, Locals',
             split'.pass > split.pass
             \/ (split'.pass = split.pass /\ \A p \in Pins : Added(p)' >= Added(p))
      PROVE  Ordered'
  <2>1. ASSUME NEW p \in Pins PROVE Sorted(p)' /\ BehindS(p)'
    <3>1. Kept(p)
      BY <1>2, SplitPackets DEF Kept, Held
    <3> QED
      BY <1>1, <1>2, <3>1, StillSorted, StillBehind DEF Ordered
  <2> QED
    BY <1>2, <2>1 DEF Ordered
<1>n. \A p \in Pins : Added(p) \in Int
  BY AddedNumber
<1>3. CASE SInit \/ SBroken \/ SRequest
  <2>1. /\ split.pc \in {"init", "broken", "idle"} /\ split'.pc \in {"none", "seek", "broken"}
        /\ split'.pass = split.pass /\ split'.eos = split.eos /\ split'.todo = split.todo
        /\ ~SAdd
    <3>1. CASE SInit
      BY <1>w, <3>1 DEF SInit, SGo, SAdd
    <3>2. CASE SBroken
      BY <1>w, <3>2 DEF SBroken, SGo, SAdd
    <3>3. CASE SRequest
      BY <1>w, <3>3 DEF SRequest, SGo, SAdd
    <3> QED
      BY <1>3, <3>1, <3>2, <3>3
  <2>2. Locals' /\ \A p \in Pins : Added(p)' = Added(p)
    BY <1>l, <2>1 DEF Locals, Added
  <2> QED
    BY <1>2, <1>n, <2>1, <2>2
<1>4. CASE SSeek
  <2>1. /\ ~SAdd /\ split.pc = "seek" /\ split'.pc = "flushWait" /\ split'.pass = split.pass + 1
        /\ split'.pos = [p \in Pins |-> 0] /\ split'.eos = split.eos
    BY <1>w, <1>4 DEF SSeek, SAdd
  <2>2. Locals' /\ split'.pass > split.pass
    BY <1>l, <1>w, <2>1 DEF Locals
  <2> QED
    BY <1>2, <2>1, <2>2
<1>5. CASE SFlushWait
  <2>1. /\ ~SAdd /\ split.pc = "flushWait" /\ split'.pc = "segment" /\ split'.pass = split.pass
        /\ split'.pos = split.pos /\ split'.eos = split.eos
    BY <1>w, <1>5 DEF SFlushWait, SAdd
  <2>2. Locals' /\ \A p \in Pins : Added(p)' = Added(p)
    BY <1>l, <2>1 DEF Locals, Added
  <2> QED
    BY <1>2, <1>n, <2>1, <2>2
<1>6. CASE SSegment
  <2>1. /\ ~SAdd /\ split.pc = "segment" /\ split'.pc = "segment" /\ split'.pass = split.pass
        /\ split'.pos = split.pos /\ split'.eos = split.eos
    BY <1>w, <1>6 DEF SSegment, SAdd
  <2>2. Locals' /\ \A p \in Pins : Added(p)' = Added(p)
    BY <1>l, <2>1 DEF Locals, Added
  <2> QED
    BY <1>2, <1>n, <2>1, <2>2
<1>7. CASE SSegmentDone
  <2>1. /\ ~SAdd /\ split.pc = "segment" /\ split'.pc = "demux" /\ split'.pass = split.pass
        /\ split'.pos = split.pos /\ split'.eos = split.eos
    BY <1>w, <1>7 DEF SSegmentDone, SGo, SAdd
  <2>2. Locals' /\ \A p \in Pins : Added(p)' >= Added(p)
    BY <1>l, <1>w, <2>1 DEF Locals, Added
  <2> QED
    BY <1>2, <2>1, <2>2
<1>8. ASSUME NEW p \in Pins, SDemux(p) PROVE Ordered'
  <2>1. /\ ~SAdd /\ split.pc = "demux" /\ split'.pass = split.pass /\ split'.eos = split.eos
        /\ split'.todo = split.todo /\ active' = active
        /\ split'.pos = [split.pos EXCEPT ![p] = split.pos[p] + 1]
        /\ split'.pc = (IF p \in active THEN "queue" ELSE "demux")
        /\ p \in active => split'.pin = p
    BY <1>w, <1>8 DEF SDemux, SAdd
  <2>2. \A q \in Pins : split'.pos[q] = IF q = p THEN split.pos[q] + 1 ELSE split.pos[q]
    BY <1>w, <2>1
  <2>3. \A q \in Pins : Added(q)' >= Added(q)
    BY <1>l, <1>w, <2>1, <2>2 DEF Added, Locals
  <2>4. Locals'
    BY <1>l, <2>1 DEF Locals
  <2> QED
    BY <1>2, <2>1, <2>3, <2>4
<1>9. CASE SDemuxDone
  <2>1. /\ ~SAdd /\ split.pc = "demux" /\ split'.pc = "end" /\ split'.pass = split.pass
        /\ split'.eos = split.eos /\ split'.todo = active /\ active' = active
    BY <1>w, <1>9 DEF SDemuxDone, SAdd
  <2>2. Locals'
    BY <1>l, <2>1 DEF Locals
  <2>3. \A p \in Pins : Added(p)' >= Added(p)
    BY <1>w, <2>1 DEF Added, EndOfStream
  <2> QED
    BY <1>2, <2>1, <2>2, <2>3
<1>10. CASE SEnd
  <2>1. ~SAdd /\ split.pc = "end" /\ ~split.eos /\ active' = active
    BY <1>10, <1>l DEF SEnd, SAdd, Locals
  <2>2. CASE request = "none" /\ split.todo # {}
    <3>1. PICK p \in First(split.todo) :
            split' = [split EXCEPT !.pc = "queue", !.pin = p, !.todo = @ \ {p}, !.eos = TRUE]
      BY <1>10, <2>2 DEF SEnd
    <3>2. /\ p \in split.todo /\ split'.pc = "queue" /\ split'.pin = p /\ split'.eos
          /\ split'.todo = split.todo \ {p} /\ split'.pass = split.pass
      BY <1>w, <3>1 DEF First
    <3>3. Locals'
      BY <1>l, <2>1, <3>2 DEF Locals
    <3>4. \A q \in Pins : Added(q)' = Added(q)
      BY <2>1, <3>2 DEF Added
    <3> QED
      BY <1>2, <1>n, <2>1, <3>2, <3>3, <3>4
  <2>3. CASE ~(request = "none" /\ split.todo # {})
    <3>1. split'.pc = "idle" /\ split'.pass = split.pass /\ split'.eos = split.eos
      BY <1>10, <1>w, <2>3 DEF SEnd
    <3>2. Locals'
      BY <1>l, <2>1, <3>1 DEF Locals
    <3>3. \A q \in Pins : Added(q)' >= Added(q)
      BY <1>w, <2>1, <3>1 DEF Added, EndOfStream
    <3> QED
      BY <1>2, <2>1, <3>1, <3>2, <3>3
  <2> QED
    BY <2>2, <2>3
<1>11. CASE SQueue
  <2>1. ~SAdd /\ split.pc = "queue"
    BY <1>11 DEF SQueue, SAdd
  <2>2. CASE hrOk[split.pin]
    <3>1. /\ split'.pc = "add" /\ split'.pass = split.pass /\ split'.eos = split.eos
          /\ split'.todo = split.todo /\ split'.pin = split.pin /\ split'.pos = split.pos
          /\ active' = active
      BY <1>11, <1>w, <2>2 DEF SQueue, SGo
    <3>2. Locals' /\ \A q \in Pins : Added(q)' = Added(q)
      BY <1>l, <2>1, <3>1 DEF Locals, Added
    <3> QED
      BY <1>2, <1>n, <2>1, <3>1, <3>2
  <2>3. CASE ~hrOk[split.pin]
    <3>1. /\ split'.pc = (IF split.eos THEN "end" ELSE "demux") /\ split'.pass = split.pass
          /\ split'.eos = FALSE /\ split'.todo = split.todo /\ split'.pos = split.pos
          /\ split.eos => active' = active
      BY <1>11, <1>w, <2>3 DEF SQueue, Returned
    <3>2. Locals'
      BY <1>l, <2>1, <3>1 DEF Locals
    <3>3. \A q \in Pins : Added(q)' >= Added(q)
      BY <1>l, <1>w, <2>1, <3>1 DEF Locals, Added, EndOfStream
    <3> QED
      BY <1>2, <2>1, <3>1, <3>2, <3>3
  <2> QED
    BY <2>2, <2>3
<1> QED
  BY <1>3, <1>4, <1>5, <1>6, <1>7, <1>8, <1>9, <1>10, <1>11, OrderedAdd DEF SNext

-----------------------------------------------------------------------------
(***************************************************************************)
(* Where a step leaves the flags of a pin.                                 *)
(***************************************************************************)
LEMMA WorkerFlags ==
    ASSUME IInv, NEW p \in Pins, WNext(p)
    PROVE  /\ \A q \in Pins \ {p} : /\ hrOk'[q] = hrOk[q] /\ flushing'[q] = flushing[q]
                                    /\ flushed'[q] = flushed[q] /\ endFlush'[q] = endFlush[q]
                                    /\ down'[q] = down[q]
           /\ WInit(p) => hrOk'[p]
           /\ WFail(p) => ~hrOk'[p]
           /\ ~WInit(p) /\ ~WFail(p) => hrOk'[p] = hrOk[p]
           /\ WClear(p) => ~flushing'[p] /\ endFlush'[p]
           /\ ~WClear(p) => flushing'[p] = flushing[p] /\ endFlush'[p] = endFlush[p]
           /\ ~WClear(p) /\ ~WAssert(p) => flushed'[p] = flushed[p]
           /\ WFlush(p) => ~down'[p].flush
           /\ ~WFlush(p) => down'[p].flush = down[p].flush
           /\ down'[p].run = down[p].run /\ down'[p].fails = down[p].fails
<1>w. /\ down \in [Pins -> [run : BOOLEAN, flush : BOOLEAN, seg : Nat, last : PacketType, fails : BOOLEAN]]
      /\ down[p] \in [run : BOOLEAN, flush : BOOLEAN, seg : Nat, last : PacketType, fails : BOOLEAN]
      /\ hrOk \in [Pins -> BOOLEAN] /\ flushing \in [Pins -> BOOLEAN]
      /\ flushed \in [Pins -> BOOLEAN] /\ endFlush \in [Pins -> BOOLEAN]
  BY DEF IInv, TypeOK, DownType, FlagType
<1>pc. /\ WInit(p) => worker[p].pc = "init"
       /\ WClear(p) => worker[p].pc = "clear"
       /\ WFlush(p) => worker[p].pc = "flush"
       /\ WAssert(p) => worker[p].pc = "assert"
       /\ WFail(p) => worker[p].pc = "fail"
       /\ WAccepted(p) => worker[p].pc = "deliver"
  BY DEF WInit, WClear, WFlush, WAssert, WFail, WAccepted
<1>1. ASSUME WInit(p) \/ WFail(p)
      PROVE  /\ WInit(p) => hrOk' = [hrOk EXCEPT ![p] = TRUE]
             /\ WFail(p) => hrOk' = [hrOk EXCEPT ![p] = FALSE]
             /\ UNCHANGED <<flushing, flushed, endFlush, down>>
  BY <1>1 DEF WInit, WFail
<1>2. ASSUME WClear(p)
      PROVE  /\ flushing' = [flushing EXCEPT ![p] = FALSE]
             /\ flushed' = [flushed EXCEPT ![p] = FALSE]
             /\ endFlush' = [endFlush EXCEPT ![p] = TRUE]
             /\ UNCHANGED <<hrOk, down>>
  BY <1>2 DEF WClear
<1>3. ASSUME WFlush(p)
      PROVE  /\ \A q \in Pins : down'[q] = IF q = p THEN [down[p] EXCEPT !.flush = FALSE] ELSE down[q]
             /\ UNCHANGED pinFlags
  BY <1>3, <1>w DEF WFlush
<1>4. ASSUME WAccepted(p)
      PROVE  /\ \A q \in Pins : down'[q] = IF q = p THEN [down[p] EXCEPT !.last = worker[p].pkt] ELSE down[q]
             /\ UNCHANGED pinFlags
  BY <1>4, <1>w DEF WAccepted
<1>5. ASSUME WAssert(p)
      PROVE  flushed' = [flushed EXCEPT ![p] = FALSE] /\ UNCHANGED <<hrOk, flushing, endFlush, down>>
  BY <1>5 DEF WAssert
<1>6. ASSUME WExit(p) \/ WTake(p) \/ WEmpty(p) \/ WRefused(p) \/ WWait(p) \/ WReport(p)
      PROVE  UNCHANGED <<pinFlags, down>>
  BY <1>6 DEF WExit, WTake, WEmpty, WRefused, WWait, WReport
<1>7. ASSUME WExit(p) \/ WTake(p) \/ WEmpty(p) \/ WRefused(p) \/ WWait(p) \/ WReport(p)
      PROVE  worker[p].pc \notin {"init", "clear", "flush", "assert", "fail"}
  BY <1>7 DEF WExit, WTake, WEmpty, WRefused, WWait, WReport
<1>8. CASE WInit(p) \/ WFail(p)
  BY <1>1, <1>8, <1>pc, <1>w
<1>9. CASE WClear(p)
  BY <1>2, <1>9, <1>pc, <1>w
<1>10. CASE WFlush(p)
  BY <1>3, <1>10, <1>pc, <1>w DEF pinFlags
<1>11. CASE WAccepted(p)
  BY <1>4, <1>11, <1>pc, <1>w DEF pinFlags
<1>12. CASE WAssert(p)
  BY <1>5, <1>12, <1>pc, <1>w
<1>13. CASE WExit(p) \/ WTake(p) \/ WEmpty(p) \/ WRefused(p) \/ WWait(p) \/ WReport(p)
  BY <1>6, <1>7, <1>13, <1>pc DEF pinFlags
<1> QED
  BY <1>8, <1>9, <1>10, <1>11, <1>12, <1>13 DEF WNext, WGoOn

\* What A does to a pin it does to app.pin; only a start and a stop reach all.
LEMMA AppFlags ==
    ASSUME IInv, ANext
    PROVE  /\ \A p \in Pins : p # app.pin => /\ hrOk'[p] = hrOk[p] /\ flushing'[p] = flushing[p]
                                             /\ flushed'[p] = flushed[p] /\ endFlush'[p] = endFlush[p]
                                             /\ ~AStart /\ ~AStop => down'[p] = down[p]
           /\ ADeny => ~hrOk'[app.pin]
           /\ AAllow => hrOk'[app.pin]
           /\ ~ADeny /\ ~AAllow => hrOk' = hrOk
           /\ AReset => flushing'[app.pin] /\ ~flushed'[app.pin] /\ ~endFlush'[app.pin]
           /\ AEndFlush => ~flushing'[app.pin] /\ flushed'[app.pin] /\ endFlush'[app.pin]
           /\ ~AReset /\ ~AEndFlush => flushing' = flushing /\ flushed' = flushed
           /\ ~AReset /\ ~AEndFlush /\ ~AFlushDown => endFlush' = endFlush
           /\ AFlushDown => \/ down'[app.pin].flush /\ endFlush' = endFlush
                            \/ down[app.pin].fails /\ down' = down
           /\ AEndDown /\ ThreadExists(app.pin) => ~down'[app.pin].flush
           /\ AStart => \A p \in Pins : down'[p].run /\ down'[p].flush = down[p].flush
           /\ ~AStart /\ ~AStop => \A p \in Pins : down'[p].run = down[p].run
           /\ ~AStart /\ ~AStop /\ ~AFlushDown /\ ~AEndDown => down' = down
<1>w. /\ down \in [Pins -> [run : BOOLEAN, flush : BOOLEAN, seg : Nat, last : PacketType, fails : BOOLEAN]]
      /\ hrOk \in [Pins -> BOOLEAN] /\ flushing \in [Pins -> BOOLEAN]
      /\ flushed \in [Pins -> BOOLEAN] /\ endFlush \in [Pins -> BOOLEAN]
      /\ app.pin \in Pins
  BY DEF IInv, TypeOK, DownType, FlagType, AppType
<1>d. \A p \in Pins : down[p] \in [run : BOOLEAN, flush : BOOLEAN, seg : Nat, last : PacketType, fails : BOOLEAN]
  BY <1>w
<1>pc. /\ AStart => app.pc = "stopped"
       /\ ASeek => app.pc = "idle"
       /\ AStop => app.pc \in {"idle", "stopped"}
       /\ AReset => app.pc = "reset"
       /\ ADeny => app.pc = "deny"
       /\ AFlushDown => app.pc = "flushDown"
       /\ AEndDown => app.pc = "endDown"
       /\ AAllow => app.pc = "allow"
       /\ AEndFlush => app.pc = "endFlush"
  BY DEF AStart, ASeek, AStop, AReset, ADeny, AFlushDown, AEndDown, AAllow, AEndFlush
<1>s. (AStart => app'.pc = "idle") /\ (AStop => app'.pc = "reset")
  BY AppMoves DEF Went
<1>1. CASE AStart
  <2>1. UNCHANGED pinFlags /\ down' = [p \in Pins |-> [down[p] EXCEPT !.run = TRUE]]
    BY <1>1 DEF AStart
  <2>2. \A p \in Pins : down'[p].run /\ down'[p].flush = down[p].flush
    BY <2>1, <1>d
  <2> QED
    BY <1>1, <1>pc, <1>s, <2>1, <2>2 DEF pinFlags
<1>2. CASE AStop
  <2>1. UNCHANGED pinFlags
    BY <1>2 DEF AStop, BeginFlush
  <2> QED
    BY <1>2, <1>pc, <1>s, <2>1 DEF pinFlags
<1>3. CASE AReset
  <2>1. /\ flushing' = [flushing EXCEPT ![app.pin] = TRUE]
        /\ flushed' = [flushed EXCEPT ![app.pin] = FALSE]
        /\ endFlush' = [endFlush EXCEPT ![app.pin] = FALSE]
        /\ UNCHANGED <<hrOk, down>>
    BY <1>3 DEF AReset
  <2> QED
    BY <1>3, <1>pc, <1>w, <2>1
<1>4. CASE ADeny
  <2>1. hrOk' = [hrOk EXCEPT ![app.pin] = FALSE] /\ UNCHANGED <<flushing, flushed, endFlush, down>>
    BY <1>4 DEF ADeny
  <2> QED
    BY <1>4, <1>pc, <1>w, <2>1
<1>5. CASE AFlushDown
  <2>1. UNCHANGED <<hrOk, flushing, flushed>>
    BY <1>5 DEF AFlushDown
  <2>2. CASE down' = [down EXCEPT ![app.pin].flush = TRUE] /\ UNCHANGED endFlush
    <3>1. \A q \in Pins : down'[q] = IF q = app.pin THEN [down[q] EXCEPT !.flush = TRUE] ELSE down[q]
      BY <2>2, <1>w
    <3>2. /\ \A q \in Pins : q # app.pin => down'[q] = down[q]
          /\ \A q \in Pins : down'[q].run = down[q].run
          /\ down'[app.pin].flush
      BY <3>1, <1>w, <1>d
    <3> QED
      BY <1>5, <1>pc, <1>w, <2>1, <2>2, <3>2
  <2>3. CASE /\ down[app.pin].fails /\ UNCHANGED down
             /\ endFlush' = [endFlush EXCEPT ![app.pin] = TRUE]
    BY <1>5, <1>pc, <1>w, <2>1, <2>3
  <2> QED
    BY <1>5, <2>2, <2>3 DEF AFlushDown
<1>6. CASE AEndDown
  <2>1. UNCHANGED pinFlags
    BY <1>6 DEF AEndDown
  <2>2. CASE ThreadExists(app.pin)
    <3>1. down' = [down EXCEPT ![app.pin].flush = FALSE]
      BY <1>6, <2>2 DEF AEndDown
    <3>2. \A q \in Pins : down'[q] = IF q = app.pin THEN [down[q] EXCEPT !.flush = FALSE] ELSE down[q]
      BY <3>1, <1>w
    <3>3. /\ \A q \in Pins : q # app.pin => down'[q] = down[q]
          /\ \A q \in Pins : down'[q].run = down[q].run
          /\ ~down'[app.pin].flush
      BY <3>2, <1>w, <1>d
    <3> QED
      BY <1>6, <1>pc, <1>w, <2>1, <3>3 DEF pinFlags
  <2>3. CASE ~ThreadExists(app.pin)
    <3>1. UNCHANGED down
      BY <1>6, <2>3 DEF AEndDown
    <3> QED
      BY <1>6, <1>pc, <1>w, <2>1, <2>3, <3>1 DEF pinFlags
  <2> QED
    BY <2>2, <2>3
<1>7. CASE AAllow
  <2>1. hrOk' = [hrOk EXCEPT ![app.pin] = TRUE] /\ UNCHANGED <<flushing, flushed, endFlush, down>>
    BY <1>7 DEF AAllow
  <2> QED
    BY <1>7, <1>pc, <1>w, <2>1
<1>8. CASE AEndFlush
  <2>1. /\ flushing' = [flushing EXCEPT ![app.pin] = FALSE]
        /\ flushed' = [flushed EXCEPT ![app.pin] = TRUE]
        /\ endFlush' = [endFlush EXCEPT ![app.pin] = TRUE]
        /\ UNCHANGED <<hrOk, down>>
    BY <1>8 DEF AEndFlush
  <2> QED
    BY <1>8, <1>pc, <1>w, <2>1
<1>9. CASE ~(AStart \/ AStop \/ AReset \/ ADeny \/ AFlushDown \/ AEndDown \/ AAllow \/ AEndFlush)
  <2>1. UNCHANGED <<hrOk, flushing, flushed, endFlush, down>>
    BY <1>9 DEF ANext, AContinue, ASeek, BeginFlush, ACall, AAnswered, AEnded, AInactive, AJoin, pinFlags
  <2> QED
    BY <1>9, <2>1
<1> QED
  BY <1>1, <1>2, <1>3, <1>4, <1>5, <1>6, <1>7, <1>8, <1>9

-----------------------------------------------------------------------------
(***************************************************************************)
(* What a flush leaves behind.                                             *)
(***************************************************************************)
Initialising(p) == worker[p].pc \in {"init", "clear", "flush"}
Current(k) == k.pass = split.pass

\* The flush in progress has told pin p to take nothing, or is over for it.
Denied(p) == \/ app.pc \in {"reset", "deny"} /\ p < app.pin
             \/ app.pc = "flushDown" /\ p <= app.pin
             \/ app.pc \in {"call", "called"}
Over(p) == \/ app.pc \in {"endDown", "allow", "endFlush"} /\ p < app.pin
           \/ app.pc \in {"ended", "idle"}

\* S delivers a pass, and waits for no flush.
Past == {"demux", "end", "queue", "add", "idle"}
Rest == Ending \cup {"inactive", "join", "stopped", "idle"}

\* A W has initialised its pin before a flush begins.
Ready(p) == app.pc # "idle" => ~Initialising(p)
Open(p) == Running /\ Over(p) => ~flushing[p]

\* At most one packet gets past a flush: the one that S was about to add.
Slim(p) == IF split.pc = "add" /\ split.pin = p THEN queue[p] = <<>> ELSE Len(queue[p]) <= 1
Shut(p) == Denied(p) => ~hrOk[p] /\ Slim(p)
Fresh(p) == app.pc \in Rest =>
              \A i \in 1 .. Len(queue[p]) : i = 1 \/ (Current(queue[p][i]) /\ split.pc \in Past)

Flushes == ~early => \A p \in Pins : Ready(p) /\ Open(p) /\ Shut(p) /\ Fresh(p)

LEMMA FlushesStarted == Init => Flushes
<1> SUFFICES ASSUME Init PROVE Flushes
  OBVIOUS
<1>1. /\ app.pc = "stopped"
      /\ \A p \in Pins : Len(queue[p]) = 0 /\ worker[p].pc = "none"
  BY EmptySeq DEF Init
<1> QED
  BY <1>1 DEF Flushes, Ready, Open, Shut, Fresh, Denied, Running, Initialising

\* A queue that has not grown holds nothing new.
LEMMA StillFresh ==
    ASSUME IInv, NEW p \in Pins, Kept(p) \/ Took(p) \/ Delivered(p) \/ Emptied(p),
           split'.pass = split.pass, split'.pc = split.pc
    PROVE  /\ Len(queue'[p]) <= Len(queue[p]) /\ (queue[p] = <<>> => queue'[p] = <<>>)
           /\ (\A i \in 1 .. Len(queue[p]) : i = 1 \/ (Current(queue[p][i]) /\ split.pc \in Past))
              => \A i \in 1 .. Len(queue'[p]) : i = 1 \/ (Current(queue[p][i])' /\ split'.pc \in Past)
<1>t. queue[p] \in Seq(PacketType) /\ Len(queue[p]) \in Nat
  BY Typed
<1>1. CASE queue'[p] = queue[p]
  BY <1>1, <1>t DEF Current
<1>2. CASE Emptied(p)
  <2>1. Len(queue'[p]) = 0 /\ queue'[p] = <<>>
    BY <1>2, EmptySeq DEF Emptied
  <2> QED
    BY <1>t, <2>1
<1>3. CASE Took(p)
  <2>1. /\ Len(queue'[p]) = Len(queue[p]) - 1 /\ queue[p] # <<>>
        /\ \A i \in 1 .. Len(queue'[p]) : queue'[p][i] = queue[p][i + 1]
    BY <1>3, <1>t, Indices, Typed DEF Took
  <2>2. \A i \in 1 .. Len(queue'[p]) : i + 1 \in 1 .. Len(queue[p]) /\ i + 1 # 1
    BY <1>t, <2>1
  <2> QED
    BY <1>t, <2>1, <2>2 DEF Current
<1> QED
  BY <1>1, <1>2, <1>3 DEF Kept, Delivered

LEMMA FlushesW ==
    ASSUME IInv, Flushes, NEW p \in Pins, WNext(p)
    PROVE  Flushes'
<1> SUFFICES ASSUME ~early, NEW q \in Pins
             PROVE  Ready(q)' /\ Open(q)' /\ Shut(q)' /\ Fresh(q)'
  BY WorkerMoves DEF Flushes
<1>1. Ready(q) /\ Open(q) /\ Shut(q) /\ Fresh(q)
  BY DEF Flushes
<1>2. UNCHANGED <<split, app>>
  BY WorkerMoves
<1>3. Kept(q) \/ Took(q) \/ Delivered(q) \/ Emptied(q)
  BY WorkerPackets
<1>4. Initialising(q)' => Initialising(q)
  <2>1. CASE q # p
    BY <2>1, WorkerMoves DEF Initialising
  <2>2. CASE q = p
    <3>1. WInit(p) \/ WClear(p) => Initialising(p)
      BY DEF WInit, WClear, Initialising
    <3>2. ~WInit(p) /\ ~WClear(p) => worker'[p].pc \notin {"init", "clear", "flush"}
      BY WorkerMoves DEF Moved, Done, WNext, WGoOn
    <3> QED
      BY <2>2, <3>1, <3>2 DEF Initialising
  <2> QED
    BY <2>1, <2>2
<1>5. (flushing'[q] => flushing[q]) /\ (hrOk'[q] => hrOk[q] \/ Initialising(q))
  <2>1. WInit(p) => Initialising(p)
    BY DEF WInit, Initialising
  <2> QED
    BY <2>1, WorkerFlags
<1>6. Ready(q)'
  BY <1>1, <1>2, <1>4 DEF Ready
<1>7. Open(q)'
  BY <1>1, <1>2, <1>5 DEF Open, Running, Over
<1>8. Fresh(q)'
  BY <1>1, <1>2, <1>3, StillFresh DEF Fresh
<1>9. Shut(q)'
  <2>1. Slim(q) => Slim(q)'
    <3>1. Len(queue'[q]) \in Nat /\ Len(queue[q]) \in Nat
      BY WorkerStep, Typed DEF IInv, TypeOK, QueueType
    <3> QED
      BY <1>2, <1>3, <3>1, StillFresh DEF Slim
  <2>2. Denied(q)' => Denied(q) /\ app.pc # "idle"
    BY <1>2 DEF Denied
  <2> QED
    BY <1>1, <1>5, <2>1, <2>2 DEF Shut, Ready
<1> QED
  BY <1>6, <1>7, <1>8, <1>9

LEMMA FlushesS ==
    ASSUME IInv, Control, Flushes, SNext
    PROVE  Flushes'
<1> SUFFICES ASSUME ~early, NEW q \in Pins
             PROVE  Ready(q)' /\ Open(q)' /\ Shut(q)' /\ Fresh(q)'
  BY SplitPackets DEF Flushes
<1>1. Ready(q) /\ Open(q) /\ Shut(q) /\ Fresh(q)
  BY DEF Flushes
<1>2. UNCHANGED <<worker, app, pinFlags>>
  BY SplitPackets
<1>3. Ready(q)' /\ Open(q)'
  BY <1>1, <1>2 DEF Ready, Open, Running, Over, Initialising, pinFlags
<1>w. /\ split \in [pc : SStates, pass : Nat, cmd : BOOLEAN, pos : [Pins -> 0 .. FileLength],
                    todo : SUBSET Pins, pin : Pins \cup {0}, eos : BOOLEAN]
      /\ queue[q] \in Seq(PacketType) /\ Len(queue[q]) \in Nat
  BY Typed DEF IInv, TypeOK, SplitType
\* S adds a packet of its own pass, to a queue that was found open.
<1>4. CASE SAdd
  <2> DEFINE k == Packet(split.pass, IF split.eos THEN EndOfStream ELSE split.pos[split.pin])
  <2>1. /\ split.pc = "add" /\ split'.pc \in {"demux", "end"} /\ split'.pass = split.pass
        /\ queue'[q] = IF q = split.pin THEN Append(queue[q], k) ELSE queue[q]
    BY <1>4, <1>w DEF SAdd, Returned, IInv, TypeOK, QueueType
  <2>2. Shut(q)'
    <3>1. CASE q = split.pin
      <4>1. Denied(q)' => queue[q] = <<>> /\ ~hrOk[q]
        BY <1>1, <1>2, <2>1, <3>1 DEF Shut, Slim, Denied
      <4>2. queue[q] = <<>> => Len(queue'[q]) = 1
        BY <2>1, <3>1
      <4> QED
        BY <1>2, <2>1, <4>1, <4>2 DEF Shut, Slim, pinFlags
    <3>2. CASE q # split.pin
      BY <1>1, <1>2, <2>1, <3>2 DEF Shut, Slim, Denied, pinFlags
    <3> QED
      BY <3>1, <3>2
  <2>3. Fresh(q)'
    <3>1. CASE q = split.pin
      <4>1. k.pass = split.pass
        BY DEF Packet
      <4>2. \A i \in 1 .. Len(queue'[q]) : queue'[q][i] = k \/ (i \in 1 .. Len(queue[q]) /\ queue'[q][i] = queue[q][i])
        <5> HIDE DEF k
        <5> QED
          BY <1>w, <2>1, <3>1
      <4> HIDE DEF k
      <4> QED
        BY <1>1, <1>2, <2>1, <4>1, <4>2 DEF Fresh, Current, Past
    <3>2. CASE q # split.pin
      BY <1>1, <1>2, <2>1, <3>2 DEF Fresh, Current, Past
    <3> QED
      BY <3>1, <3>2
  <2> QED
    BY <1>3, <2>2, <2>3
<1>5. CASE ~SAdd
  <2>1. UNCHANGED queue
    BY <1>5, SplitPackets
  <2>2. split'.pc = "add" /\ ~(split.pc = "add" /\ split'.pin = split.pin) => hrOk[split'.pin] /\ split'.pin \in Pins
    <3>1. CASE SQueue
      BY <1>w, <3>1 DEF SQueue, SGo, Returned, IInv, TypeOK, SplitType
    <3>2. ASSUME NEW p \in Pins, SDemux(p) PROVE split'.pc # "add"
      BY <1>w, <3>2 DEF SDemux
    <3>3. CASE SInit \/ SBroken \/ SSeek \/ SFlushWait \/ SSegmentDone \/ SDemuxDone \/ SRequest
      BY <1>w, <3>3 DEF SInit, SBroken, SSeek, SFlushWait, SSegmentDone, SDemuxDone, SRequest, SGo
    <3>4. CASE SSegment
      BY <1>w, <3>4 DEF SSegment
    <3>5. CASE SEnd
      BY <1>w, <3>5 DEF SEnd
    <3> QED
      BY <1>5, <3>1, <3>2, <3>3, <3>4, <3>5 DEF SNext
  <2>3. Shut(q)'
    <3>1. Denied(q) => ~hrOk[q] /\ Slim(q)
      BY <1>1 DEF Shut
    <3>2. ASSUME ~hrOk[q], Slim(q) PROVE Slim(q)'
      <4>1. split'.pc = "add" /\ split'.pin = q => split.pc = "add" /\ split.pin = q
        BY <2>2, <3>2
      <4>2. queue[q] = <<>> => Len(queue[q]) <= 1
        OBVIOUS
      <4> QED
        BY <2>1, <3>2, <4>1, <4>2 DEF Slim
    <3> QED
      BY <1>2, <3>1, <3>2 DEF Shut, Denied, pinFlags
  <2>4. split.pc \in Past /\ app.pc \in Rest => split'.pc \in Past /\ split'.pass = split.pass
    <3>1. app.pc \in Rest => request = "none"
      BY DEF Control, Answering, Rest, Ending, IInv, TypeOK, SplitType
    <3>2. ASSUME NEW p \in Pins, SDemux(p) PROVE split'.pc \in Past /\ split'.pass = split.pass
      BY <1>w, <3>2 DEF SDemux, Past
    <3>3. CASE SInit \/ SBroken \/ SSeek \/ SFlushWait \/ SSegmentDone \/ SSegment
      BY <1>w, <3>3 DEF SInit, SBroken, SSeek, SFlushWait, SSegmentDone, SSegment, Past
    <3>4. CASE SDemuxDone
      BY <1>w, <3>4 DEF SDemuxDone, Past
    <3>5. CASE SRequest
      BY <3>1, <3>5 DEF SRequest
    <3>6. CASE SEnd
      BY <1>w, <3>6 DEF SEnd, Past
    <3>7. CASE SQueue
      BY <1>w, <3>7 DEF SQueue, SGo, Returned, Past
    <3> QED
      BY <1>5, <3>2, <3>3, <3>4, <3>5, <3>6, <3>7 DEF SNext
  <2>5. Fresh(q)'
    BY <1>1, <1>2, <2>1, <2>4 DEF Fresh, Current
  <2> QED
    BY <1>3, <2>3, <2>5
<1> QED
  BY <1>4, <1>5

LEMMA FlushesA ==
    ASSUME IInv, Control, Flushes, ANext
    PROVE  Flushes'
<1> USE DEF Went, Turned
<1>e. early' \in BOOLEAN /\ (early => early')
  BY AppStep DEF IInv, TypeOK, AppType, ANext, AContinue, AStart, ASeek, AStop, BeginFlush, AReset,
       ADeny, AFlushDown, ACall, AAnswered, AEndDown, AAllow, AEndFlush, AEnded, AInactive, AJoin,
       Calm, Tallies
<1> SUFFICES ASSUME ~early', NEW q \in Pins
             PROVE  Ready(q)' /\ Open(q)' /\ Shut(q)' /\ Fresh(q)'
  BY DEF Flushes
<1>1. Ready(q) /\ Open(q) /\ Shut(q) /\ Fresh(q)
  BY <1>e DEF Flushes
<1>m. /\ NumPins \in Nat /\ Pins = 1 .. NumPins /\ app.pin \in Pins /\ app.cmd \in {"seek", "exit"}
      /\ q \in Nat /\ q >= 1 /\ q <= NumPins /\ app.pin \in Nat
  BY AppMoves
<1>t. queue[q] \in Seq(PacketType) /\ Len(queue[q]) \in Nat
  BY Typed
<1>2. CASE AStart
  <2>1. /\ app.pc = "stopped" /\ app'.pc = "idle" /\ split.pc = "none" /\ queue' = queue
        /\ flushing' = flushing /\ ~flushing[q]
    <3>1. early' = (early \/ \E p \in Pins : flushing[p] \/ ~hrOk[p])
      BY <1>2 DEF AStart
    <3>2. ~flushing[q]
      BY <3>1
    <3>3. app.pc = "stopped" /\ queue' = queue
      BY <1>2 DEF AStart
    <3>4. split.pc = "none"
      BY <3>3 DEF Control, Demuxer
    <3> QED
      BY <1>2, <3>2, <3>3, <3>4, AppMoves, AppFlags DEF AReset, AEndFlush
  <2>2. \A i \in 1 .. Len(queue[q]) : i = 1
    BY <1>1, <2>1 DEF Fresh, Rest, Ending, Past
  <2> QED
    BY <2>1, <2>2 DEF Ready, Open, Shut, Fresh, Denied
<1>3. CASE ASeek \/ AStop
  <2>1. app'.pc = "reset" /\ app'.pin = 1 /\ worker' = worker
    BY <1>3, AppMoves DEF ASeek, AStop, BeginFlush, wvars
  <2>2. ~Initialising(q)
    BY <1>3 DEF ASeek, AStop, BeginFlush, Initialising
  <2>3. ~(q < 1)
    BY <1>m
  <2> QED
    BY <2>1, <2>2, <2>3 DEF Ready, Open, Shut, Fresh, Denied, Over, Rest, Ending, Initialising
<1>4. CASE ~AStart /\ ~ASeek /\ ~AStop
  <2>1. UNCHANGED <<worker, split>> /\ AContinue
    BY <1>4, AppPackets DEF ANext
  <2>2. app.pc \notin {"idle", "stopped"}
    BY <2>1 DEF AContinue, AReset, ADeny, AFlushDown, ACall, AAnswered, AEndDown, AAllow, AEndFlush,
         AEnded, AInactive, AJoin
  <2>3. Ready(q)'
    BY <1>1, <2>1, <2>2 DEF Ready, Initialising
  <2>4. Len(queue'[q]) <= Len(queue[q]) /\ Len(queue'[q]) \in Nat /\ (queue[q] = <<>> => queue'[q] = <<>>)
        /\ (Slim(q) => Slim(q)')
        /\ ((\A i \in 1 .. Len(queue[q]) : i = 1 \/ (Current(queue[q][i]) /\ split.pc \in Past))
              => \A i \in 1 .. Len(queue'[q]) : i = 1 \/ (Current(queue[q][i])' /\ split'.pc \in Past))
    <3>1. Kept(q) \/ Took(q) \/ Delivered(q) \/ Emptied(q)
      BY AppPackets
    <3>2. Len(queue'[q]) \in Nat
      BY AppStep DEF IInv, TypeOK, QueueType
    <3>3. Len(queue'[q]) <= Len(queue[q]) /\ (queue[q] = <<>> => queue'[q] = <<>>)
      BY <2>1, <3>1, StillFresh
    <3>4. Slim(q) => Slim(q)'
      BY <1>t, <2>1, <3>2, <3>3 DEF Slim
    <3> QED
      BY <2>1, <3>1, <3>2, <3>3, <3>4, StillFresh
  <2> DEFINE Old == \A i \in 1 .. Len(queue[q]) : i = 1 \/ (Current(queue[q][i]) /\ split.pc \in Past)
             New == \A i \in 1 .. Len(queue'[q]) : i = 1 \/ (Current(queue[q][i])' /\ split'.pc \in Past)
  <2>5. /\ Old => New
        /\ Slim(q) => Old
        /\ app.pc \in Rest => Old
        /\ New => Fresh(q)'
    <3>1. Slim(q) => Len(queue[q]) <= 1
      BY EmptySeq DEF Slim
    <3> QED
      BY <1>1, <1>t, <2>4, <3>1 DEF Fresh
  <2> HIDE DEF Old, New
  <2> USE DEF Denied, Over, Rest, Ending
  <2>6. CASE AReset
    <3>1. app.pc = "reset" /\ app'.pc = "deny" /\ app'.pin = app.pin /\ hrOk' = hrOk
      BY <2>6, AppMoves DEF AReset
    <3> QED
      BY <1>1, <2>3, <2>4, <3>1 DEF Open, Shut, Fresh
  <2>7. CASE ADeny
    <3>1. /\ app.pc = "deny" /\ app'.pc = "flushDown" /\ app'.pin = app.pin
          /\ ~hrOk'[app.pin] /\ (q # app.pin => hrOk'[q] = hrOk[q])
      BY <2>7, AppMoves, AppFlags DEF ADeny
    <3>2. q = app.pin => queue'[q] = <<>> /\ Len(queue'[q]) = 0
      BY <2>7, EmptySeq DEF ADeny, IInv, TypeOK, QueueType
    <3>3. q # app.pin => (q < app.pin <=> q <= app.pin)
      BY <1>m
    <3>4. Shut(q)'
      <4>1. CASE q = app.pin
        BY <3>1, <3>2, <4>1 DEF Shut, Slim
      <4>2. CASE q # app.pin
        BY <1>1, <2>4, <3>1, <3>3, <4>2 DEF Shut
      <4> QED
        BY <4>1, <4>2
    <3> QED
      BY <2>3, <3>1, <3>4 DEF Open, Fresh
  <2>8. CASE AFlushDown
    <3>1. /\ app.pc = "flushDown" /\ hrOk' = hrOk
          /\ \/ app'.pc = "reset" /\ app'.pin = app.pin + 1
             \/ app'.pc = "call" /\ app.pin = NumPins
      BY <2>8, AppMoves DEF AFlushDown
    <3>2. Denied(q)' => Denied(q)
      BY <1>m, <3>1
    <3> QED
      BY <1>1, <2>3, <2>4, <3>1, <3>2 DEF Open, Shut, Fresh
  <2>9. CASE ACall
    <3>1. /\ app.pc = "call" /\ hrOk' = hrOk /\ app'.pc \in {"called", "endDown"} /\ app'.pin = 1
      BY <2>9, AppMoves, AppFlags DEF ACall, pinFlags
    <3> QED
      BY <1>1, <1>m, <2>3, <2>4, <2>5, <3>1 DEF Open, Shut, Fresh
  <2>10. CASE AAnswered
    <3>1. app.pc = "called" /\ app'.pc = "endDown" /\ app'.pin = 1
      BY <2>10, AppMoves DEF AAnswered
    <3> QED
      BY <1>1, <1>m, <2>3, <2>4, <2>5, <3>1 DEF Open, Shut, Fresh
  <2>11. CASE AEndDown
    <3>1. /\ app.pc = "endDown" /\ flushing' = flushing /\ app'.cmd = app.cmd
          /\ \/ app'.pc = "allow" /\ app'.pin = app.pin
             \/ app'.pc \in {"endDown", "ended"} /\ ~ThreadExists(app.pin)
      BY <2>11, AppMoves DEF AEndDown, pinFlags
    <3>2. Open(q)'
      <4>1. app'.pc \in {"endDown", "ended"} => ~Running'
        BY <1>m, <3>1 DEF Running, Control, Threads
      <4>2. app'.pc = "allow" /\ Running' => Running
        BY <3>1 DEF Running
      <4> QED
        BY <1>1, <3>1, <4>1, <4>2 DEF Open
    <3> QED
      BY <2>3, <2>5, <3>1, <3>2 DEF Shut
  <2>12. CASE AAllow
    <3>1. /\ app.pc = "allow" /\ flushing' = flushing /\ app'.cmd = app.cmd
          /\ app'.pc = "endFlush" /\ app'.pin = app.pin
      BY <2>12, AppMoves, AppFlags DEF AAllow, AReset, AEndFlush
    <3> QED
      BY <1>1, <2>3, <2>5, <3>1 DEF Open, Shut, Running
  <2>13. CASE AEndFlush
    <3>1. /\ app.pc = "endFlush" /\ app'.cmd = app.cmd
          /\ \/ app'.pc = "endDown" /\ app'.pin = app.pin + 1
             \/ app'.pc = "ended" /\ app.pin = NumPins
          /\ ~flushing'[app.pin] /\ (q # app.pin => flushing'[q] = flushing[q])
      BY <2>13, AppMoves, AppFlags DEF AEndFlush
    <3>2. Over(q)' /\ q # app.pin => Over(q)
      BY <1>m, <3>1
    <3>3. Running' => Running
      BY <3>1 DEF Running
    <3> QED
      BY <1>1, <2>3, <2>5, <3>1, <3>2, <3>3 DEF Open, Shut
  <2>14. CASE AEnded
    <3>1. /\ app.pc = "ended" /\ flushing' = flushing
          /\ app'.pc = IF app.cmd = "exit" THEN "inactive" ELSE "idle"
          /\ app'.cmd = app.cmd
      BY <2>14, AppMoves, AppFlags DEF AEnded, pinFlags
    <3>2. app'.pc = "idle" => Running
      BY <1>m, <3>1 DEF Running
    <3> QED
      BY <1>1, <2>3, <2>5, <3>1, <3>2 DEF Open, Shut
  <2>15. CASE AInactive \/ AJoin
    <3>1. app.pc \in {"inactive", "join"} /\ app'.pc \in {"inactive", "join", "stopped"}
      BY <2>15, AppMoves DEF AInactive, AJoin
    <3> QED
      BY <2>3, <2>5, <3>1 DEF Open, Shut
  <2> QED
    BY <2>1, <2>6, <2>7, <2>8, <2>9, <2>10, <2>11, <2>12, <2>13, <2>14, <2>15 DEF AContinue
<1> QED
  BY <1>2, <1>3, <1>4

-----------------------------------------------------------------------------
(***************************************************************************)
(* Segments.                                                               *)
(***************************************************************************)
\* Packets of this pass are about, or may come.
Seen(p) == \/ p \in active \/ Current(down[p].last)
           \/ Held(p) /\ Current(worker[p].pkt)
           \/ \E i \in 1 .. Len(queue[p]) : Current(queue[p][i])

Segments ==
    ~early /\ app.pc = "idle" /\ split.pc \in Past \cup {"segment"}
    => \A p \in Pins : Seen(p) => down[p].seg = split.pass

LEMMA StillUnseen ==
    ASSUME IInv, NEW p \in Pins, Kept(p) \/ Took(p) \/ Delivered(p) \/ Emptied(p),
           split'.pass = split.pass, p \in active' => p \in active, Seen(p)'
    PROVE  Seen(p)
<1>t. queue[p] \in Seq(PacketType) /\ Len(queue[p]) \in Nat
  BY Typed
<1>1. CASE Kept(p)
  BY <1>1 DEF Seen, Kept, Current
<1>2. CASE Took(p)
  <2>1. /\ Len(queue'[p]) = Len(queue[p]) - 1 /\ Len(queue[p]) > 0
        /\ \A i \in 1 .. Len(queue'[p]) : queue'[p][i] = queue[p][i + 1]
        /\ Head(queue[p]) = queue[p][1]
    BY <1>2, <1>t, Indices, Typed DEF Took
  <2>2. \A i \in 1 .. Len(queue'[p]) : i + 1 \in 1 .. Len(queue[p])
    BY <1>t, <2>1
  <2>3. 1 \in 1 .. Len(queue[p])
    BY <1>t, <2>1
  <2> QED
    BY <1>2, <2>1, <2>2, <2>3 DEF Seen, Took, Current
<1>3. CASE Delivered(p)
  BY <1>3 DEF Seen, Delivered, Current
<1>4. CASE Emptied(p)
  <2>1. Len(queue'[p]) = 0
    BY <1>4, EmptySeq DEF Emptied
  <2> QED
    BY <1>4, <2>1 DEF Seen, Emptied, Current
<1> QED
  BY <1>1, <1>2, <1>3, <1>4

LEMMA SegmentsStarted == Init => Segments
  BY DEF Init, Segments

LEMMA SegmentsW ==
    ASSUME IInv, Segments, NEW p \in Pins, WNext(p)
    PROVE  Segments'
<1>1. UNCHANGED <<split, app, early, active>>
  BY WorkerMoves
<1>2. \A q \in Pins : down'[q].seg = down[q].seg /\ (Seen(q)' => Seen(q))
  BY <1>1, WorkerPackets, StillUnseen
<1> QED
  BY <1>1, <1>2 DEF Segments

LEMMA SegmentsA ==
    ASSUME IInv, Control, ANext
    PROVE  Segments'
<1> SUFFICES ASSUME app'.pc = "idle" PROVE split'.pc \notin Past \cup {"segment"}
  BY DEF Segments
<1>1. AStart => split'.pc = "init"
  BY DEF AStart, IInv, TypeOK, SplitType
<1>2. ~AStart => AEnded /\ split' = split
  BY AppMoves, AppPackets DEF Went, Turned, ANext, AContinue
<1>3. AEnded => split.pc \in {"broken", "flushWait"}
  BY AppMoves DEF AEnded, Went, Control, Demuxer, Through, Ending
<1> QED
  BY <1>1, <1>2, <1>3 DEF Past

LEMMA SegmentsS ==
    ASSUME IInv, Control, Ordered, Flushes, Segments, SNext
    PROVE  Segments'
<1>1. UNCHANGED <<app, early, worker, pinFlags>> /\ \A p \in Pins : down'[p].last = down[p].last
  BY SplitPackets
<1>w. /\ split \in [pc : SStates, pass : Nat, cmd : BOOLEAN, pos : [Pins -> 0 .. FileLength],
                    todo : SUBSET Pins, pin : Pins \cup {0}, eos : BOOLEAN]
      /\ down \in [Pins -> [run : BOOLEAN, flush : BOOLEAN, seg : Nat, last : PacketType, fails : BOOLEAN]]
      /\ queue \in [Pins -> Seq(PacketType)]
  BY DEF IInv, TypeOK, SplitType, DownType, QueueType
<1> SUFFICES ASSUME ~early, app.pc = "idle", split'.pc \in Past \cup {"segment"}, NEW p \in Pins, Seen(p)'
             PROVE  down'[p].seg = split'.pass
  BY <1>1 DEF Segments
<1>r. request = "none"
  BY DEF Control, Answering, IInv, TypeOK, SplitType
\* Before the segments are delivered nothing of the pass is about.
<1>n. split.pc = "flushWait" => /\ ~Current(down[p].last)
                                /\ Held(p) => ~Current(worker[p].pkt)
                                /\ \A i \in 1 .. Len(queue[p]) : ~Current(queue[p][i])
  <2> SUFFICES ASSUME split.pc = "flushWait"
               PROVE  \A k \in PacketType : Behind(p, k) => ~Current(k)
    BY Typed, Indices DEF Ordered, BehindS
  <2> QED
    BY <1>w DEF Behind, Added, Current, PacketType
<1>2. CASE SFlushWait
  <2>1. split.pc = "flushWait" /\ queue' = queue /\ split'.pass = split.pass /\ active' = {}
    BY <1>2, <1>w DEF SFlushWait
  <2> QED
    BY <1>1, <1>n, <2>1 DEF Seen, Current, Held
<1>3. CASE SSegment
  <2>1. PICK q \in First(split.todo) :
          /\ active' = active \cup {q}
          /\ down' = IF flushing[q] \/ ~ThreadExists(q) THEN down
                     ELSE [down EXCEPT ![q].seg = split.pass]
          /\ split' = [split EXCEPT !.todo = @ \ {q}]
          /\ split.pc = "segment" /\ queue' = queue
    BY <1>3 DEF SSegment
  <2>2. q \in Pins /\ split'.pass = split.pass
    BY <1>w, <2>1 DEF First
  <2>3. ~flushing[q] /\ ThreadExists(q)
    BY <2>2 DEF Flushes, Open, Over, Running, Control, Threads
  <2>4. down' = [down EXCEPT ![q].seg = split.pass]
    BY <2>1, <2>3
  <2>5. \A r \in Pins : down'[r] = IF r = q THEN [down[r] EXCEPT !.seg = split.pass] ELSE down[r]
    BY <1>w, <2>4
  <2>6. CASE p = q
    BY <1>w, <2>2, <2>5, <2>6
  <2>7. CASE p # q
    <3>1. Kept(p)
      BY <1>1, <2>1 DEF Kept, Held
    <3>2. Seen(p)
      BY <2>1, <2>2, <2>7, <3>1, StillUnseen
    <3> QED
      BY <2>1, <2>2, <2>5, <2>7, <3>2 DEF Segments
  <2> QED
    BY <2>6, <2>7
<1>4. CASE ~SFlushWait /\ ~SSegment
  <2>1. down' = down
    BY <1>4, SplitPackets
  <2>2. /\ split.pc \in Past \cup {"segment"} /\ split'.pass = split.pass /\ active' \subseteq active
    <3>1. CASE SInit \/ SBroken \/ SSeek
      BY <1>w, <3>1 DEF SInit, SBroken, SSeek, SGo, Past
    <3>2. CASE SSegmentDone
      BY <1>w, <3>2 DEF SSegmentDone, SGo
    <3>3. ASSUME NEW q \in Pins, SDemux(q)
          PROVE  split.pc \in Past \cup {"segment"} /\ split'.pass = split.pass /\ active' \subseteq active
      BY <1>w, <3>3 DEF SDemux, Past
    <3>4. CASE SDemuxDone
      BY <1>w, <3>4 DEF SDemuxDone, Past
    <3>5. CASE SEnd
      BY <1>w, <3>5 DEF SEnd, Past
    <3>6. CASE SQueue
      BY <1>w, <3>6 DEF SQueue, SGo, Returned, Past
    <3>7. CASE SAdd
      BY <1>w, <3>7 DEF SAdd, Returned, Past
    <3>8. CASE SRequest
      BY <1>r, <3>8 DEF SRequest
    <3> QED
      BY <1>4, <3>1, <3>2, <3>3, <3>4, <3>5, <3>6, <3>7, <3>8 DEF SNext
  <2>3. Seen(p)
    <3>1. CASE SAdd /\ p = split.pin
      <4>1. p \in active
        BY <3>1 DEF SAdd, Ordered, Locals
      <4> QED
        BY <4>1 DEF Seen
    <3>2. CASE ~(SAdd /\ p = split.pin)
      <4>1. queue'[p] = queue[p]
        BY <1>w, <3>2, SplitPackets DEF SAdd
      <4>2. Kept(p)
        BY <1>1, <4>1 DEF Kept, Held
      <4> QED
        BY <2>2, <4>2, StillUnseen
    <3> QED
      BY <3>1, <3>2
  <2> QED
    BY <2>1, <2>2, <2>3 DEF Segments
<1> QED
  BY <1>2, <1>3, <1>4

-----------------------------------------------------------------------------
(***************************************************************************)
(* Pins that live.                                                         *)
(***************************************************************************)
\* DeliverBeginFlush of pin p has begun, DeliverEndFlush has not ended.
InFlush(p) == \/ app.pc \in {"deny", "flushDown"} /\ p <= app.pin
              \/ app.pc = "reset" /\ p < app.pin
              \/ app.pc \in {"call", "called"}
              \/ app.pc \in {"endDown", "allow", "endFlush"} /\ p >= app.pin
Reached(p) == app.pc \in {"allow", "endFlush"} /\ p = app.pin

\* The downstream pin refuses nothing but during a flush, and what it refuses
\* then W looks at after the flush.
Taking(p) == /\ down[p].run
             /\ ~InFlush(p) /\ ~Initialising(p) => ~down[p].flush
             /\ InFlush(p) => ~endFlush[p]
             /\ Reached(p) => ~down[p].flush
Unbroken(p) ==
    /\ Reached(p) /\ app.pc = "endFlush" => hrOk[p]
    /\ InFlush(p) => worker[p].pc \notin {"report", "fail"}
    /\ ~InFlush(p) => worker[p].pc # "fail" /\ (~worker[p].ok => flushed[p]) /\ hrOk[p]
Alive == ~early /\ Running => \A p \in Pins : ~down[p].fails => Taking(p) /\ (~overtaken => Unbroken(p))

LEMMA AliveStarted == Init => Alive
  BY DEF Init, Alive, Running

LEMMA AliveW ==
    ASSUME IInv, Control, Flushes, Alive, NEW p \in Pins, WNext(p)
    PROVE  Alive'
<1>1. UNCHANGED <<app, early, overtaken>> /\ ThreadExists(p)
  BY WorkerMoves
<1>2. \A q \in Pins : down'[q].fails = down[q].fails /\ (InFlush(q)' <=> InFlush(q)) /\ (Reached(q)' <=> Reached(q))
  BY <1>1, WorkerFlags DEF InFlush, Reached
<1> SUFFICES ASSUME ~early, Running, NEW q \in Pins, ~down[q].fails
             PROVE  Taking(q)' /\ (~overtaken => Unbroken(q)')
  BY <1>1, <1>2 DEF Alive, Running
<1>3. Taking(q) /\ (~overtaken => Unbroken(q))
  BY DEF Alive
<1>4. CASE q # p
  <2>1. /\ worker'[q] = worker[q] /\ hrOk'[q] = hrOk[q] /\ flushed'[q] = flushed[q]
        /\ endFlush'[q] = endFlush[q] /\ down'[q] = down[q]
    BY <1>4, WorkerMoves, WorkerFlags
  <2> QED
    BY <1>1, <1>2, <1>3, <2>1 DEF Taking, Unbroken, Initialising
<1>5. CASE q = p
  <2> DEFINE pc == worker[p].pc
  <2>r. /\ ~worker[p].ok => pc \in {"wait", "report", "fail"}
        /\ pc \in {"report", "fail"} => ~worker[p].ok
        /\ Initialising(p) => ~InFlush(p) /\ ~Reached(p)
    BY DEF Control, Refusals, Flushes, Ready, InFlush, Reached
  <2>d. down'[p].run = down[p].run
    BY WorkerFlags
  <2>1. CASE WInit(p)
    <3>1. /\ pc = "init" /\ hrOk'[p] /\ flushed'[p] = flushed[p] /\ endFlush'[p] = endFlush[p]
          /\ worker'[p].pc = "clear" /\ worker'[p].ok = worker[p].ok
      BY <2>1, WorkerMoves, WorkerFlags DEF WInit, Moved
    <3> QED
      BY <1>1, <1>2, <1>3, <1>5, <2>r, <2>d, <3>1 DEF Taking, Unbroken, Initialising
  <2>2. CASE WClear(p)
    <3>1. /\ pc = "clear" /\ hrOk'[p] = hrOk[p]
          /\ worker'[p].pc = "flush" /\ worker'[p].ok = worker[p].ok
      BY <2>2, WorkerMoves, WorkerFlags DEF WClear, WInit, WFail, Moved
    <3> QED
      BY <1>1, <1>2, <1>3, <1>5, <2>r, <2>d, <3>1 DEF Taking, Unbroken, Initialising, Reached, InFlush
  <2>3. CASE WFlush(p)
    <3>1. /\ pc = "flush" /\ hrOk'[p] = hrOk[p] /\ ~down'[p].flush
          /\ worker'[p].pc = "top" /\ worker'[p].ok = worker[p].ok
      BY <2>3, WorkerMoves, WorkerFlags DEF WFlush, WInit, WFail, Moved
    <3> QED
      BY <1>1, <1>2, <1>3, <1>5, <2>r, <2>d, <3>1 DEF Taking, Unbroken, Initialising, Reached, InFlush
  <2>4. CASE WRefused(p)
    <3>1. /\ pc = "deliver" /\ (~down[p].run \/ down[p].flush)
          /\ worker'[p].pc = "wait" /\ hrOk'[p] = hrOk[p]
          /\ endFlush'[p] = endFlush[p] /\ down'[p].flush = down[p].flush
      BY <1>5, <2>4, WorkerMoves, WorkerFlags DEF WRefused, WInit, WClear, WFlush, WFail
    <3>2. InFlush(p)
      BY <1>3, <1>5, <3>1 DEF Taking, Initialising
    <3> QED
      BY <1>1, <1>2, <1>3, <1>5, <2>d, <3>1, <3>2 DEF Taking, Unbroken, Initialising
  <2>5. CASE WWait(p)
    <3>1. /\ pc = "wait" /\ endFlush[p] /\ hrOk'[p] = hrOk[p] /\ flushed'[p] = flushed[p]
          /\ endFlush'[p] = endFlush[p] /\ down'[p].flush = down[p].flush
          /\ worker'[p].pc \in {"take", "top", "report"}
          /\ ~worker'[p].ok => ~worker[p].ok
      BY <2>5, WorkerMoves, WorkerFlags DEF WWait, WInit, WClear, WFlush, WAssert, WFail, Moved, Done
    <3>2. ~InFlush(p)
      BY <1>3, <1>5, <3>1 DEF Taking
    <3> QED
      BY <1>1, <1>2, <1>3, <1>5, <2>d, <3>1, <3>2 DEF Taking, Unbroken, Initialising, Reached, InFlush
  <2>6. CASE WReport(p)
    <3>1. /\ pc = "report" /\ hrOk'[p] = hrOk[p] /\ flushed'[p] = flushed[p]
          /\ endFlush'[p] = endFlush[p] /\ down'[p].flush = down[p].flush
          /\ IF flushed[p] THEN worker'[p].pc \in {"take", "top"} /\ worker'[p].ok
             ELSE worker'[p].pc = "fail"
      BY <2>6, WorkerMoves, WorkerFlags DEF WReport, WInit, WClear, WFlush, WAssert, WFail, Moved, Done
    <3>2. ~overtaken => ~InFlush(p) /\ flushed[p]
      BY <1>3, <1>5, <2>r, <3>1 DEF Unbroken
    <3> QED
      BY <1>1, <1>2, <1>3, <1>5, <2>d, <3>1, <3>2 DEF Taking, Unbroken, Initialising, Reached, InFlush
  <2>7. CASE WFail(p)
    <3>1. /\ pc = "fail" /\ endFlush'[p] = endFlush[p] /\ down'[p].flush = down[p].flush
      BY <2>7, WorkerMoves, WorkerFlags DEF WFail, WInit, WClear, WFlush, WAssert
    <3>2. overtaken
      BY <1>3, <1>5, <3>1 DEF Unbroken
    <3> QED
      BY <1>1, <1>2, <1>3, <1>5, <2>d, <3>1, <3>2 DEF Taking, Initialising
  <2>8. CASE WAssert(p)
    <3>1. /\ pc = "assert" /\ hrOk'[p] = hrOk[p] /\ worker'[p].pc = "deliver"
          /\ endFlush'[p] = endFlush[p] /\ down'[p].flush = down[p].flush
          /\ worker'[p].ok = worker[p].ok
      BY <2>8, WorkerMoves, WorkerFlags DEF WAssert, WInit, WClear, WFlush, WFail, Moved
    <3> QED
      BY <1>1, <1>2, <1>3, <1>5, <2>r, <2>d, <3>1 DEF Taking, Unbroken, Initialising
  <2>9. CASE WExit(p) \/ WTake(p) \/ WEmpty(p) \/ WAccepted(p)
    <3>1. /\ ~(WInit(p) \/ WClear(p) \/ WFlush(p) \/ WAssert(p) \/ WFail(p))
          /\ pc \in {"top", "take", "deliver"}
      BY <2>9 DEF WExit, WTake, WEmpty, WAccepted, WInit, WClear, WFlush, WAssert, WFail
    <3>2. /\ hrOk'[p] = hrOk[p] /\ flushed'[p] = flushed[p]
          /\ endFlush'[p] = endFlush[p] /\ down'[p].flush = down[p].flush
      BY <3>1, WorkerFlags
    <3>3. worker'[p].pc \notin {"report", "fail"} /\ (worker[p].ok => worker'[p].ok)
      BY <2>9, WorkerMoves DEF Moved, Done
    <3> QED
      BY <1>1, <1>2, <1>3, <1>5, <2>r, <2>d, <3>1, <3>2, <3>3 DEF Taking, Unbroken, Initialising
  <2> QED
    BY <2>1, <2>2, <2>3, <2>4, <2>5, <2>6, <2>7, <2>8, <2>9 DEF WNext, WGoOn
<1> QED
  BY <1>4, <1>5

LEMMA AliveS ==
    ASSUME IInv, Alive, SNext
    PROVE  Alive'
<1>1. UNCHANGED <<worker, app, early, overtaken, pinFlags>>
      /\ \A p \in Pins : down'[p].run = down[p].run /\ down'[p].flush = down[p].flush
                         /\ down'[p].fails = down[p].fails
  BY SplitPackets
<1> QED
  BY <1>1 DEF Alive, Running, Taking, Unbroken, InFlush, Reached, Initialising, pinFlags

LEMMA AliveA ==
    ASSUME IInv, Control, Flushes, Alive, ANext
    PROVE  Alive'
<1> USE DEF Went, Turned
<1>e. early' \in BOOLEAN /\ overtaken' \in BOOLEAN /\ (early => early') /\ (overtaken => overtaken')
  BY AppStep DEF IInv, TypeOK, AppType, ANext, AContinue, AStart, ASeek, AStop, BeginFlush, AReset,
       ADeny, AFlushDown, ACall, AAnswered, AEndDown, AAllow, AEndFlush, AEnded, AInactive, AJoin,
       Calm, Tallies
<1> SUFFICES ASSUME ~early', Running', NEW q \in Pins, ~down'[q].fails
             PROVE  Taking(q)' /\ (~overtaken' => Unbroken(q)')
  BY DEF Alive
<1>f. ~early /\ ~down[q].fails
  BY <1>e, AppPackets
<1>3. Running => Taking(q) /\ (~overtaken => Unbroken(q))
  BY <1>f DEF Alive
<1>m. /\ NumPins \in Nat /\ Pins = 1 .. NumPins /\ app.pin \in Pins /\ app.cmd \in {"seek", "exit"}
      /\ q \in Nat /\ q >= 1 /\ q <= NumPins /\ app.pin \in Nat
  BY AppMoves
<1>r. /\ ~worker[q].ok => worker[q].pc \in {"wait", "report", "fail"}
      /\ worker[q].pc \in {"report", "fail"} => ~worker[q].ok
  BY DEF Control, Refusals
<1>1. CASE AStart
  <2>1. app'.pc = "idle" /\ \A p \in Pins : worker'[p].pc = "init"
    BY <1>1, AppMoves DEF AStart, IInv, TypeOK, WorkerType
  <2>2. /\ worker[q].pc = "none" /\ worker'[q].ok = worker[q].ok /\ hrOk' = hrOk
        /\ hrOk[q] /\ down'[q].run
    <3>1. app.pc = "stopped" /\ hrOk' = hrOk /\ early' = (early \/ \E p \in Pins : flushing[p] \/ ~hrOk[p])
      BY <1>1 DEF AStart, pinFlags
    <3>2. hrOk[q]
      BY <3>1
    <3> QED
      BY <1>1, <3>1, <3>2, AppFlags, AppPackets DEF Control, Threads, ThreadExists
  <2>3. ~InFlush(q)' /\ ~Reached(q)' /\ Initialising(q)'
    BY <2>1 DEF InFlush, Reached, Initialising
  <2> QED
    BY <1>r, <2>1, <2>2, <2>3 DEF Taking, Unbroken
<1>2. CASE AStop
  BY <1>2, AppMoves DEF Running
<1>4. CASE ~AStart /\ ~AStop
  <2>1. worker' = worker /\ down'[q].run = down[q].run
    BY <1>4, AppPackets, AppFlags
  <2>2. Running
    <3>1. CASE ASeek
      BY <3>1 DEF ASeek, Running
    <3>2. CASE ~ASeek
      <4>1. AContinue
        BY <1>4, <3>2 DEF ANext
      <4>2. app.pc # "stopped" /\ app'.cmd = app.cmd /\ (app'.pc = "idle" => AEnded)
        BY <4>1, AppMoves DEF AContinue, AReset, ADeny, AFlushDown, ACall, AAnswered, AEndDown, AAllow,
             AEndFlush, AEnded, AInactive, AJoin
      <4>3. AEnded /\ app'.pc = "idle" => app.cmd = "seek"
        BY <1>m, AppMoves
      <4> QED
        BY <4>2, <4>3 DEF Running
    <3> QED
      BY <3>1, <3>2
  <2>3. Taking(q) /\ (~overtaken => Unbroken(q))
    BY <1>3, <2>2
  <2>4. Initialising(q)' <=> Initialising(q)
    BY <2>1 DEF Initialising
  \* Where A does nothing to the pin, nothing comes of it.
  <2>5. ASSUME down'[q].flush = down[q].flush, endFlush'[q] = endFlush[q], flushed'[q] = flushed[q],
               hrOk'[q] = hrOk[q], InFlush(q)' <=> InFlush(q), Reached(q)' => Reached(q),
               Reached(q)' /\ app'.pc = "endFlush" => app.pc = "endFlush"
        PROVE  Taking(q)' /\ (~overtaken' => Unbroken(q)')
    BY <1>e, <2>1, <2>3, <2>4, <2>5 DEF Taking, Unbroken
  <2>6. CASE ASeek
    <3>1. app.pc = "idle" /\ app'.pc = "reset" /\ app'.pin = 1
      BY <2>6, AppMoves DEF ASeek
    <3>2. (InFlush(q)' <=> InFlush(q)) /\ ~Reached(q)'
      BY <1>m, <3>1 DEF InFlush, Reached
    <3>3. down' = down /\ UNCHANGED pinFlags
      BY <2>6 DEF ASeek, BeginFlush
    <3> QED
      BY <2>5, <3>2, <3>3 DEF pinFlags
  <2>7. CASE AReset
    <3>1. app.pc = "reset" /\ app'.pc = "deny" /\ app'.pin = app.pin
      BY <2>7, AppMoves DEF AReset
    <3>2. CASE q # app.pin
      <4>1. (InFlush(q)' <=> InFlush(q)) /\ ~Reached(q)'
        BY <1>m, <3>1, <3>2 DEF InFlush, Reached
      <4>2. /\ down'[q] = down[q] /\ endFlush'[q] = endFlush[q] /\ flushed'[q] = flushed[q]
            /\ hrOk'[q] = hrOk[q]
        BY <1>4, <3>2, AppFlags
      <4> QED
        BY <2>5, <4>1, <4>2
    <3>3. CASE q = app.pin
      <4>1. ~InFlush(q) /\ InFlush(q)' /\ ~Reached(q)'
        BY <1>m, <3>1, <3>3 DEF InFlush, Reached
      <4>2. ~endFlush'[q]
        BY <2>7, <3>3, AppFlags
      <4>3. ~overtaken' => ~overtaken /\ worker[q].pc \notin {"report", "fail"}
        <5>1. overtaken' = (overtaken \/ (worker[app.pin].pc \in {"wait", "report"} /\ flushed[app.pin]))
          BY <2>7 DEF AReset
        <5>2. ~overtaken => worker[q].pc # "fail" /\ (worker[q].pc = "report" => flushed[q])
          BY <1>r, <2>3, <4>1 DEF Unbroken
        <5> QED
          BY <1>e, <3>3, <5>1, <5>2
      <4> QED
        BY <1>e, <2>1, <2>3, <4>1, <4>2, <4>3 DEF Taking, Unbroken
    <3> QED
      BY <3>2, <3>3
  <2>8. CASE ADeny
    <3>1. /\ app.pc = "deny" /\ app'.pc = "flushDown" /\ app'.pin = app.pin
          /\ (InFlush(q)' <=> InFlush(q)) /\ ~Reached(q)'
      BY <2>8, AppMoves DEF ADeny, InFlush, Reached
    <3>2. q = app.pin => InFlush(q)
      BY <1>m, <3>1 DEF InFlush
    <3>3. /\ down' = down /\ endFlush' = endFlush /\ flushed' = flushed
          /\ q # app.pin => hrOk'[q] = hrOk[q]
      BY <2>8, AppFlags DEF ADeny
    <3> QED
      BY <1>e, <2>1, <2>3, <2>4, <3>1, <3>2, <3>3 DEF Taking, Unbroken
  <2>9. CASE AFlushDown
    <3>1. /\ app.pc = "flushDown"
          /\ \/ app'.pc = "reset" /\ app'.pin = app.pin + 1
             \/ app'.pc = "call" /\ app.pin = NumPins
      BY <2>9, AppMoves DEF AFlushDown
    <3>2. (InFlush(q)' <=> InFlush(q)) /\ ~Reached(q)' /\ (q = app.pin => InFlush(q))
      BY <1>m, <3>1 DEF InFlush, Reached
    <3>3. /\ endFlush'[q] = endFlush[q] /\ flushed'[q] = flushed[q] /\ hrOk'[q] = hrOk[q]
          /\ q # app.pin => down'[q] = down[q]
      <4>1. q = app.pin => endFlush'[q] = endFlush[q]
        BY <1>f, <2>9, AppFlags
      <4> QED
        BY <1>4, <2>9, <4>1, AppFlags DEF AFlushDown
    <3> QED
      BY <1>e, <2>1, <2>3, <2>4, <3>1, <3>2, <3>3 DEF Taking, Unbroken
  <2>10. CASE ACall
    <3>1. app.pc = "call" /\ app'.pc \in {"called", "endDown"} /\ app'.pin = 1
      BY <2>10, AppMoves DEF ACall
    <3>2. (InFlush(q)' <=> InFlush(q)) /\ ~Reached(q)'
      BY <1>m, <3>1 DEF InFlush, Reached
    <3> QED
      BY <2>5, <2>10, <3>2 DEF ACall, pinFlags
  <2>11. CASE AAnswered
    <3>1. app.pc = "called" /\ app'.pc = "endDown" /\ app'.pin = 1
      BY <2>11, AppMoves DEF AAnswered
    <3>2. (InFlush(q)' <=> InFlush(q)) /\ ~Reached(q)'
      BY <1>m, <3>1 DEF InFlush, Reached
    <3> QED
      BY <2>5, <2>11, <3>2 DEF AAnswered, pinFlags
  <2>12. CASE AEndDown
    <3>1. ThreadExists(app.pin)
      BY <1>m, <2>2 DEF Control, Threads
    <3>2. app.pc = "endDown" /\ app'.pc = "allow" /\ app'.pin = app.pin
      BY <2>12, <3>1, AppMoves DEF AEndDown
    <3>3. InFlush(q)' <=> InFlush(q)
      BY <3>2 DEF InFlush
    <3>4. /\ q = app.pin => ~down'[q].flush
          /\ q # app.pin => down'[q] = down[q] /\ ~Reached(q)'
          /\ UNCHANGED pinFlags
      BY <1>4, <2>12, <3>1, <3>2, AppFlags DEF AEndDown, Reached
    <3> QED
      BY <1>e, <2>1, <2>3, <2>4, <3>2, <3>3, <3>4 DEF Taking, Unbroken, pinFlags
  <2>13. CASE AAllow
    <3>1. app.pc = "allow" /\ app'.pc = "endFlush" /\ app'.pin = app.pin
      BY <2>13, AppMoves DEF AAllow
    <3>2. (InFlush(q)' <=> InFlush(q)) /\ (Reached(q)' <=> Reached(q))
      BY <3>1 DEF InFlush, Reached
    <3>3. /\ down' = down /\ endFlush' = endFlush /\ flushed' = flushed
          /\ q = app.pin => hrOk'[q]
          /\ q # app.pin => hrOk'[q] = hrOk[q] /\ ~Reached(q)'
      BY <2>13, <3>1, AppFlags DEF AAllow, Reached
    <3> QED
      BY <1>e, <2>1, <2>3, <2>4, <3>1, <3>2, <3>3 DEF Taking, Unbroken
  <2>14. CASE AEndFlush
    <3>1. /\ app.pc = "endFlush"
          /\ \/ app'.pc = "endDown" /\ app'.pin = app.pin + 1
             \/ app'.pc = "ended" /\ app.pin = NumPins
      BY <2>14, AppMoves DEF AEndFlush
    <3>2. CASE q # app.pin
      <4>1. (InFlush(q)' <=> InFlush(q)) /\ ~Reached(q)'
        BY <1>m, <3>1, <3>2 DEF InFlush, Reached
      <4>2. /\ down'[q] = down[q] /\ endFlush'[q] = endFlush[q] /\ flushed'[q] = flushed[q]
            /\ hrOk'[q] = hrOk[q]
        BY <1>4, <3>2, AppFlags
      <4> QED
        BY <2>5, <4>1, <4>2
    <3>3. CASE q = app.pin
      <4>1. InFlush(q) /\ Reached(q) /\ ~InFlush(q)' /\ ~Reached(q)'
        BY <1>m, <3>1, <3>3 DEF InFlush, Reached
      <4>2. flushed'[q] /\ hrOk' = hrOk /\ down' = down
        BY <2>14, <3>3, AppFlags DEF AEndFlush
      <4> QED
        BY <1>e, <2>1, <2>3, <3>1, <4>1, <4>2 DEF Taking, Unbroken
    <3> QED
      BY <3>2, <3>3
  <2>15. CASE AEnded
    <3>1. /\ app.pc = "ended" /\ app'.pc \in {"inactive", "idle"}
          /\ (InFlush(q)' <=> InFlush(q)) /\ ~Reached(q)'
      BY <2>15, AppMoves DEF AEnded, InFlush, Reached
    <3> QED
      BY <2>5, <2>15, <3>1 DEF AEnded, pinFlags
  <2>16. CASE AInactive \/ AJoin
    <3>1. /\ app.pc \in {"inactive", "join"} /\ app'.pc \in {"inactive", "join", "stopped"}
          /\ (InFlush(q)' <=> InFlush(q)) /\ ~Reached(q)'
      BY <2>16, AppMoves DEF AInactive, AJoin, InFlush, Reached
    <3> QED
      BY <2>5, <2>16, <3>1 DEF AInactive, AJoin, pinFlags
  <2> QED
    BY <1>4, <2>6, <2>7, <2>8, <2>9, <2>10, <2>11, <2>12, <2>13, <2>14, <2>15, <2>16 DEF ANext, AContinue
<1> QED
  BY <1>1, <1>2, <1>4

-----------------------------------------------------------------------------
(***************************************************************************)
(* Packets without a gap.                                                  *)
(***************************************************************************)
\* The packets of this pass in the queue, in the hands of W, downstream; only
\* the first packet of a queue is of an earlier pass.
Queued(p) == IF queue[p] # <<>> /\ ~Current(queue[p][1]) THEN Len(queue[p]) - 1 ELSE Len(queue[p])
InHand(p) == IF Held(p) /\ Current(worker[p].pkt) THEN 1 ELSE 0
Taken(p) == IF Current(down[p].last) THEN down[p].last.n ELSE 0
Sent(p) == IF split.pc = "segment" THEN 0 ELSE Added(p)

Numbered(p) ==
    \A i \in 1 .. Len(queue[p]) : Current(queue[p][i]) => queue[p][i].n = Sent(p) - (Len(queue[p]) - i)
Complete(p) == Taken(p) + InHand(p) + Queued(p) = Sent(p)
Following(p) == InHand(p) = 1 => worker[p].pkt.n = Taken(p) + 1
Contiguous(p) == Numbered(p) /\ Complete(p) /\ Following(p)

\* The end of the stream is queued only when the file has been read.
ReadOut == split.pc \in {"end", "idle"} \/ split.eos => \A p \in Pins : split.pos[p] = FileLength

Gapless ==
    ~early /\ ~overtaken /\ app.pc = "idle" /\ split.pc \in Past \cup {"segment"}
    => /\ ReadOut
       /\ \A p \in Pins : ~down[p].fails /\ Seen(p) => p \in active /\ Contiguous(p)

LEMMA GaplessStarted == Init => Gapless
  BY DEF Init, Gapless

LEMMA GaplessA ==
    ASSUME IInv, Control, ANext
    PROVE  Gapless'
<1> SUFFICES ASSUME app'.pc = "idle" PROVE split'.pc \notin Past \cup {"segment"}
  BY DEF Gapless
<1>1. AStart => split'.pc = "init"
  BY DEF AStart, IInv, TypeOK, SplitType
<1>2. ~AStart => AEnded /\ split' = split
  BY AppMoves, AppPackets DEF Went, Turned, ANext, AContinue
<1>3. AEnded => split.pc \in {"broken", "flushWait"}
  BY AppMoves DEF AEnded, Went, Control, Demuxer, Through, Ending
<1> QED
  BY <1>1, <1>2, <1>3 DEF Past

\* What is true of a pin that runs and whose downstream pin does not fail.
LEMMA Healthy ==
    ASSUME IInv, Alive, ~early, ~overtaken, app.pc = "idle", NEW p \in Pins, ~down[p].fails
    PROVE  hrOk[p] /\ down[p].run /\ (~Initialising(p) => ~down[p].flush)
  BY DEF Alive, Taking, Unbroken, Running, InFlush

LEMMA StillContiguous ==
    ASSUME NEW p \in Pins, Contiguous(p), queue'[p] = queue[p], down'[p].last = down[p].last,
           Held(p)' <=> Held(p), Held(p) => worker'[p].pkt = worker[p].pkt,
           split'.pass = split.pass, Sent(p)' = Sent(p)
    PROVE  Contiguous(p)'
<1>1. Taken(p)' = Taken(p) /\ InHand(p)' = InHand(p) /\ Queued(p)' = Queued(p)
  BY DEF Taken, InHand, Queued, Current
<1>2. Numbered(p)'
  BY DEF Contiguous, Numbered, Current
<1>3. Complete(p)'
  BY <1>1 DEF Contiguous, Complete
<1>4. Following(p)'
  BY <1>1 DEF Contiguous, Following, InHand
<1> QED
  BY <1>2, <1>3, <1>4 DEF Contiguous

\* W hands on the first packet of the queue.
LEMMA GaplessTake ==
    ASSUME IInv, NEW p \in Pins, Fresh(p), app.pc = "idle", WTake(p), hrOk[p], Contiguous(p)
    PROVE  Contiguous(p)'
<1>t. queue[p] \in Seq(PacketType)
  BY Typed
<1>n. WNext(p)
  BY DEF WNext, WGoOn
<1>1. UNCHANGED split
  BY <1>n, WorkerMoves
<1>2. /\ queue[p] # <<>> /\ queue'[p] = Tail(queue[p]) /\ down'[p].last = down[p].last
      /\ ~Held(p) /\ Held(p)' /\ worker'[p].pkt = queue[p][1]
  <2>1. Took(p)
    BY <1>n, WorkerPackets DEF WTake, WAccepted
  <2>2. Held(p)'
    BY <1>n, WorkerMoves DEF Held
  <2> QED
    BY <1>t, <2>1, <2>2, Indices, Typed DEF Took
<1> DEFINE n == Len(queue[p])
<1>3. /\ n \in Nat /\ n > 0 /\ Len(queue'[p]) = n - 1
      /\ \A i \in 1 .. n - 1 : queue'[p][i] = queue[p][i + 1]
      /\ 1 \in 1 .. n
      /\ \A i \in 1 .. n - 1 : i + 1 \in 1 .. n /\ i + 1 # 1
  <2>1. /\ n \in Nat /\ n > 0 /\ Len(queue'[p]) = n - 1
        /\ \A i \in 1 .. n - 1 : queue'[p][i] = queue[p][i + 1]
    BY <1>t, <1>2, Indices, Typed
  <2> HIDE DEF n
  <2> QED
    BY <2>1
<1>4. Sent(p)' = Sent(p) /\ Sent(p) \in Int
  BY <1>1, AddedNumber DEF Sent, Added
<1>5. Numbered(p)'
  <2> SUFFICES ASSUME NEW i \in 1 .. n - 1, Current(queue[p][i])'
               PROVE  queue'[p][i].n = Sent(p) - ((n - 1) - i)
    BY <1>3, <1>4 DEF Numbered
  <2>1. Current(queue[p][i + 1])
    BY <1>1, <1>3 DEF Current
  <2>2. queue[p][i + 1].n = Sent(p) - (n - (i + 1))
    BY <1>3, <2>1 DEF Contiguous, Numbered
  <2>3. queue'[p][i] = queue[p][i + 1]
    BY <1>3
  <2> HIDE DEF n
  <2>4. n - (i + 1) = (n - 1) - i
    BY <1>3
  <2> QED
    BY <2>2, <2>3, <2>4
<1>6. Taken(p)' = Taken(p) /\ InHand(p) = 0 /\ Queued(p)' = n - 1
  <2>1. Taken(p)' = Taken(p) /\ InHand(p) = 0
    BY <1>1, <1>2 DEF Taken, InHand, Current
  <2>2. queue'[p] # <<>> => 1 \in 1 .. n - 1
    BY <1>3, <1>2, <1>t, EmptySeq
  <2>3. queue'[p] # <<>> => Current(queue[p][1])'
    BY <1>1, <1>3, <2>2 DEF Fresh, Rest, Current
  <2> QED
    BY <1>3, <2>1, <2>3 DEF Queued
<1>7. Taken(p) \in Int
  BY Typed, SizeAssumption DEF Taken, PacketType, EndOfStream
<1>8. CASE Current(queue[p][1])
  <2>1. Queued(p) = n /\ InHand(p)' = 1
    BY <1>1, <1>2, <1>8 DEF Queued, InHand, Current
  <2>2. queue[p][1].n = Sent(p) - (n - 1)
    BY <1>3, <1>8 DEF Contiguous, Numbered
  <2>3. Taken(p) + 0 + n = Sent(p)
    BY <1>6, <2>1 DEF Contiguous, Complete
  <2> HIDE DEF n
  <2>4. Taken(p) + 1 + (n - 1) = Sent(p) /\ queue[p][1].n = Taken(p) + 1
    BY <1>3, <1>4, <1>7, <2>2, <2>3
  <2>5. Complete(p)'
    BY <1>4, <1>6, <2>1, <2>4 DEF Complete
  <2>6. Following(p)'
    BY <1>2, <1>6, <2>4 DEF Following
  <2> QED
    BY <1>5, <2>5, <2>6 DEF Contiguous
<1>9. CASE ~Current(queue[p][1])
  <2>1. Queued(p) = n - 1 /\ InHand(p)' = 0
    BY <1>1, <1>2, <1>9 DEF Queued, InHand, Current
  <2>2. Complete(p)'
    BY <1>4, <1>6, <2>1 DEF Contiguous, Complete
  <2>3. Following(p)'
    BY <2>1 DEF Following
  <2> QED
    BY <1>5, <2>2, <2>3 DEF Contiguous
<1> QED
  BY <1>8, <1>9

\* The downstream pin takes the packet.
LEMMA GaplessAccepted ==
    ASSUME IInv, Ordered, NEW p \in Pins, WAccepted(p), Contiguous(p)
    PROVE  Contiguous(p)'
<1>n. WNext(p)
  BY DEF WNext, WGoOn
<1>1. UNCHANGED split
  BY <1>n, WorkerMoves
<1>2. queue'[p] = queue[p] /\ down'[p].last = worker[p].pkt /\ Held(p) /\ ~Held(p)'
  BY <1>n, WorkerPackets DEF WTake, WAccepted, Delivered
<1>3. Sent(p)' = Sent(p)
  BY <1>1 DEF Sent, Added
<1>4. Numbered(p)' /\ Queued(p)' = Queued(p) /\ InHand(p)' = 0 /\ Following(p)'
  BY <1>1, <1>2, <1>3 DEF Contiguous, Numbered, Queued, InHand, Following, Current
<1>5. /\ Taken(p) \in Nat /\ Queued(p) \in Int
  <2>1. Taken(p) \in Nat
    BY Typed, SizeAssumption DEF Taken, PacketType, EndOfStream
  <2>2. Queued(p) \in Int
    BY Typed, Indices DEF Queued
  <2> QED
    BY <2>1, <2>2
<1>6. CASE Current(worker[p].pkt)
  <2>1. InHand(p) = 1 /\ Taken(p)' = worker[p].pkt.n
    BY <1>1, <1>2, <1>6 DEF InHand, Taken, Current
  <2>2. Taken(p)' = Taken(p) + 1
    BY <2>1 DEF Contiguous, Following
  <2>3. Complete(p)'
    BY <1>3, <1>4, <1>5, <2>1, <2>2 DEF Contiguous, Complete
  <2> QED
    BY <1>4, <2>3 DEF Contiguous
<1>7. CASE ~Current(worker[p].pkt)
  <2>1. InHand(p) = 0 /\ Taken(p)' = 0
    BY <1>1, <1>2, <1>7 DEF InHand, Taken, Current
  <2>2. ~Current(down[p].last)
    BY <1>2, <1>7, Typed DEF Ordered, Sorted, BehindS, Behind, After, Current, PacketType
  <2>3. Taken(p) = 0
    BY <2>2 DEF Taken
  <2>4. Complete(p)'
    BY <1>3, <1>4, <2>1, <2>3 DEF Contiguous, Complete
  <2> QED
    BY <1>4, <2>4 DEF Contiguous
<1> QED
  BY <1>6, <1>7

LEMMA GaplessW ==
    ASSUME IInv, Ordered, Flushes, Alive, Gapless, NEW p \in Pins, WNext(p)
    PROVE  Gapless'
<1>1. UNCHANGED <<split, app, early, overtaken, active>>
  BY WorkerMoves
<1> SUFFICES ASSUME ~early, ~overtaken, app.pc = "idle", split.pc \in Past \cup {"segment"},
                    NEW q \in Pins, ~down[q].fails, Seen(q)'
             PROVE  q \in active /\ Contiguous(q)'
  <2>1. ReadOut => ReadOut'
    BY <1>1 DEF ReadOut
  <2>2. \A q \in Pins : down'[q].fails = down[q].fails
    BY WorkerFlags
  <2> QED
    BY <1>1, <2>1, <2>2 DEF Gapless
<1>2. Kept(q) \/ Took(q) \/ Delivered(q) \/ Emptied(q)
  BY WorkerPackets
<1>3. q \in active /\ Contiguous(q)
  BY <1>1, <1>2, StillUnseen DEF Gapless
<1>s. Sent(q)' = Sent(q)
  BY <1>1 DEF Sent, Added
<1>4. CASE q # p
  <2>1. worker'[q] = worker[q] /\ queue'[q] = queue[q] /\ down'[q].last = down[q].last
    BY <1>4, WorkerMoves, WorkerPackets DEF Kept
  <2> QED
    BY <1>1, <1>3, <1>s, <2>1, StillContiguous DEF Held
<1>5. CASE q = p /\ WTake(p)
  BY <1>3, <1>5, Healthy, GaplessTake DEF Flushes
<1>6. CASE q = p /\ WAccepted(p)
  BY <1>3, <1>6, GaplessAccepted
<1>7. CASE q = p /\ ~WTake(p) /\ ~WAccepted(p)
  <2>1. ~WRefused(p)
    BY <1>7, Healthy DEF WRefused, Initialising
  <2>2. Kept(p)
    BY <1>7, WorkerPackets
  <2>3. Held(p) => Held(p)'
    <3>1. Held(p) => WAssert(p)
      BY <1>7, <2>1 DEF Held, WNext, WGoOn, WInit, WClear, WFlush, WExit, WEmpty, WWait, WReport, WFail
    <3>2. WAssert(p) => Held(p)'
      BY WorkerMoves DEF Held, Moved
    <3> QED
      BY <3>1, <3>2
  <2> QED
    BY <1>1, <1>3, <1>7, <1>s, <2>2, <2>3, StillContiguous DEF Kept
<1> QED
  BY <1>4, <1>5, <1>6, <1>7

\* S adds a packet of an active pin.
LEMMA GaplessAdd ==
    ASSUME IInv, Ordered, Flushes, NEW p \in Pins, p = split.pin, SAdd, Fresh(p), app.pc = "idle",
           Contiguous(p)
    PROVE  Contiguous(p)'
<1> DEFINE n == Len(queue[p])
           k == Packet(split.pass, IF split.eos THEN EndOfStream ELSE split.pos[p])
<1>t. queue[p] \in Seq(PacketType) /\ n \in Nat /\ split.pos[p] \in 0 .. FileLength /\ FileLength \in Nat
  BY Typed
<1>w. split \in [pc : SStates, pass : Nat, cmd : BOOLEAN, pos : [Pins -> 0 .. FileLength],
                 todo : SUBSET Pins, pin : Pins \cup {0}, eos : BOOLEAN]
  BY DEF IInv, TypeOK, SplitType
<1>1. /\ split.pc = "add" /\ split'.pc = (IF split.eos THEN "end" ELSE "demux")
      /\ split'.pass = split.pass /\ split'.pos = split.pos /\ split'.todo = split.todo /\ split'.eos = FALSE
  BY <1>w DEF SAdd, Returned
<1>2. /\ queue'[p] = Append(queue[p], k) /\ UNCHANGED worker /\ down' = down
  <2>1. queue' = [queue EXCEPT ![p] = Append(queue[p], k)]
    BY DEF SAdd, IInv, TypeOK, QueueType
  <2>2. UNCHANGED worker /\ down' = down
    BY DEF SAdd, OnlyS, wvars
  <2> QED
    BY <2>1, <2>2 DEF IInv, TypeOK, QueueType
<1>3. /\ Sent(p) \in Int /\ Sent(p)' = Sent(p) + 1 /\ k.n = Sent(p) + 1 /\ k.pass = split.pass
      /\ k \in PacketType
  <2>1. split.eos => p \notin split.todo
    BY DEF Ordered, Locals
  <2>2. /\ Sent(p) = (IF split.eos THEN FileLength ELSE split.pos[p] - 1)
        /\ Sent(p)' = (IF split.eos THEN EndOfStream ELSE split.pos[p])
    BY <1>1, <2>1 DEF Sent, Added
  <2>3. /\ k.n = (IF split.eos THEN EndOfStream ELSE split.pos[p]) /\ k.pass = split.pass
        /\ k \in PacketType
    BY <1>t, <1>w DEF Packet, PacketType, EndOfStream
  <2> HIDE DEF k
  <2> QED
    BY <1>t, <2>2, <2>3 DEF EndOfStream
<1> HIDE DEF k
<1>4. /\ Len(queue'[p]) = n + 1
      /\ \A i \in 1 .. n : queue'[p][i] = queue[p][i]
      /\ queue'[p][n + 1] = k
      /\ queue'[p] # <<>>
  BY <1>t, <1>2, <1>3, Indices
<1> HIDE DEF n
<1>i. \A i \in 1 .. n + 1 : i \in 1 .. n \/ i = n + 1
  BY <1>t
<1>5. Numbered(p)'
  <2> SUFFICES ASSUME NEW i \in 1 .. n + 1, Current(queue[p][i])'
               PROVE  queue'[p][i].n = Sent(p)' - ((n + 1) - i)
    BY <1>4 DEF Numbered
  <2>1. CASE i = n + 1
    BY <1>t, <1>3, <1>4, <2>1
  <2>2. CASE i \in 1 .. n
    <3>1. queue'[p][i] = queue[p][i] /\ Current(queue[p][i])
      BY <1>1, <1>4, <2>2 DEF Current
    <3>2. queue[p][i].n = Sent(p) - (n - i)
      BY <2>2, <3>1 DEF Contiguous, Numbered, n
    <3>3. Sent(p) - (n - i) = (Sent(p) + 1) - ((n + 1) - i)
      BY <1>t, <1>3, <2>2
    <3> QED
      BY <1>3, <3>1, <3>2, <3>3
  <2> QED
    BY <1>i, <2>1, <2>2
<1>6. Taken(p)' = Taken(p) /\ InHand(p)' = InHand(p)
  BY <1>1, <1>2 DEF Taken, InHand, Held, Current
<1>7. Queued(p)' = Queued(p) + 1 /\ Queued(p) \in Int
  <2>1. CASE queue[p] = <<>>
    <3>1. n = 0
      BY <2>1, EmptySeq DEF n
    <3>2. queue'[p][1] = k
      BY <1>4, <3>1
    <3> QED
      BY <1>1, <1>3, <1>4, <2>1, <3>1, <3>2 DEF Queued, Current, n
  <2>2. CASE queue[p] # <<>>
    <3>1. 1 \in 1 .. n
      BY <1>t, <2>2, Indices, Typed DEF n
    <3>2. queue'[p][1] = queue[p][1]
      BY <1>4, <3>1
    <3> QED
      BY <1>t, <1>1, <1>4, <2>2, <3>2 DEF Queued, Current, n
  <2> QED
    BY <2>1, <2>2
<1>8. Complete(p)'
  <2>1. Taken(p) \in Int /\ InHand(p) \in Int
    BY Typed, SizeAssumption DEF Taken, InHand, PacketType, EndOfStream
  <2> QED
    BY <1>3, <1>6, <1>7, <2>1 DEF Contiguous, Complete
<1>9. Following(p)'
  BY <1>2, <1>6 DEF Contiguous, Following
<1> QED
  BY <1>5, <1>8, <1>9 DEF Contiguous

LEMMA GaplessS ==
    ASSUME IInv, Control, Ordered, Flushes, Alive, Gapless, SNext
    PROVE  Gapless'
<1>1. UNCHANGED <<app, early, overtaken, worker, pinFlags>>
      /\ \A p \in Pins : down'[p].last = down[p].last /\ down'[p].fails = down[p].fails
  BY SplitPackets
<1>w. /\ split \in [pc : SStates, pass : Nat, cmd : BOOLEAN, pos : [Pins -> 0 .. FileLength],
                    todo : SUBSET Pins, pin : Pins \cup {0}, eos : BOOLEAN]
      /\ queue \in [Pins -> Seq(PacketType)] /\ active \subseteq Pins /\ FileLength \in Nat
  BY SizeAssumption DEF IInv, TypeOK, SplitType, QueueType
<1>l. Locals
  BY DEF Ordered
<1> SUFFICES ASSUME ~early, ~overtaken, app.pc = "idle", split'.pc \in Past \cup {"segment"}
             PROVE  /\ ReadOut'
                    /\ \A p \in Pins : ~down[p].fails /\ Seen(p)' => p \in active' /\ Contiguous(p)'
  BY <1>1 DEF Gapless
<1>r. request = "none"
  BY DEF Control, Answering, IInv, TypeOK, SplitType
<1>h. \A p \in Pins : ~down[p].fails => hrOk[p]
  BY Healthy
\* Before the segments are delivered nothing of the pass is about.
<1>n. split.pc = "flushWait" =>
        \A p \in Pins : /\ ~Current(down[p].last)
                        /\ Held(p) => ~Current(worker[p].pkt)
                        /\ \A i \in 1 .. Len(queue[p]) : ~Current(queue[p][i])
  <2> SUFFICES ASSUME split.pc = "flushWait"
               PROVE  \A p \in Pins : \A k \in PacketType : Behind(p, k) => ~Current(k)
    BY Typed, Indices DEF Ordered, BehindS
  <2> QED
    BY <1>w DEF Behind, Added, Current, PacketType
<1>2. CASE SFlushWait
  <2>1. /\ split.pc = "flushWait" /\ split'.pc = "segment" /\ queue' = queue
        /\ split'.pass = split.pass /\ active' = {} /\ split'.eos = split.eos
    BY <1>2, <1>w DEF SFlushWait
  <2>2. ReadOut'
    BY <1>l, <2>1 DEF ReadOut, Locals
  <2>3. \A p \in Pins : ~Seen(p)'
    BY <1>1, <1>n, <2>1 DEF Seen, Current, Held
  <2> QED
    BY <2>2, <2>3
<1> DEFINE G(p) == p \in active /\ Contiguous(p)
\* S has begun the pass before the step.
<1>g. split.pc \in Past \cup {"segment"} =>
        ReadOut /\ \A p \in Pins : ~down[p].fails /\ Seen(p) => G(p)
  BY DEF Gapless
<1> HIDE DEF G
\* A pin that the step leaves alone stays as it is.
<1>k. ASSUME NEW p \in Pins, split.pc \in Past \cup {"segment"}, split'.pass = split.pass,
             queue'[p] = queue[p], ~down[p].fails, Seen(p)',
             p \in active => p \in active' /\ Sent(p)' = Sent(p), p \in active' => p \in active
      PROVE  p \in active' /\ Contiguous(p)'
  <2>1. Kept(p)
    BY <1>1, <1>k DEF Kept, Held
  <2>2. Seen(p)
    BY <1>k, <2>1, StillUnseen
  <2>3. p \in active /\ Contiguous(p)
    BY <1>g, <1>k, <2>2 DEF G
  <2> QED
    BY <1>1, <1>k, <2>3, StillContiguous DEF Held
<1>3. CASE SSegment
  <2>1. PICK q \in First(split.todo) :
          /\ active' = active \cup {q}
          /\ split' = [split EXCEPT !.todo = @ \ {q}]
          /\ split.pc = "segment" /\ queue' = queue
    BY <1>3 DEF SSegment
  <2>2. /\ q \in Pins /\ split'.pass = split.pass /\ split'.pc = "segment" /\ split'.eos = split.eos
    BY <1>w, <2>1 DEF First
  <2>3. ReadOut'
    BY <1>l, <2>1, <2>2 DEF ReadOut, Locals
  <2>4. ASSUME NEW p \in Pins, ~down[p].fails, Seen(p)'
        PROVE  p \in active' /\ Contiguous(p)'
    <3>1. CASE p # q \/ q \in active
      BY <1>k, <2>1, <2>2, <2>4, <3>1 DEF Sent
    <3>2. CASE p = q /\ q \notin active
      <4>1. ~Seen(p)
        BY <1>g, <2>1, <2>2, <2>4, <3>2 DEF G
      <4>2. \A i \in 1 .. Len(queue[p]) : ~Current(queue[p][i]) /\ i = 1
        BY <2>1, <4>1 DEF Seen, Flushes, Fresh, Rest, Past
      <4>3. Len(queue[p]) \in Nat /\ (queue[p] # <<>> => Len(queue[p]) > 0)
        BY Typed, Indices
      <4>4. Len(queue[p]) <= 1
        <5>1. CASE Len(queue[p]) > 1
          <6>1. Len(queue[p]) \in 1 .. Len(queue[p])
            BY <4>3, <5>1
          <6> QED
            BY <4>2, <5>1, <6>1
        <5> QED
          BY <4>3, <5>1
      <4>5. Taken(p)' = 0 /\ InHand(p)' = 0 /\ Sent(p)' = 0
        BY <1>1, <2>1, <2>2, <4>1 DEF Taken, InHand, Sent, Seen, Held, Current
      <4>6. Queued(p)' = 0
        <5>1. CASE queue[p] = <<>>
          BY <2>1, <5>1, EmptySeq DEF Queued
        <5>2. CASE queue[p] # <<>>
          <6>1. \A n \in Nat : n > 0 /\ n <= 1 => n = 1
            OBVIOUS
          <6>2. Len(queue[p]) = 1
            BY <4>3, <4>4, <5>2, <6>1
          <6> QED
            <7>1. 1 \in 1 .. Len(queue[p])
              BY <6>2
            <7> QED
              BY <2>1, <2>2, <4>2, <5>2, <6>2, <7>1 DEF Queued, Current
        <5> QED
          BY <5>1, <5>2
      <4>7. Numbered(p)'
        BY <2>1, <2>2, <4>2 DEF Numbered, Current
      <4>8. Complete(p)' /\ Following(p)'
        BY <4>5, <4>6 DEF Complete, Following
      <4> QED
        BY <2>1, <3>2, <4>7, <4>8 DEF Contiguous
    <3> QED
      BY <3>1, <3>2
  <2> QED
    BY <2>3, <2>4
<1>4. CASE SSegmentDone
  <2>1. /\ split.pc = "segment" /\ split'.pc = "demux" /\ split'.pass = split.pass
        /\ split'.pos = split.pos /\ split'.eos = split.eos /\ queue' = queue /\ active' = active
    BY <1>w, <1>4 DEF SSegmentDone, SGo
  <2>2. ReadOut'
    BY <1>l, <2>1 DEF ReadOut, Locals
  <2>3. \A p \in Pins : Sent(p)' = Sent(p)
    BY <1>l, <2>1 DEF Sent, Added, Locals
  <2> QED
    BY <1>k, <2>1, <2>2, <2>3
<1>5. ASSUME NEW q \in Pins, SDemux(q)
      PROVE  ReadOut' /\ \A p \in Pins : ~down[p].fails /\ Seen(p)' => p \in active' /\ Contiguous(p)'
  <2>1. /\ split.pc = "demux" /\ split'.pass = split.pass /\ split'.eos = split.eos
        /\ split'.todo = split.todo /\ active' = active /\ queue' = queue
        /\ split'.pos = [split.pos EXCEPT ![q] = split.pos[q] + 1]
        /\ split'.pc = (IF q \in active THEN "queue" ELSE "demux")
        /\ q \in active => split'.pin = q
    BY <1>w, <1>5 DEF SDemux
  <2>2. ReadOut'
    BY <1>l, <2>1 DEF ReadOut, Locals
  <2>3. \A p \in Pins : split'.pos[p] = IF p = q THEN split.pos[p] + 1 ELSE split.pos[p]
    BY <1>w, <2>1
  <2>4. ~split.eos
    BY <1>l, <2>1 DEF Locals
  <2>5. ASSUME NEW p \in Pins, p \in active PROVE Sent(p)' = Sent(p)
    <3>1. split.pos[p] \in Nat
      BY <1>w
    <3> QED
      BY <2>1, <2>3, <2>4, <2>5, <3>1 DEF Sent, Added
  <2> QED
    BY <1>k, <2>1, <2>2, <2>5 DEF Past
<1>6. CASE SDemuxDone
  <2>1. /\ split.pc = "demux" /\ split'.pc = "end" /\ split'.pass = split.pass /\ split'.pos = split.pos
        /\ split'.eos = split.eos /\ split'.todo = active /\ active' = active /\ queue' = queue
        /\ \A p \in Pins : split.pos[p] = FileLength
    BY <1>w, <1>r, <1>6 DEF SDemuxDone
  <2>2. ReadOut' /\ \A p \in active : Sent(p)' = Sent(p)
    BY <1>w, <2>1 DEF ReadOut, Sent, Added
  <2> QED
    BY <1>k, <2>1, <2>2 DEF Past
<1>7. CASE SEnd
  <2>1. /\ split.pc = "end" /\ split'.pass = split.pass /\ split'.pos = split.pos
        /\ active' = active /\ queue' = queue
    BY <1>w, <1>7 DEF SEnd
  <2>2. ReadOut'
    BY <1>g, <2>1 DEF ReadOut, Past
  <2>3. \A p \in Pins : Sent(p)' = Sent(p)
    <3>1. CASE split.todo = {}
      <4>1. split'.pc = "idle" /\ split'.eos = split.eos
        BY <1>7, <1>w, <3>1 DEF SEnd
      <4> QED
        BY <2>1, <3>1, <4>1 DEF Sent, Added
    <3>2. CASE split.todo # {}
      <4>1. PICK q \in First(split.todo) :
              split' = [split EXCEPT !.pc = "queue", !.pin = q, !.todo = @ \ {q}, !.eos = TRUE]
        BY <1>7, <1>r, <3>2 DEF SEnd
      <4>2. /\ q \in split.todo /\ split'.pc = "queue" /\ split'.pin = q /\ split'.eos
            /\ split'.todo = split.todo \ {q}
        BY <1>w, <4>1 DEF First
      <4> QED
        BY <2>1, <4>2 DEF Sent, Added
    <3> QED
      BY <3>1, <3>2
  <2> QED
    BY <1>k, <2>1, <2>2, <2>3 DEF Past
<1>8. CASE SQueue
  <2>1. split.pc = "queue" /\ queue' = queue /\ split.pin \in Pins
    BY <1>8 DEF SQueue, IInv, TypeOK, SplitType
  <2>2. CASE hrOk[split.pin]
    <3>1. /\ split'.pc = "add" /\ split'.pass = split.pass /\ split'.eos = split.eos
          /\ split'.todo = split.todo /\ split'.pin = split.pin /\ split'.pos = split.pos
          /\ active' = active
      BY <1>8, <1>w, <2>2 DEF SQueue, SGo
    <3>2. ReadOut' /\ \A p \in Pins : Sent(p)' = Sent(p)
      BY <1>g, <2>1, <3>1 DEF ReadOut, Past, Sent, Added
    <3> QED
      BY <1>k, <2>1, <3>1, <3>2 DEF Past
  <2>3. CASE ~hrOk[split.pin]
    <3>1. /\ split'.pc = (IF split.eos THEN "end" ELSE "demux") /\ split'.pass = split.pass
          /\ split'.eos = FALSE /\ split'.todo = split.todo /\ split'.pos = split.pos
          /\ active' = IF split.eos THEN active ELSE active \ {split.pin}
      BY <1>8, <1>w, <2>3 DEF SQueue, Returned
    <3>2. ReadOut'
      BY <1>g, <2>1, <3>1 DEF ReadOut, Past
    <3>3. ASSUME NEW p \in Pins, ~down[p].fails PROVE p # split.pin /\ Sent(p)' = Sent(p)
      <4>1. p # split.pin
        BY <1>h, <2>3, <3>3
      <4> QED
        BY <2>1, <3>1, <4>1 DEF Sent, Added
    <3> QED
      BY <1>k, <2>1, <3>1, <3>2, <3>3 DEF Past
  <2> QED
    BY <2>2, <2>3
<1>9. CASE SAdd
  <2>1. /\ split.pc = "add" /\ split'.pc = (IF split.eos THEN "end" ELSE "demux")
        /\ split'.pass = split.pass /\ split'.eos = FALSE /\ split'.todo = split.todo
        /\ split'.pos = split.pos /\ split.pin \in Pins /\ split.pin \in active
        /\ active' = IF hrOk[split.pin] \/ split.eos THEN active ELSE active \ {split.pin}
    BY <1>9, <1>w, <1>l DEF SAdd, Returned, Locals
  <2>2. ReadOut'
    BY <1>g, <2>1 DEF ReadOut, Past
  <2>3. ASSUME NEW p \in Pins, ~down[p].fails, Seen(p)' PROVE p \in active' /\ Contiguous(p)'
    <3>1. CASE p # split.pin
      <4>1. queue'[p] = queue[p]
        BY <1>9, <1>w, <3>1 DEF SAdd
      <4>2. Sent(p)' = Sent(p)
        BY <2>1, <3>1 DEF Sent, Added
      <4> QED
        BY <1>k, <2>1, <2>3, <3>1, <4>1, <4>2 DEF Past
    <3>2. CASE p = split.pin
      <4>1. p \in active' /\ G(p)
        BY <1>g, <1>h, <2>1, <2>3, <3>2 DEF Seen, Past
      <4>2. Fresh(p) /\ Contiguous(p)
        BY <4>1 DEF Flushes, G
      <4> QED
        BY <1>9, <3>2, <4>1, <4>2, GaplessAdd
    <3> QED
      BY <3>1, <3>2
  <2> QED
    BY <2>2, <2>3
<1>10. CASE SInit \/ SBroken \/ SSeek
  BY <1>w, <1>10 DEF SInit, SBroken, SSeek, SGo, Past
<1>11. CASE SRequest
  BY <1>r, <1>11 DEF SRequest
<1> QED
  BY <1>2, <1>3, <1>4, <1>5, <1>6, <1>7, <1>8, <1>9, <1>10, <1>11 DEF SNext

-----------------------------------------------------------------------------
FInv == IInv /\ Control /\ Ordered /\ Flushes /\ Segments /\ Alive /\ Gapless

LEMMA FlushInvariant == Spec => []FInv
<1>1. Init => FInv
  BY Started, ControlStarted, OrderedStarted, FlushesStarted, SegmentsStarted, AliveStarted,
     GaplessStarted DEF FInv
<1>2. ASSUME FInv, [Next]_vars PROVE FInv'
  <2> USE <1>2 DEF FInv
  <2>1. CASE ANext
    BY <2>1, AppStep, ControlA, OrderedA, FlushesA, SegmentsA, AliveA, GaplessA
  <2>2. CASE SNext
    BY <2>2, DemuxerStep, ControlS, OrderedS, FlushesS, SegmentsS, AliveS, GaplessS
  <2>3. ASSUME NEW p \in Pins, WNext(p) PROVE FInv'
    BY <2>3, WorkerStep, ControlW, OrderedW, FlushesW, SegmentsW, AliveW, GaplessW
  <2>4. CASE UNCHANGED vars
    <3> USE <2>4 DEF vars, pinFlags, wvars, svars, fvars, avars
    <3>1. IInv'
      BY Stuttered
    <3>2. Control'
      BY DEF Control, Answering, Demuxer, Threads, Refusals, Through, Running, ThreadExists
    <3>3. Ordered'
      BY DEF Ordered, Sorted, BehindS, Behind, Added, Locals, Held
    <3>4. Flushes'
      BY DEF Flushes, Ready, Open, Shut, Fresh, Slim, Denied, Over, Running, Initialising, Current
    <3>5. Segments'
      BY DEF Segments, Seen, Held, Current
    <3>6. Alive'
      BY DEF Alive, Taking, Unbroken, InFlush, Reached, Running, Initialising
    <3>7. Gapless'
      BY DEF Gapless, ReadOut, Seen, Contiguous, Numbered, Complete, Following, Taken, InHand, Queued,
             Sent, Added, Held, Current
    <3> QED
      BY <3>1, <3>2, <3>3, <3>4, <3>5, <3>6, <3>7
  <2> QED
    BY <1>2, <2>1, <2>2, <2>3, <2>4 DEF Next
<1> QED
  BY <1>1, <1>2, PTL DEF Spec

\* Only the downstream pin of W takes a packet, and the one that W has in its
\* hands.
LEMMA LastChanges ==
    ASSUME FInv, [Next]_vars, NEW p \in Pins, down'[p].last # down[p].last
    PROVE  Held(p) /\ down'[p].last = worker[p].pkt /\ UNCHANGED split
<1> USE DEF FInv
<1>1. ~ANext /\ ~SNext /\ ~UNCHANGED vars
  BY AppPackets, SplitPackets DEF vars
<1>2. PICK q \in Pins : WNext(q)
  BY <1>1 DEF Next
<1>3. UNCHANGED split
  BY <1>2, WorkerMoves
<1>4. q = p
  BY <1>2, WorkerPackets DEF Kept
<1>5. Delivered(p)
  BY <1>2, <1>4, WorkerPackets DEF Kept, Took
<1> QED
  BY <1>3, <1>5 DEF Delivered

\* What the downstream pin of CBaseSplitterOutputPin::ThreadProc takes comes in
\* the order of the file, pass after pass, and nothing after the end of the
\* stream, also when a packet of the pass before slips through a flush.
THEOREM PacketsInOrder == Spec => InOrder
<1>1. FInv /\ [Next]_vars => [\A p \in Pins : down'[p].last # down[p].last
                               => After(down'[p].last, down[p].last)]_vars
  <2> SUFFICES ASSUME FInv, [Next]_vars, NEW p \in Pins, down'[p].last # down[p].last
               PROVE  After(down'[p].last, down[p].last)
    OBVIOUS
  <2>1. Held(p) /\ down'[p].last = worker[p].pkt
    BY LastChanges
  <2> QED
    BY <2>1 DEF FInv, Ordered, Sorted
<1> QED
  BY FlushInvariant, <1>1, PTL DEF Spec, InOrder

\* Of what was queued before a seek one packet at most is still there when the
\* next pass has begun: the one that QueuePacket was about to add when
\* DeliverBeginFlush emptied the queue.
THEOREM FewLeft == Spec => []FewStale
<1>1. FInv => FewStale
  <2> SUFFICES ASSUME FInv, Settled, ~early, NEW p \in Pins
               PROVE  Cardinality(Stale(p)) <= 1
    BY DEF FewStale
  <2>1. Stale(p) \subseteq {1}
    <3>1. \A i \in 1 .. Len(queue[p]) : i = 1 \/ Current(queue[p][i])
      BY DEF FInv, Flushes, Fresh, Rest, Settled
    <3>2. \A k \in PacketType : Current(k) => ~(k.pass < split.pass)
      BY DEF Current, PacketType, FInv, IInv, TypeOK, SplitType
    <3>3. \A i \in 1 .. Len(queue[p]) : queue[p][i] \in PacketType
      BY Typed, Indices DEF FInv
    <3> QED
      BY <3>1, <3>2, <3>3 DEF Stale
  <2>2. Stale(p) = {} \/ Stale(p) = {1}
    BY <2>1
  <2>3. Cardinality({}) = 0
    BY FS_EmptySet
  <2>4. Cardinality({1}) = 1
    BY FS_Singleton
  <2>5. Cardinality(Stale(p)) \in {0, 1}
    BY <2>2, <2>3, <2>4
  <2> QED
    BY <2>5
<1> QED
  BY FlushInvariant, <1>1, PTL

\* The downstream pin knows the segment of a packet when the packet comes,
\* though S delivers the segment itself and W the packet.
THEOREM SegmentFirst == Spec => []SegmentKnown
<1>1. FInv => SegmentKnown
  <2> SUFFICES ASSUME FInv, Settled, ~early, NEW p \in Pins, Current(down[p].last)
               PROVE  down[p].seg = split.pass
    BY DEF SegmentKnown, Current
  <2>1. CASE split.pc = "flushWait"
    BY <2>1, Typed DEF FInv, Ordered, BehindS, Behind, Added, Current, PacketType
  <2>2. CASE split.pc # "flushWait"
    <3>1. split.pc \in Past \cup {"segment"}
      BY <2>2 DEF Settled, Past, SStates, FInv, IInv, TypeOK, SplitType
    <3> QED
      BY <3>1 DEF FInv, Segments, Seen, Settled
  <2> QED
    BY <2>1, <2>2
<1> QED
  BY FlushInvariant, <1>1, PTL

\* After a flush m_hrDeliver is S_OK again for every pin whose downstream pin
\* works: no refusal that the flush caused is reported as an error.
THEOREM NoPinDies == Spec => []PinsAlive
<1>1. FInv => PinsAlive
  BY Healthy DEF FInv, PinsAlive
<1> QED
  BY FlushInvariant, <1>1, PTL

\* After a seek no packet of the new pass is lost on its way through the queue
\* and the thread of its pin.
THEOREM NothingLost == Spec => NoGap
<1>1. FInv /\ [Next]_vars =>
        [Settled /\ ~early /\ ~overtaken =>
              \A p \in Pins : /\ ~down[p].fails
                             /\ down'[p].last # down[p].last
                             /\ down'[p].last.pass = split.pass
                             => FollowsOn(down'[p].last, down[p].last, split.pass)]_vars
  <2> SUFFICES ASSUME FInv, [Next]_vars, Settled, ~early, ~overtaken, NEW p \in Pins,
                      ~down[p].fails, down'[p].last # down[p].last,
                      down'[p].last.pass = split.pass
               PROVE  FollowsOn(down'[p].last, down[p].last, split.pass)
    OBVIOUS
  <2>1. Held(p) /\ down'[p].last = worker[p].pkt /\ Current(worker[p].pkt)
    BY LastChanges DEF Current
  <2>2. split.pc # "flushWait"
    BY <2>1, Typed DEF FInv, Ordered, BehindS, Behind, Added, Current, PacketType
  <2>3. split.pc \in Past \cup {"segment"} /\ app.pc = "idle"
    BY <2>2 DEF Settled, Past, SStates, FInv, IInv, TypeOK, SplitType
  <2>4. Contiguous(p)
    BY <2>1, <2>3 DEF FInv, Gapless, Seen
  <2>5. worker[p].pkt.n = Taken(p) + 1
    BY <2>1, <2>4 DEF Contiguous, Following, InHand
  <2> QED
    BY <2>1, <2>5 DEF FollowsOn, Taken, Current
<1> QED
  BY FlushInvariant, <1>1, PTL DEF Spec, NoGap
=============================================================================
