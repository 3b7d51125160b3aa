------------------------------ MODULE Splitter ------------------------------
(***************************************************************************)
(* The threads of a splitter filter,                                       *)
(* src/src/filters/parser/BaseSplitter/BaseSplitter.                       *)
(*                                                                         *)
(* Actors:                                                                 *)
(*   A     the application, which starts, seeks and stops the filter under *)
(*         the filter's lock, one call at a time;                          *)
(*   S     the demuxing thread of the filter (CBaseSplitterFilter's        *)
(*         ThreadProc with the DemuxLoop of DSMSplitter);                  *)
(*   W[p]  the delivering thread of output pin p (CBaseSplitterOutputPin's *)
(*         ThreadProc), between a packet queue and the downstream pin.     *)
(*                                                                         *)
(* m_hrDeliver, m_fFlushing and m_fFlushed have no lock: a step is an      *)
(* access to them, a critical section of the packet queue or a call of the *)
(* downstream pin.  Two such accesses are one step where no other thread   *)
(* tells the state between them from the one before or after.  All output  *)
(* pins of the model are connected and their streams are selected.         *)
(***************************************************************************)
EXTENDS Integers, Sequences, FiniteSets, Functions

CONSTANTS
    NumPins,     \* output pins
    MaxPackets,  \* m_QueueMaxPackets
    MinPackets,  \* MINPACKETS
    FileLength,  \* packets of each stream in the file
    MaxStarts,   \* bound: starts of the filter
    MaxSeeks,    \* bound: seeks
    MaxStops,    \* bound: stops
    DownFails    \* whether a downstream pin may refuse a packet or a flush: the cases

ASSUME PinAssumption == NumPins \in Nat \ {0}
ASSUME SizeAssumption == MaxPackets \in Nat /\ MinPackets \in Nat /\ FileLength \in Nat
ASSUME BoundAssumption == MaxStarts \in Nat /\ MaxSeeks \in Nat /\ MaxStops \in Nat
ASSUME DownAssumption == DownFails \subseteq BOOLEAN /\ DownFails # {}

Pins == 1 .. NumPins

VARIABLES
    queue,      \* m_queue of each pin
    hrOk,       \* m_hrDeliver = S_OK
    flushing,   \* m_fFlushing of each pin
    flushed,    \* m_fFlushed of each pin
    endFlush,   \* m_eEndFlush of each pin, manual-reset
    worker,     \* W: where it is, and the locals of its ThreadProc
    exitReq,    \* CMD_EXIT sent to W and not answered yet
    down,       \* the downstream pin: running, flushing, its segment, its last packet
    fFlushing,  \* m_fFlushing of the filter
    fEndFlush,  \* m_eEndFlush of the filter, auto-reset
    request,    \* the request to S, "none" when there is none
    answered,   \* m_EventComplete of S
    active,     \* m_pActivePins
    split,      \* S: where it is, and the locals of its ThreadProc
    app,        \* A: where it is
    starts, seeks, stops,
    early,      \* history: a flush began before a W had initialised its pin, or S
                \* started while the pin had the flags of the last flush left
    overtaken   \* history: a flush began before a W had noticed the one before

pinFlags == <<hrOk, flushing, flushed, endFlush>>
wvars == <<worker, exitReq>>
svars == <<request, answered, active, split>>
fvars == <<fFlushing, fEndFlush>>
avars == <<app, starts, seeks, stops, early, overtaken>>
vars == <<queue, pinFlags, wvars, down, svars, fvars, avars>>

\* Packets are numbered in each pass over the file; the null packet that ends
\* the stream comes after all of them.
EndOfStream == FileLength + 1
Packet(pass, n) == [pass |-> pass, n |-> n]
NoPacket == Packet(0, 0)

ThreadExists(p) == worker[p].pc # "none"
First(set) == {p \in set : \A q \in set : p <= q}

IsAnyPinDrying ==
    LET count == [p \in Pins |-> Len(queue[p])]
    IN  (\E p \in active : count[p] < MinPackets) \/ FoldFunctionOnSet(+, 0, count, active) < MaxPackets

\* Mutant of Full: the limit that holds whatever the other pins want is left out.
NeverTooMany(p) == Len(queue[p]) > MaxPackets /\ ~IsAnyPinDrying

Full(p) == \/ Len(queue[p]) > 2 * MaxPackets
           \/ Len(queue[p]) > MaxPackets /\ ~IsAnyPinDrying

-----------------------------------------------------------------------------
(***************************************************************************)
(* W: ThreadProc of an output pin.                                         *)
(***************************************************************************)
OnlyW == UNCHANGED <<svars, fvars, avars>>
WGo(p, pc) == worker' = [worker EXCEPT ![p].pc = pc]

WInit(p) ==
    /\ worker[p].pc = "init"
    /\ hrOk' = [hrOk EXCEPT ![p] = TRUE]
    /\ WGo(p, "clear")
    /\ OnlyW /\ UNCHANGED <<queue, flushing, flushed, endFlush, exitReq, down>>

WClear(p) ==
    /\ worker[p].pc = "clear"
    /\ flushing' = [flushing EXCEPT ![p] = FALSE]
    /\ flushed' = [flushed EXCEPT ![p] = FALSE]
    /\ endFlush' = [endFlush EXCEPT ![p] = TRUE]
    /\ WGo(p, "flush")
    /\ OnlyW /\ UNCHANGED <<queue, hrOk, exitReq, down>>

\* GetConnected()->BeginFlush() and EndFlush()
WFlush(p) ==
    /\ worker[p].pc = "flush"
    /\ down' = [down EXCEPT ![p].flush = FALSE]
    /\ WGo(p, "top")
    /\ OnlyW /\ UNCHANGED <<queue, pinFlags, exitReq>>

WExit(p) ==
    /\ worker[p].pc = "top" /\ exitReq[p]
    /\ WGo(p, "none")
    /\ exitReq' = [exitReq EXCEPT ![p] = FALSE]
    /\ OnlyW /\ UNCHANGED <<queue, pinFlags, down>>

\* } while (--cnt > 0);
Looped(w) == [w EXCEPT !.pc = IF w.cnt > 1 THEN "take" ELSE "top",
                       !.cnt = 0, !.pkt = NoPacket, !.ok = TRUE]

\* Mutant of WTake: the newest packet comes out first.
TakeTail(p) ==
    LET last == Len(queue[p])
        taken == [worker[p] EXCEPT !.pc = "assert", !.pkt = queue[p][last], !.cnt = last]
    IN  /\ worker[p].pc = "take" \/ (worker[p].pc = "top" /\ ~exitReq[p])
        /\ queue[p] # <<>>
        /\ queue' = [queue EXCEPT ![p] = SubSeq(@, 1, last - 1)]
        /\ worker' = [worker EXCEPT ![p] = IF hrOk[p] THEN taken ELSE Looped(taken)]
        /\ OnlyW /\ UNCHANGED <<pinFlags, exitReq, down>>

\* cnt = GetCount() and Remove() under the lock of the queue; the packet is
\* dropped when m_hrDeliver is not S_OK.
WTake(p) ==
    LET taken == [worker[p] EXCEPT !.pc = "assert", !.pkt = Head(queue[p]), !.cnt = Len(queue[p])]
    IN  /\ worker[p].pc = "take" \/ (worker[p].pc = "top" /\ ~exitReq[p])
        /\ queue[p] # <<>>
        /\ queue' = [queue EXCEPT ![p] = Tail(@)]
        /\ worker' = [worker EXCEPT ![p] = IF hrOk[p] THEN taken ELSE Looped(taken)]
        /\ OnlyW /\ UNCHANGED <<pinFlags, exitReq, down>>

WEmpty(p) ==
    /\ worker[p].pc = "take" /\ queue[p] = <<>>
    /\ WGo(p, "top")
    /\ OnlyW /\ UNCHANGED <<queue, pinFlags, exitReq, down>>

\* ASSERT(!m_fFlushing); m_fFlushed = false;
WAssert(p) ==
    /\ worker[p].pc = "assert"
    /\ flushed' = [flushed EXCEPT ![p] = FALSE]
    /\ WGo(p, "deliver")
    /\ OnlyW /\ UNCHANGED <<queue, hrOk, flushing, endFlush, exitReq, down>>

\* DeliverPacket or DeliverEndOfStream: the downstream pin takes the packet,
\* when it pleases, or refuses it because it flushes, has stopped or failed.
WAccepted(p) ==
    /\ worker[p].pc = "deliver"
    /\ down[p].run /\ ~down[p].flush
    /\ down' = [down EXCEPT ![p].last = worker[p].pkt]
    /\ WGo(p, "wait")
    /\ OnlyW /\ UNCHANGED <<queue, pinFlags, exitReq>>

WRefused(p) ==
    /\ worker[p].pc = "deliver"
    /\ ~down[p].run \/ down[p].flush \/ down[p].fails
    /\ worker' = [worker EXCEPT ![p] = [@ EXCEPT !.pc = "wait", !.ok = FALSE]]
    /\ OnlyW /\ UNCHANGED <<queue, pinFlags, exitReq, down>>

\* if (hr != S_OK && !m_fFlushed)
Waited(p) ==
    IF worker[p].ok THEN worker' = [worker EXCEPT ![p] = Looped(@)] ELSE WGo(p, "report")

\* Mutant of WWait: an error during a flush is reported at once.
WaitNot(p) ==
    /\ worker[p].pc = "wait"
    /\ Waited(p)
    /\ OnlyW /\ UNCHANGED <<queue, pinFlags, exitReq, down>>

WWait(p) ==
    /\ worker[p].pc = "wait" /\ endFlush[p]
    /\ Waited(p)
    /\ OnlyW /\ UNCHANGED <<queue, pinFlags, exitReq, down>>

\* An error is reported only if the stream was not flushed; the report is a
\* step of its own after the test.
WReport(p) ==
    /\ worker[p].pc = "report"
    /\ IF flushed[p] THEN worker' = [worker EXCEPT ![p] = Looped(@)] ELSE WGo(p, "fail")
    /\ OnlyW /\ UNCHANGED <<queue, pinFlags, exitReq, down>>

WFail(p) ==
    /\ worker[p].pc = "fail"
    /\ hrOk' = [hrOk EXCEPT ![p] = FALSE]
    /\ worker' = [worker EXCEPT ![p] = [Looped(@) EXCEPT !.pc = "top"]]
    /\ OnlyW /\ UNCHANGED <<queue, flushing, flushed, endFlush, exitReq, down>>

WGoOn(p) == WInit(p) \/ WClear(p) \/ WFlush(p) \/ WExit(p) \/ WTake(p) \/ WEmpty(p) \/ WAssert(p)
            \/ WRefused(p) \/ WWait(p) \/ WReport(p) \/ WFail(p)
WNext(p) == WGoOn(p) \/ WAccepted(p)

-----------------------------------------------------------------------------
(***************************************************************************)
(* S: ThreadProc of the filter.                                            *)
(***************************************************************************)
OnlyS == UNCHANGED <<pinFlags, wvars, avars>>
SGo(pc) == split' = [split EXCEPT !.pc = pc]

\* m_EventSend is reset before the caller of CallWorker is signalled.
Reply == request' = "none" /\ answered' = TRUE

SInit ==
    /\ split.pc = "init"
    /\ \/ /\ fEndFlush' = TRUE /\ fFlushing' = FALSE
          /\ SGo("seek")
       \/ /\ SGo("broken")  \* DemuxInit fails
          /\ UNCHANGED fvars
    /\ OnlyS /\ UNCHANGED <<queue, down, request, answered, active>>

SBroken ==
    /\ split.pc = "broken" /\ request # "none"
    /\ SGo(IF request = "exit" THEN "none" ELSE "broken")
    /\ Reply
    /\ OnlyS /\ UNCHANGED <<queue, down, fvars, active>>

\* m_rtStart = m_rtNewStart and DemuxSeek: a new pass.
SSeek ==
    /\ split.pc = "seek"
    /\ split' = [split EXCEPT !.pc = "flushWait", !.pass = @ + 1, !.cmd = FALSE,
                              !.pos = [p \in Pins |-> 0]]
    /\ IF split.cmd THEN Reply ELSE UNCHANGED <<request, answered>>
    /\ OnlyS /\ UNCHANGED <<queue, down, fvars, active>>

\* Mutant of SFlushWait: the end of the flush is not waited for.
FlushWaitNot ==
    /\ split.pc = "flushWait"
    /\ fEndFlush' = FALSE
    /\ active' = {}
    /\ split' = [split EXCEPT !.pc = "segment", !.todo = Pins]
    /\ OnlyS /\ UNCHANGED <<queue, down, fFlushing, request, answered>>

SFlushWait ==
    /\ split.pc = "flushWait" /\ fEndFlush
    /\ fEndFlush' = FALSE
    /\ active' = {}
    /\ split' = [split EXCEPT !.pc = "segment", !.todo = Pins]
    /\ OnlyS /\ UNCHANGED <<queue, down, fFlushing, request, answered>>

\* while (pos && !m_fFlushing) ... DeliverNewSegment
SSegment ==
    \E p \in First(split.todo) :
        /\ split.pc = "segment" /\ ~fFlushing
        /\ active' = active \cup {p}
        /\ down' = IF flushing[p] \/ ~ThreadExists(p) THEN down
                   ELSE [down EXCEPT ![p].seg = split.pass]
        /\ split' = [split EXCEPT !.todo = @ \ {p}]
        /\ OnlyS /\ UNCHANGED <<queue, fvars, request, answered>>

SSegmentDone ==
    /\ split.pc = "segment" /\ (split.todo = {} \/ fFlushing)
    /\ SGo("demux")
    /\ OnlyS /\ UNCHANGED <<queue, down, fvars, request, answered, active>>

\* Mutant of SDemux: the end of the file is not looked at.
DemuxPast(p) ==
    /\ split.pc = "demux" /\ request = "none"
    /\ split' = [split EXCEPT !.pos[p] = @ + 1,
                              !.pc = IF p \in active THEN "queue" ELSE "demux",
                              !.pin = IF p \in active THEN p ELSE 0]
    /\ OnlyS /\ UNCHANGED <<queue, down, fvars, request, answered, active>>

\* DemuxLoop: packets come interleaved; those of a pin that has left the
\* active ones are dropped.
SDemux(p) ==
    /\ split.pc = "demux" /\ request = "none" /\ split.pos[p] < FileLength
    /\ split' = [split EXCEPT !.pos[p] = @ + 1,
                              !.pc = IF p \in active THEN "queue" ELSE "demux",
                              !.pin = IF p \in active THEN p ELSE 0]
    /\ OnlyS /\ UNCHANGED <<queue, down, fvars, request, answered, active>>

SDemuxDone ==
    /\ split.pc = "demux"
    /\ request # "none" \/ \A p \in Pins : split.pos[p] = FileLength
    /\ split' = [split EXCEPT !.pc = "end", !.todo = active]
    /\ OnlyS /\ UNCHANGED <<queue, down, fvars, request, answered, active>>

\* while (pos && !CheckRequest(&cmd)) QueueEndOfStream
SEnd ==
    /\ split.pc = "end"
    /\ IF request = "none" /\ split.todo # {}
       THEN \E p \in First(split.todo) :
              split' = [split EXCEPT !.pc = "queue", !.pin = p, !.todo = @ \ {p}, !.eos = TRUE]
       ELSE split' = [split EXCEPT !.pc = "idle", !.todo = {}]
    /\ OnlyS /\ UNCHANGED <<queue, down, fvars, request, answered, active>>

\* Mutant of Returned: S dies with the first pin that fails.
DieWithAny(ok) ==
    /\ active' = IF ok \/ split.eos THEN active ELSE {}
    /\ split' = [split EXCEPT !.pc = IF split.eos THEN "end" ELSE "demux",
                              !.pin = 0, !.eos = FALSE]

\* QueuePacket returns: an error takes the pin out of the active ones, unless
\* it was the end of the stream that was queued.
Returned(ok) ==
    /\ active' = IF ok \/ split.eos THEN active ELSE active \ {split.pin}
    /\ split' = [split EXCEPT !.pc = IF split.eos THEN "end" ELSE "demux",
                              !.pin = 0, !.eos = FALSE]

\* Mutant of SQueue: a packet that finds the queue full is dropped.
QueueOnce ==
    /\ split.pc = "queue"
    /\ IF hrOk[split.pin] /\ ~Full(split.pin) THEN SGo("add") /\ UNCHANGED active
       ELSE Returned(hrOk[split.pin])
    /\ OnlyS /\ UNCHANGED <<queue, down, fvars, request, answered>>

\* QueuePacket: the queue is polled until there is room or an error.
SQueue ==
    /\ split.pc = "queue" /\ ~(hrOk[split.pin] /\ Full(split.pin))
    /\ IF hrOk[split.pin] THEN SGo("add") /\ UNCHANGED active ELSE Returned(FALSE)
    /\ OnlyS /\ UNCHANGED <<queue, down, fvars, request, answered>>

SAdd ==
    LET p == split.pin
        n == IF split.eos THEN EndOfStream ELSE split.pos[p]
    IN  /\ split.pc = "add"
        /\ queue' = [queue EXCEPT ![p] = Append(@, Packet(split.pass, n))]
        /\ Returned(hrOk[p])
        /\ OnlyS /\ UNCHANGED <<down, fvars, request, answered>>

SRequest ==
    /\ split.pc = "idle" /\ request # "none"
    /\ IF request = "exit"
       THEN SGo("none") /\ Reply
       ELSE split' = [split EXCEPT !.pc = "seek", !.cmd = TRUE] /\ UNCHANGED <<request, answered>>
    /\ OnlyS /\ UNCHANGED <<queue, down, fvars, active>>

SNext == \/ SInit \/ SBroken \/ SSeek \/ SFlushWait \/ SSegment \/ SSegmentDone
         \/ (\E p \in Pins : SDemux(p)) \/ SDemuxDone \/ SEnd \/ SQueue \/ SAdd \/ SRequest

-----------------------------------------------------------------------------
(***************************************************************************)
(* A: Pause from stopped, SetPositions, Stop.                              *)
(***************************************************************************)
OnlyA == UNCHANGED <<active, split>>
AGo(pc, p) == app' = [app EXCEPT !.pc = pc, !.pin = p]
Tallies == <<starts, seeks, stops, early>>
Calm == UNCHANGED <<Tallies, overtaken>>

\* The threads of the pins are created, then that of the filter.
AStart ==
    /\ app.pc = "stopped" /\ starts < MaxStarts
    /\ starts' = starts + 1
    /\ down' = [p \in Pins |-> [down[p] EXCEPT !.run = TRUE]]
    /\ worker' = [p \in Pins |-> [worker[p] EXCEPT !.pc = "init"]]
    /\ split' = [split EXCEPT !.pc = "init"]
    /\ AGo("idle", 1)
    /\ early' = (early \/ \E p \in Pins : flushing[p] \/ ~hrOk[p])
    /\ UNCHANGED <<queue, pinFlags, exitReq, fvars, request, answered, active, seeks, stops,
                   overtaken>>

BeginFlush ==
    /\ fFlushing' = TRUE
    /\ early' = (early \/ \E p \in Pins : worker[p].pc \in {"init", "clear", "flush"})
    /\ OnlyA /\ UNCHANGED <<queue, pinFlags, wvars, fEndFlush, request, answered, starts,
                           overtaken>>

ASeek ==
    /\ app.pc = "idle" /\ seeks < MaxSeeks
    /\ seeks' = seeks + 1
    /\ app' = [pc |-> "reset", pin |-> 1, cmd |-> "seek"]
    /\ BeginFlush /\ UNCHANGED <<down, stops>>

\* The graph stops the filters downstream first, and may stop a filter that
\* has stopped already.
AStop ==
    /\ app.pc \in {"idle", "stopped"} /\ stops < MaxStops
    /\ stops' = stops + 1
    /\ down' = [p \in Pins |-> [down[p] EXCEPT !.run = FALSE, !.flush = FALSE]]
    /\ app' = [pc |-> "reset", pin |-> 1, cmd |-> "exit"]
    /\ BeginFlush /\ UNCHANGED seeks

\* DeliverBeginFlush of one pin after the other.
AReset ==
    /\ app.pc = "reset"
    /\ endFlush' = [endFlush EXCEPT ![app.pin] = FALSE]
    /\ flushed' = [flushed EXCEPT ![app.pin] = FALSE]
    /\ flushing' = [flushing EXCEPT ![app.pin] = TRUE]
    /\ overtaken' = (overtaken \/ (worker[app.pin].pc \in {"wait", "report"} /\ flushed[app.pin]))
    /\ AGo("deny", app.pin)
    /\ OnlyA /\ UNCHANGED Tallies /\ UNCHANGED <<queue, hrOk, wvars, down, fvars, request, answered>>

\* Mutant of ADeny: the queue is not emptied.
DenyOnly ==
    /\ app.pc = "deny"
    /\ hrOk' = [hrOk EXCEPT ![app.pin] = FALSE]
    /\ AGo("flushDown", app.pin)
    /\ OnlyA /\ Calm /\ UNCHANGED <<queue, flushing, flushed, endFlush, wvars, down, fvars,
                                    request, answered>>

\* Mutant of ADeny: S and W are not told that nothing is taken any more.
EmptyOnly ==
    /\ app.pc = "deny"
    /\ queue' = [queue EXCEPT ![app.pin] = <<>>]
    /\ AGo("flushDown", app.pin)
    /\ OnlyA /\ Calm /\ UNCHANGED <<pinFlags, wvars, down, fvars, request, answered>>

\* m_hrDeliver = S_FALSE; m_queue.RemoveAll()
ADeny ==
    /\ app.pc = "deny"
    /\ hrOk' = [hrOk EXCEPT ![app.pin] = FALSE]
    /\ queue' = [queue EXCEPT ![app.pin] = <<>>]
    /\ AGo("flushDown", app.pin)
    /\ OnlyA /\ Calm /\ UNCHANGED <<flushing, flushed, endFlush, wvars, down, fvars,
                                    request, answered>>

NextPin(pc, last) == IF app.pin < NumPins THEN AGo(pc, app.pin + 1) ELSE AGo(last, 1)

AFlushDown ==
    /\ app.pc = "flushDown"
    /\ \/ /\ down' = [down EXCEPT ![app.pin].flush = TRUE]
          /\ UNCHANGED endFlush
       \/ /\ down[app.pin].fails
          /\ endFlush' = [endFlush EXCEPT ![app.pin] = TRUE]
          /\ UNCHANGED down
    /\ NextPin("reset", "call")
    /\ OnlyA /\ Calm /\ UNCHANGED <<queue, hrOk, flushing, flushed, wvars, fvars, request, answered>>

\* CallWorker, which does nothing without the thread: m_EventSend, then
\* m_EventComplete.
ACall ==
    /\ app.pc = "call"
    /\ IF split.pc = "none"
       THEN AGo("endDown", 1) /\ UNCHANGED request
       ELSE AGo("called", 1) /\ request' = app.cmd
    /\ OnlyA /\ Calm /\ UNCHANGED <<queue, pinFlags, wvars, down, fvars, answered>>

AAnswered ==
    /\ app.pc = "called" /\ answered
    /\ answered' = FALSE
    /\ AGo("endDown", 1)
    /\ OnlyA /\ Calm /\ UNCHANGED <<queue, pinFlags, wvars, down, fvars, request>>

\* DeliverEndFlush of one pin after the other.
AEndDown ==
    /\ app.pc = "endDown"
    /\ IF ThreadExists(app.pin)
       THEN AGo("allow", app.pin) /\ down' = [down EXCEPT ![app.pin].flush = FALSE]
       ELSE NextPin("endDown", "ended") /\ UNCHANGED down
    /\ OnlyA /\ Calm /\ UNCHANGED <<queue, pinFlags, wvars, fvars, request, answered>>

\* Mutant of AAllow: the result of the flush stays.
AllowNot ==
    /\ app.pc = "allow"
    /\ AGo("endFlush", app.pin)
    /\ OnlyA /\ Calm /\ UNCHANGED <<queue, pinFlags, wvars, down, fvars, request, answered>>

AAllow ==
    /\ app.pc = "allow"
    /\ hrOk' = [hrOk EXCEPT ![app.pin] = TRUE]
    /\ AGo("endFlush", app.pin)
    /\ OnlyA /\ Calm /\ UNCHANGED <<queue, flushing, flushed, endFlush, wvars, down, fvars,
                                    request, answered>>

\* Mutant of AEndFlush: m_eEndFlush is not set.
EndUnset ==
    /\ app.pc = "endFlush"
    /\ flushing' = [flushing EXCEPT ![app.pin] = FALSE]
    /\ flushed' = [flushed EXCEPT ![app.pin] = TRUE]
    /\ NextPin("endDown", "ended")
    /\ OnlyA /\ Calm /\ UNCHANGED <<queue, hrOk, endFlush, wvars, down, fvars, request, answered>>

AEndFlush ==
    /\ app.pc = "endFlush"
    /\ flushing' = [flushing EXCEPT ![app.pin] = FALSE]
    /\ flushed' = [flushed EXCEPT ![app.pin] = TRUE]
    /\ endFlush' = [endFlush EXCEPT ![app.pin] = TRUE]
    /\ NextPin("endDown", "ended")
    /\ OnlyA /\ Calm /\ UNCHANGED <<queue, hrOk, wvars, down, fvars, request, answered>>

AEnded ==
    /\ app.pc = "ended"
    /\ fFlushing' = FALSE /\ fEndFlush' = TRUE
    /\ AGo(IF app.cmd = "exit" THEN "inactive" ELSE "idle", 1)
    /\ OnlyA /\ Calm /\ UNCHANGED <<queue, pinFlags, wvars, down, request, answered>>

\* Inactive of one pin after the other: CallWorker(CMD_EXIT).
AInactive ==
    /\ app.pc = "inactive"
    /\ exitReq' = [exitReq EXCEPT ![app.pin] = ThreadExists(app.pin)]
    /\ AGo("join", app.pin)
    /\ OnlyA /\ Calm /\ UNCHANGED <<queue, pinFlags, worker, down, fvars, request, answered>>

AJoin ==
    /\ app.pc = "join" /\ ~exitReq[app.pin]
    /\ NextPin("inactive", "stopped")
    /\ OnlyA /\ Calm /\ UNCHANGED <<queue, pinFlags, wvars, down, fvars, request, answered>>

AContinue == AReset \/ ADeny \/ AFlushDown \/ ACall \/ AAnswered \/ AEndDown
             \/ AAllow \/ AEndFlush \/ AEnded \/ AInactive \/ AJoin
ANext == AStart \/ ASeek \/ AStop \/ AContinue

-----------------------------------------------------------------------------
Init ==
    /\ queue = [p \in Pins |-> <<>>] /\ hrOk = [p \in Pins |-> TRUE]
    /\ flushing = [p \in Pins |-> FALSE] /\ flushed = [p \in Pins |-> FALSE]
    /\ endFlush = [p \in Pins |-> FALSE]
    /\ worker = [p \in Pins |-> [pc |-> "none", pkt |-> NoPacket, cnt |-> 0, ok |-> TRUE]]
    /\ exitReq = [p \in Pins |-> FALSE]
    /\ \E f \in [Pins -> DownFails] :
         down = [p \in Pins |-> [run |-> FALSE, flush |-> FALSE, seg |-> 0, last |-> NoPacket,
                                 fails |-> f[p]]]
    /\ fFlushing = FALSE /\ fEndFlush = FALSE
    /\ request = "none" /\ answered = FALSE /\ active = {}
    /\ split = [pc |-> "none", pass |-> 0, cmd |-> FALSE, pos |-> [p \in Pins |-> 0],
                todo |-> {}, pin |-> 0, eos |-> FALSE]
    /\ app = [pc |-> "stopped", pin |-> 1, cmd |-> "seek"]
    /\ starts = 0 /\ seeks = 0 /\ stops = 0 /\ early = FALSE /\ overtaken = FALSE

Next == ANext \/ SNext \/ \E p \in Pins : WNext(p)

(***************************************************************************)
(* Fairness: the threads run and calls go on.  The downstream pin answers  *)
(* when it flushes or has stopped; otherwise it may hold a packet for ever *)
(* (a paused renderer does).                                               *)
(***************************************************************************)
Fairness == WF_vars(AContinue) /\ WF_vars(SNext) /\ \A p \in Pins : WF_vars(WGoOn(p))

\* A renderer that plays takes what it is given.
Playing == \A p \in Pins : SF_vars(WAccepted(p))

Spec == Init /\ [][Next]_vars
FairSpec == Spec /\ Fairness

-----------------------------------------------------------------------------
(***************************************************************************)
(* Properties.                                                             *)
(***************************************************************************)
WStates == {"none", "init", "clear", "flush", "top", "take", "assert", "deliver", "wait", "report", "fail"}
SStates == {"none", "init", "broken", "seek", "flushWait", "segment", "demux", "end", "queue",
            "add", "idle"}
AStates == {"stopped", "idle", "reset", "deny", "flushDown", "call", "called", "endDown",
            "allow", "endFlush", "ended", "inactive", "join"}

\* Every variable keeps its type.
PacketType == [pass : Nat, n : 0 .. EndOfStream]
QueueType == queue \in [Pins -> Seq(PacketType)]
FlagType == /\ hrOk \in [Pins -> BOOLEAN] /\ flushing \in [Pins -> BOOLEAN]
            /\ flushed \in [Pins -> BOOLEAN] /\ endFlush \in [Pins -> BOOLEAN]
            /\ fFlushing \in BOOLEAN /\ fEndFlush \in BOOLEAN
WorkerType == /\ worker \in [Pins -> [pc : WStates, pkt : PacketType, cnt : Nat, ok : BOOLEAN]]
              /\ exitReq \in [Pins -> BOOLEAN]
DownType == down \in [Pins -> [run : BOOLEAN, flush : BOOLEAN, seg : Nat, last : PacketType,
                             fails : BOOLEAN]]
SplitType == /\ split \in [pc : SStates, pass : Nat, cmd : BOOLEAN, pos : [Pins -> 0 .. FileLength],
                           todo : SUBSET Pins, pin : Pins \cup {0}, eos : BOOLEAN]
             /\ split.pc \in {"queue", "add"} => split.pin # 0
             /\ active \subseteq Pins
             /\ request \in {"none", "seek", "exit"} /\ answered \in BOOLEAN
AppType == /\ app \in [pc : AStates, pin : Pins, cmd : {"seek", "exit"}]
           /\ starts \in 0 .. MaxStarts /\ seeks \in 0 .. MaxSeeks /\ stops \in 0 .. MaxStops
           /\ early \in BOOLEAN /\ overtaken \in BOOLEAN
TypeOK == QueueType /\ FlagType /\ WorkerType /\ DownType /\ SplitType /\ AppType

\* A packet queue keeps its limit: twice m_QueueMaxPackets and the packet that
\* S was about to add, also with the packet that slips in during a flush.
QueueBounded == \A p \in Pins : Len(queue[p]) <= 2 * MaxPackets + 1

\* No flush is in progress and S has begun the pass that follows it.
Settled == app.pc = "idle" /\ split.pc \notin {"none", "init", "broken", "seek"}

\* The downstream pin gets the packets in the order of the file, pass after
\* pass, and nothing after the end of the stream: also when a packet of the
\* pass before slips through a flush.
After(a, b) == a.pass > b.pass \/ (a.pass = b.pass /\ a.n > b.n)
InOrder == [][\A p \in Pins : down'[p].last # down[p].last
                               => After(down'[p].last, down[p].last)]_vars

\* After a seek the downstream pin gets the packets from the new position on,
\* none of them lost: a flush drops none of the pass that follows it.
FollowsOn(a, b, pass) == a.n = IF b.pass = pass THEN b.n + 1 ELSE 1
NoGap == [][Settled /\ ~early /\ ~overtaken =>
              \A p \in Pins : /\ ~down[p].fails
                             /\ down'[p].last # down[p].last
                             /\ down'[p].last.pass = split.pass
                             => FollowsOn(down'[p].last, down[p].last, split.pass)]_vars

\* S may be about to add a packet when a flush empties the queue of the pin;
\* nothing more of an earlier pass survives a flush there.
Stale(p) == {i \in 1 .. Len(queue[p]) : queue[p][i].pass < split.pass}
FewStale == Settled /\ ~early => \A p \in Pins : Cardinality(Stale(p)) <= 1

\* Once a flush is over, a packet of the new pass reaches the downstream pin
\* only after the NewSegment of that pass, though the two take different ways.
SegmentKnown ==
    Settled /\ ~early => \A p \in Pins : down[p].last.pass = split.pass => down[p].seg = split.pass

\* A flush leaves no pin dead: refusals caused by the flush itself are not
\* taken for errors, unless the next flush came before W had looked.
PinsAlive == app.pc = "idle" /\ ~early /\ ~overtaken
             => \A p \in Pins : ~down[p].fails => hrOk[p]

\* A call returns, although the downstream pin holds a packet for ever when it
\* is paused and S waits for room in a queue.
SeekReturns == app.pc = "reset" /\ app.cmd = "seek" ~> app.pc = "idle" \/ early
StopReturns == app.pc = "reset" /\ app.cmd = "exit" ~> app.pc = "stopped" \/ early

\* While the renderer plays, S and the threads of the pins go on until every
\* stream has come to its end downstream; a pin that fails is left behind and
\* does not hold up the others.
Undisturbed == app.pc = "idle" /\ split.pc # "broken" /\ ~early /\ ~overtaken
Ended(p) == down[p].last = Packet(split.pass, EndOfStream)
StreamsEnd ==
    Playing => (Undisturbed ~> \/ \A p \in Pins : hrOk[p] \/ ~down[p].fails => Ended(p)
                               \/ ~Undisturbed)

\* ".. and only report the error in m_hrDeliver if we didn't flush the stream":
\* a downstream pin that runs and does not fail refuses packets only during a
\* flush, so that there is nothing to report.
FlushNotReported ==
    ~early => \A p \in Pins : worker[p].pc = "fail" => ~down[p].run \/ down[p].fails
=============================================================================
