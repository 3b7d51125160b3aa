------------------------------ MODULE BaseMuxer ------------------------------
(***************************************************************************)
(* The base muxer, src/src/filters/muxer/BaseMuxer/BaseMuxer.cpp           *)
(* (CBaseMuxerFilter) and BaseMuxerInputPin.cpp (CBaseMuxerInputPin).      *)
(*                                                                         *)
(* Every connected input has a queue of packets, filled by the streaming   *)
(* thread of the filter upstream and emptied by the one thread of the      *)
(* muxer, which takes the packet with the earliest time once all inputs    *)
(* have one.  A full queue makes its streaming thread wait, about a second *)
(* at most; an input without packets makes the muxer let all of them go on *)
(* so that they do not wait for each other.  The application starts,       *)
(* pauses and stops the filter, the filter upstream may flush an input.    *)
(*                                                                         *)
(* External: the streaming threads (what they send and that they do so     *)
(* only between the start and the stop of the graph), the output, and      *)
(* CAMThread, through which the application calls the thread.  The state   *)
(* of m_fEOS is left out: only an ASSERT reads it.                         *)
(***************************************************************************)
EXTENDS Integers, Sequences, FiniteSets

CONSTANTS
    NumPins,       \* connected inputs, in the order of m_pInputs
    MAXQUEUESIZE,
    Times,         \* the times of samples
    NoTime,        \* a sample without one
    Samples,       \* what is sent: whether it is a sync point, and its time
    MuxFails,      \* writing may throw (BitStream.cpp)
    MaxEvents      \* bound: samples, flushes and starts

ASSUME PinsAssumption == NumPins \in Nat \ {0}
ASSUME QueueAssumption == MAXQUEUESIZE \in Nat \ {0}
ASSUME TimesAssumption == Times \subseteq Nat /\ NoTime \notin Int
ASSUME SamplesAssumption == Samples \subseteq [sync : BOOLEAN, time : Times \cup {NoTime}]
ASSUME FailsAssumption == MuxFails \in BOOLEAN
ASSUME BoundAssumption == MaxEvents \in Nat

VARIABLES
    m_State,      \* of the filter
    main,         \* the application: what it is at and the next pin of its loop
    request,      \* what CallWorker asks of the thread
    worker,       \* the thread: what it is at and the locals of GetPacket
    m_pActivePins,
    m_queue, m_rtMaxStart, m_evAcceptPacket, m_bFlushing,  \* of each input
    up,           \* the streaming thread of each input, in PushPacket with a packet
    ended,        \* history: it has ended the stream
    file,         \* history: what was written to the output
    last,         \* history: the time of the last sync point given out
    stale,        \* history: packets of the last session were left in a queue
    events        \* history: samples, flushes and starts

pinVars == <<m_queue, m_rtMaxStart, m_evAcceptPacket, m_bFlushing>>
upVars == <<up, ended, events>>
appVars == <<m_State, main, request, stale>>
workVars == <<worker, m_pActivePins, file, last>>
vars == <<pinVars, upVars, appVars, workVars>>

Pins == 1..NumPins
Least == -1  \* _I64_MIN
NoPacket == [kind |-> "none", time |-> NoTime]
Packets ==
         [kind : {"sync"}, time : Times]
    \cup [kind : {"delta", "bogus"}, time : Times \cup {NoTime}]
    \cup {[kind |-> "eos", time |-> NoTime]}

IsActive == m_State # "Stopped"

\* The thread outside GetPacket: its locals have no value.
Idle == [at |-> "none", next |-> 1, best |-> 0, min |-> NoTime, dry |-> FALSE]

\* A packet that is given out at once, whatever the other inputs have.
Urgent(k) == k.kind \in {"bogus", "eos"} \/ k.time = NoTime

-----------------------------------------------------------------------------
(* The streaming threads. *)

\* Mutant of Stamp: sync points without a time are not marked.
StampLateOnly(s, max) ==
    [kind |-> IF ~s.sync THEN "delta"
              ELSE IF s.time # NoTime /\ s.time < max THEN "bogus" ELSE "sync",
     time |-> s.time]

\* Receive: a sync point without a time, or earlier than what came before, is
\* marked as bogus.
Stamp(s, max) ==
    [kind |-> IF ~s.sync THEN "delta"
              ELSE IF s.time = NoTime \/ s.time < max THEN "bogus" ELSE "sync",
     time |-> s.time]

Latest(max, t) == IF t = NoTime \/ t < max THEN max ELSE t

\* What comes during a flush is dropped, as is what came just before it: it is
\* left to that.
Receive(p) ==
    /\ up[p].at = "idle" /\ ~ended[p] /\ events < MaxEvents
    /\ IsActive /\ ~m_bFlushing[p]
    /\ \E s \in Samples :
         /\ up' = [up EXCEPT ![p] = [at |-> "wait", packet |-> Stamp(s, m_rtMaxStart[p])]]
         /\ m_rtMaxStart' = [m_rtMaxStart EXCEPT ![p] = Latest(@, s.time)]
    /\ events' = events + 1
    /\ UNCHANGED <<m_queue, m_evAcceptPacket, m_bFlushing, ended, appVars, workVars>>

EndOfStream(p) ==
    /\ up[p].at = "idle" /\ ~ended[p]
    /\ IsActive /\ ~m_bFlushing[p]
    /\ up' = [up EXCEPT ![p] = [at |-> "wait", packet |-> [kind |-> "eos", time |-> NoTime]]]
    /\ ended' = [ended EXCEPT ![p] = TRUE]
    /\ UNCHANGED <<pinVars, events, appVars, workVars>>

Goto(p, at) == up' = [up EXCEPT ![p].at = at]

\* PushPacket: there is room, or it has looked a thousand times, for a
\* millisecond each.
Pass(p) ==
    /\ up[p].at = "wait"
    /\ IsActive /\ ~m_bFlushing[p]
    /\ Goto(p, "add")
    /\ UNCHANGED <<pinVars, ended, events, appVars, workVars>>

Admitted(p) == m_evAcceptPacket[p] /\ Pass(p)
TimedOut(p) == ~m_evAcceptPacket[p] /\ Pass(p)

\* The packet is dropped.  What makes it so lasts until PushPacket has returned:
\* that it is looked at twice, in the loop and after it, makes no difference.
Drop(p) ==
    /\ up[p].at = "wait"
    /\ ~IsActive \/ m_bFlushing[p]
    /\ up' = [up EXCEPT ![p] = [at |-> "idle", packet |-> NoPacket]]
    /\ UNCHANGED <<pinVars, ended, events, appVars, workVars>>

\* Under m_csQueue: the state of the filter is not looked at again.
Add(p) ==
    /\ up[p].at = "add"
    /\ m_queue' = [m_queue EXCEPT ![p] = Append(@, up[p].packet)]
    /\ m_evAcceptPacket' =
         [m_evAcceptPacket EXCEPT ![p] = @ /\ Len(m_queue'[p]) < MAXQUEUESIZE]
    /\ up' = [up EXCEPT ![p] = [at |-> "idle", packet |-> NoPacket]]
    /\ UNCHANGED <<m_rtMaxStart, m_bFlushing, ended, events, appVars, workVars>>

\* A flush neither empties the queue nor resets m_rtMaxStart.  The filter
\* upstream ends it when its streaming thread has returned.
BeginFlush(p) ==
    /\ IsActive /\ ~m_bFlushing[p] /\ events < MaxEvents
    /\ m_bFlushing' = [m_bFlushing EXCEPT ![p] = TRUE]
    /\ events' = events + 1
    /\ UNCHANGED <<m_queue, m_rtMaxStart, m_evAcceptPacket, up, ended, appVars, workVars>>

EndFlush(p) ==
    /\ m_bFlushing[p] /\ up[p].at = "idle"
    /\ m_bFlushing' = [m_bFlushing EXCEPT ![p] = FALSE]
    /\ ended' = [ended EXCEPT ![p] = FALSE]
    /\ UNCHANGED <<m_queue, m_rtMaxStart, m_evAcceptPacket, up, events, appVars, workVars>>

Push(p) == Admitted(p) \/ Drop(p) \/ Add(p)
Send(p) == Receive(p) \/ EndOfStream(p) \/ TimedOut(p) \/ BeginFlush(p) \/ EndFlush(p)

-----------------------------------------------------------------------------
(* The application, under the lock of the filter. *)

\* Pause of a stopped filter, once the filters upstream have stopped too.
Start ==
    /\ main.at = "idle" /\ m_State = "Stopped" /\ events < MaxEvents
    /\ \A p \in Pins : up[p].at = "idle"
    /\ main' = [at |-> "active", next |-> 1]
    /\ stale' = FALSE
    /\ events' = events + 1
    /\ UNCHANGED <<m_State, request, pinVars, up, ended, workVars>>

\* Active of one input: the queue is taken to be empty.
Activate ==
    /\ main.at = "active" /\ main.next \in Pins
    /\ LET p == main.next IN
         /\ m_rtMaxStart' = [m_rtMaxStart EXCEPT ![p] = Least]
         /\ m_evAcceptPacket' = [m_evAcceptPacket EXCEPT ![p] = TRUE]
         /\ stale' = (stale \/ m_queue[p] # <<>>)
         /\ main' = [main EXCEPT !.next = p + 1]
    /\ UNCHANGED <<m_State, request, m_queue, m_bFlushing, upVars, workVars>>

\* The thread is created and CallWorker(CMD_RUN) made.
Paused ==
    /\ main.at = "active" /\ main.next \notin Pins
    /\ m_State' = "Paused"
    /\ request' = "run"
    /\ worker' = [Idle EXCEPT !.at = "request"]
    /\ main' = [at |-> "call", next |-> 1]
    /\ UNCHANGED <<stale, pinVars, upVars, m_pActivePins, file, last>>

Answered ==
    /\ main.at = "call" /\ request = "none"
    /\ main' = [main EXCEPT !.at = "idle"]
    /\ UNCHANGED <<m_State, request, stale, pinVars, upVars, workVars>>

PauseOrRun(s) ==
    /\ main.at = "idle" /\ IsActive /\ m_State # s
    /\ m_State' = s
    /\ UNCHANGED <<main, request, stale, pinVars, upVars, workVars>>

Stop ==
    /\ main.at = "idle" /\ IsActive
    /\ main' = [at |-> "inactive", next |-> 1]
    /\ UNCHANGED <<m_State, request, stale, pinVars, upVars, workVars>>

\* Inactive of one input.  The filter is not stopped before all of them are.
Inactivate ==
    /\ main.at = "inactive" /\ main.next \in Pins
    /\ m_queue' = [m_queue EXCEPT ![main.next] = <<>>]
    /\ m_bFlushing' = [m_bFlushing EXCEPT ![main.next] = FALSE]
    /\ main' = [main EXCEPT !.next = @ + 1]
    /\ UNCHANGED <<m_State, request, stale, m_rtMaxStart, m_evAcceptPacket, upVars, workVars>>

\* CallWorker(CMD_EXIT).
Stopped ==
    /\ main.at = "inactive" /\ main.next \notin Pins
    /\ m_State' = "Stopped"
    /\ request' = "exit"
    /\ main' = [at |-> "call", next |-> 1]
    /\ ended' = [p \in Pins |-> FALSE]
    /\ UNCHANGED <<stale, pinVars, up, events, workVars>>

Call == Activate \/ Paused \/ Answered \/ Inactivate \/ Stopped
Control == Start \/ Stop \/ PauseOrRun("Paused") \/ PauseOrRun("Running")

-----------------------------------------------------------------------------
(* The thread. *)

WorkerAt(at) == worker' = [Idle EXCEPT !.at = at]

\* The header, a packet or the footer is written, which may throw.
Written(at) == WorkerAt(at) \/ (MuxFails /\ WorkerAt("abort"))

WRun ==
    /\ worker.at = "request" /\ request = "run"
    /\ m_pActivePins' = Pins
    /\ request' = "none"
    /\ Written("loop")
    /\ file' = "open"
    /\ last' = Least
    /\ UNCHANGED <<m_State, main, stale, pinVars, upVars>>

WExit ==
    /\ worker.at = "request" /\ request = "exit"
    /\ request' = "none"
    /\ WorkerAt("none")
    /\ file' = "none"
    /\ UNCHANGED <<m_State, main, stale, pinVars, upVars, m_pActivePins, last>>

\* The head of the loop.  A paused filter sleeps here.
WLoop ==
    /\ worker.at = "loop"
    /\ \/ /\ request = "none" /\ m_pActivePins # {}
          /\ m_State # "Paused"
          /\ WorkerAt("scan")
       \/ /\ request # "none" \/ m_pActivePins = {}
          /\ WorkerAt("footer")
    /\ UNCHANGED <<pinVars, upVars, appVars, m_pActivePins, file, last>>

\* Mutant of Choice: GetPacket does not wait for every input.
ChoiceOfAny(w) ==
    IF w.best # 0
    THEN [Idle EXCEPT !.at = "take", !.best = w.best]
    ELSE [Idle EXCEPT !.at = "accept"]

\* GetPacket has looked at all inputs, w are its locals.
Choice(w) ==
    IF w.best # 0 /\ ~w.dry
    THEN [Idle EXCEPT !.at = "take", !.best = w.best]
    ELSE [Idle EXCEPT !.at = "accept"]

Onward(w) == IF w.next = NumPins THEN Choice(w) ELSE [w EXCEPT !.next = @ + 1]

\* It looks at one input, under its m_csQueue.
Seen(p) ==
    IF p \notin m_pActivePins THEN Onward(worker)
    ELSE IF m_queue[p] = <<>> THEN Onward([worker EXCEPT !.dry = TRUE])
    ELSE LET k == Head(m_queue[p]) IN
         IF Urgent(k) THEN [Idle EXCEPT !.at = "take", !.best = p]
         ELSE IF worker.best = 0 \/ k.time < worker.min
              THEN Onward([worker EXCEPT !.best = p, !.min = k.time])
              ELSE Onward(worker)

WScan ==
    /\ worker.at = "scan"
    /\ worker' = Seen(worker.next)
    /\ UNCHANGED <<pinVars, upVars, appVars, m_pActivePins, file, last>>

\* Mutant of Reopened: only the inputs that have run dry may send more.
ReopenedDry ==
    [p \in Pins |-> m_evAcceptPacket[p] \/ (p \in m_pActivePins /\ m_queue[p] = <<>>)]

\* No packet can be given out: every input may send more, the full ones too.
Reopened == [p \in Pins |-> m_evAcceptPacket[p] \/ p \in m_pActivePins]

WAccept ==
    /\ worker.at = "accept"
    /\ m_evAcceptPacket' = Reopened
    /\ WorkerAt("loop")
    /\ UNCHANGED <<m_queue, m_rtMaxStart, m_bFlushing, upVars, appVars, m_pActivePins, file, last>>

\* PopPacket, under m_csQueue.  Inactive may have emptied the queue since.
Popped(p) ==
    /\ m_queue' = [m_queue EXCEPT ![p] = IF @ = <<>> THEN @ ELSE Tail(@)]
    /\ m_evAcceptPacket' =
         [m_evAcceptPacket EXCEPT ![p] = @ \/ Len(m_queue'[p]) < MAXQUEUESIZE]

\* Mutant of StillActive: an input that has ended is waited for.
AllActive(p, k) == m_pActivePins

\* The inputs that have not ended after packet k of p.
StillActive(p, k) == IF k.kind = "eos" THEN m_pActivePins \ {p} ELSE m_pActivePins

WTake ==
    /\ worker.at = "take"
    /\ Popped(worker.best)
    /\ IF m_queue[worker.best] = <<>>
       THEN WorkerAt("loop") /\ UNCHANGED <<m_pActivePins, last>>
       ELSE LET k == Head(m_queue[worker.best]) IN
              /\ Written("loop")
              /\ m_pActivePins' = StillActive(worker.best, k)
              /\ last' = IF k.kind = "sync" THEN k.time ELSE last
    /\ UNCHANGED <<m_rtMaxStart, m_bFlushing, upVars, appVars, file>>

WEnd ==
    /\ worker.at \in {"footer", "abort"}
    /\ \/ worker.at = "footer" /\ file' = "complete"
       \/ (worker.at = "abort" \/ MuxFails) /\ file' = "aborted"
    /\ m_pActivePins' = {}
    /\ last' = Least
    /\ WorkerAt("request")
    /\ UNCHANGED <<pinVars, upVars, appVars>>

Work == WRun \/ WExit \/ WLoop \/ WScan \/ WAccept \/ WTake \/ WEnd

-----------------------------------------------------------------------------
Init ==
    /\ m_State = "Stopped" /\ request = "none"
    /\ main = [at |-> "idle", next |-> 1]
    /\ worker = Idle
    /\ m_pActivePins = {}
    /\ m_queue = [p \in Pins |-> <<>>]
    /\ m_rtMaxStart = [p \in Pins |-> Least]
    /\ m_evAcceptPacket = [p \in Pins |-> TRUE]
    /\ m_bFlushing = [p \in Pins |-> FALSE]
    /\ up = [p \in Pins |-> [at |-> "idle", packet |-> NoPacket]]
    /\ ended = [p \in Pins |-> FALSE]
    /\ file = "none" /\ last = Least /\ stale = FALSE
    /\ events = 0

Next ==
    \/ \E p \in Pins : Push(p) \/ Send(p)
    \/ Call \/ Control
    \/ Work

Spec == Init /\ [][Next]_vars

\* Every thread runs.  Nothing is assumed of what is sent, of a wait running
\* out, or of what the application asks for.
Fairness ==
    /\ \A p \in Pins : WF_vars(Push(p))
    /\ WF_vars(Call)
    /\ WF_vars(Work)

FairSpec == Spec /\ Fairness

-----------------------------------------------------------------------------
(* Properties. *)

\* Type invariant; only a packet with a time counts as a sync point.
TypeOK ==
    /\ m_State \in {"Stopped", "Paused", "Running"}
    /\ main \in [at : {"idle", "active", "call", "inactive"}, next : 1..(NumPins + 1)]
    /\ request \in {"none", "run", "exit"}
    /\ worker \in [at : {"none", "request", "loop", "scan", "accept", "take", "footer", "abort"},
                   next : Pins, best : 0..NumPins,
                   min : Times \cup {NoTime}, dry : BOOLEAN]
    /\ m_pActivePins \subseteq Pins
    /\ m_queue \in [Pins -> Seq(Packets)]
    /\ m_rtMaxStart \in [Pins -> Times \cup {Least}]
    /\ m_evAcceptPacket \in [Pins -> BOOLEAN]
    /\ m_bFlushing \in [Pins -> BOOLEAN]
    /\ up \in [Pins -> [at : {"idle", "wait", "add"}, packet : Packets \cup {NoPacket}]]
    /\ \A p \in Pins : up[p].at # "idle" => up[p].packet \in Packets
    /\ ended \in [Pins -> BOOLEAN]
    /\ file \in {"none", "open", "complete", "aborted"}
    /\ last \in Times \cup {Least} /\ stale \in BOOLEAN
    /\ events \in 0..MaxEvents

\* The sync points of all inputs leave the muxer in the order of their times
\* (GetPacket waits until every input has a packet, Receive marks the ones that
\* come too late), flushes or not, until Stop begins to empty the queues, and
\* unless the last session left packets in one.
InOrder ==
    [][worker.at = "take" /\ ~stale /\ IsActive /\ main.at # "inactive"
         => last' >= last]_vars

Muxing == file = "open" /\ m_State = "Running"

\* A streaming thread that waits for room is let go on by the muxer, also when
\* it waits for packets of another input that never come: no wait has to run out
\* for that.
RoomMade ==
    \A p \in Pins :
        (Muxing /\ up[p].at = "wait" /\ p \in m_pActivePins)
            ~> (~Muxing \/ up[p].at # "wait" \/ p \notin m_pActivePins)

\* When all inputs have ended, the file is finished, unless the filter is
\* stopped or paused or an input flushed first.
Finishes ==
    (Muxing /\ \A p \in Pins : ended[p] /\ ~m_bFlushing[p])
        ~> (~Muxing \/ \E p \in Pins : ~ended[p] \/ m_bFlushing[p])
=============================================================================
