-------------------------- MODULE BaseMuxerProofs ---------------------------
(***************************************************************************)
(* Proofs about BaseMuxer, for every number of inputs, every size of the   *)
(* queues and every set of samples.                                        *)
(***************************************************************************)
EXTENDS BaseMuxer, TLAPS

Up == [at : {"idle", "wait", "add"}, packet : Packets \cup {NoPacket}]
Worker == [at : {"none", "request", "loop", "scan", "accept", "take", "footer", "abort"},
           next : Pins, best : 0..NumPins, min : Times \cup {NoTime}, dry : BOOLEAN]

\* GetPacket comes to PopPacket with an input in hand only.
TakesOne == worker.at = "take" => worker.best \in Pins

TInv == TypeOK /\ TakesOne

-----------------------------------------------------------------------------
(* Types. *)

LEMMA PinNumbers ==
    /\ 1 \in Pins /\ NumPins \in Pins /\ Pins \subseteq 0..NumPins /\ 0 \in 0..NumPins
    /\ \A p \in Pins : p # 0 /\ p + 1 \in 1..(NumPins + 1) /\ p \in 1..(NumPins + 1)
    /\ \A p \in 1..(NumPins + 1) : p \notin Pins => p = NumPins + 1
  BY PinsAssumption DEF Pins

LEMMA IdleWorker == Idle \in Worker
  BY PinNumbers DEF Idle, Worker

LEMMA IdleType ==
    ASSUME NEW at \in {"none", "request", "loop", "scan", "accept", "take", "footer", "abort"}
    PROVE  [Idle EXCEPT !.at = at] \in Worker /\ [Idle EXCEPT !.at = at].at = at
  BY IdleWorker DEF Worker

\* The locals of GetPacket when it has chosen input p.
LEMMA ChosenType ==
    ASSUME NEW p \in Pins
    PROVE  LET w == [Idle EXCEPT !.at = "take", !.best = p]
           IN  w \in Worker /\ w.best = p /\ w.at = "take"
  BY IdleWorker, PinNumbers DEF Worker

LEMMA StampType ==
    ASSUME NEW s \in Samples, NEW max \in Times \cup {Least}
    PROVE  Stamp(s, max) \in Packets /\ Latest(max, s.time) \in Times \cup {Least}
<1>1. s \in [sync : BOOLEAN, time : Times \cup {NoTime}]
  BY SamplesAssumption
<1>2. s.time = NoTime \/ s.time \in Times
  BY <1>1
<1> QED
  BY <1>1, <1>2 DEF Stamp, Latest, Packets

\* A packet that does not go out at once has a time.
LEMMA Timed ==
    ASSUME NEW k \in Packets, ~Urgent(k)
    PROVE  k.time \in Times
  BY DEF Packets, Urgent

LEMMA SyncTimed ==
    ASSUME NEW k \in Packets, k.kind = "sync"
    PROVE  k.time \in Times
  BY DEF Packets

LEMMA Heads ==
    ASSUME NEW s \in Seq(Packets), s # <<>>
    PROVE  Head(s) \in Packets /\ Tail(s) \in Seq(Packets)
  OBVIOUS

-----------------------------------------------------------------------------
LEMMA PinTypes ==
    ASSUME TInv, NEW p \in Pins, Push(p) \/ Send(p)
    PROVE  TInv'
<1> USE DEF TInv, TypeOK, TakesOne
<1>e. [kind |-> "eos", time |-> NoTime] \in Packets /\ NoPacket \in Packets \cup {NoPacket}
  BY DEF Packets
<1>u. up[p] \in [at : {"idle", "wait", "add"}, packet : Packets \cup {NoPacket}]
  OBVIOUS
<1>1. CASE Receive(p)
  <2>1. PICK s \in Samples :
          /\ up' = [up EXCEPT ![p] = [at |-> "wait", packet |-> Stamp(s, m_rtMaxStart[p])]]
          /\ m_rtMaxStart' = [m_rtMaxStart EXCEPT ![p] = Latest(m_rtMaxStart[p], s.time)]
    BY <1>1 DEF Receive
  <2>2. /\ Stamp(s, m_rtMaxStart[p]) \in Packets
        /\ Latest(m_rtMaxStart[p], s.time) \in Times \cup {Least}
    BY StampType
  <2>3. events' \in 0..MaxEvents
    BY <1>1, BoundAssumption DEF Receive
  <2> QED
    BY <1>1, <2>1, <2>2, <2>3 DEF Receive, appVars, workVars
<1>2. CASE EndOfStream(p)
  BY <1>2, <1>e DEF EndOfStream, pinVars, appVars, workVars
<1>3. CASE Pass(p)
  <2>1. up' \in [Pins -> Up] /\ up'[p].packet = up[p].packet /\ up[p].at # "idle"
    BY <1>3, <1>u DEF Pass, Goto, Up
  <2>2. \A q \in Pins \ {p} : up'[q] = up[q]
    BY <1>3 DEF Pass, Goto
  <2>3. \A q \in Pins : up'[q].at # "idle" => up'[q].packet \in Packets
    BY <2>1, <2>2
  <2> QED
    BY <1>3, <2>1, <2>3 DEF Pass, Up, pinVars, appVars, workVars
<1>4. CASE Drop(p)
  BY <1>4 DEF Drop, pinVars, appVars, workVars
<1>5. CASE Add(p)
  <2>1. Append(m_queue[p], up[p].packet) \in Seq(Packets)
    BY <1>5 DEF Add
  <2>2. m_evAcceptPacket' \in [Pins -> BOOLEAN]
    BY <1>5 DEF Add
  <2> QED
    BY <1>5, <2>1, <2>2 DEF Add, appVars, workVars
<1>6. CASE BeginFlush(p)
  BY <1>6, BoundAssumption DEF BeginFlush, appVars, workVars
<1>7. CASE EndFlush(p)
  BY <1>7 DEF EndFlush, appVars, workVars
<1> QED
  BY <1>1, <1>2, <1>3, <1>4, <1>5, <1>6, <1>7 DEF Push, Send, Admitted, TimedOut

LEMMA CallTypes ==
    ASSUME TInv, Call \/ Control
    PROVE  TInv'
<1> USE DEF TInv, TypeOK, TakesOne
<1>1. CASE Activate
  <2>1. main' = [main EXCEPT !.next = main.next + 1] /\ main.next \in Pins
    BY <1>1 DEF Activate
  <2>2. main' \in [at : {"idle", "active", "call", "inactive"}, next : 1..(NumPins + 1)]
    BY <2>1, PinNumbers
  <2> QED
    BY <1>1, <2>2 DEF Activate, upVars, workVars
<1>2. CASE Paused
  <2>1. worker' \in Worker /\ worker'.at = "request"
    BY <1>2, IdleType DEF Paused
  <2> QED
    BY <1>2, <2>1, PinNumbers DEF Paused, Worker, pinVars, upVars
<1>3. CASE Answered
  BY <1>3 DEF Answered, pinVars, upVars, workVars
<1>4. CASE Inactivate
  <2>1. main' = [main EXCEPT !.next = main.next + 1] /\ main.next \in Pins
    BY <1>4 DEF Inactivate
  <2>2. main' \in [at : {"idle", "active", "call", "inactive"}, next : 1..(NumPins + 1)]
    BY <2>1, PinNumbers
  <2> QED
    BY <1>4, <2>2 DEF Inactivate, upVars, workVars
<1>5. CASE Stopped
  BY <1>5, PinNumbers DEF Stopped, pinVars, workVars
<1>6. CASE Start
  <2>1. events' \in 0..MaxEvents
    BY <1>6, BoundAssumption DEF Start
  <2> QED
    BY <1>6, <2>1, PinNumbers DEF Start, pinVars, workVars
<1>7. CASE Stop
  BY <1>7, PinNumbers DEF Stop, pinVars, upVars, workVars
<1>8. CASE PauseOrRun("Paused") \/ PauseOrRun("Running")
  BY <1>8 DEF PauseOrRun, pinVars, upVars, workVars
<1> QED
  BY <1>1, <1>2, <1>3, <1>4, <1>5, <1>6, <1>7, <1>8 DEF Call, Control

-----------------------------------------------------------------------------
LEMMA ScanType ==
    ASSUME TInv, worker.at = "scan"
    PROVE  /\ Seen(worker.next) \in Worker
           /\ Seen(worker.next).at = "take" => Seen(worker.next).best \in Pins
<1> DEFINE p == worker.next
<1>w. worker \in Worker /\ p \in Pins
  BY DEF TInv, TypeOK, Worker
<1>o. ASSUME NEW w \in Worker, w.next = p, w.at = "scan"
      PROVE  Onward(w) \in Worker /\ (Onward(w).at = "take" => Onward(w).best \in Pins)
  <2>1. CASE w.next = NumPins
    <3>1. CASE w.best # 0 /\ ~w.dry
      <4>1. w.best \in Pins
        BY <3>1, <1>o DEF Worker, Pins
      <4> QED
        BY <2>1, <3>1, <4>1, ChosenType DEF Onward, Choice
    <3>2. CASE ~(w.best # 0 /\ ~w.dry)
      BY <2>1, <3>2, IdleType DEF Onward, Choice
    <3> QED
      BY <3>1, <3>2
  <2>2. CASE w.next # NumPins
    BY <2>2, <1>o, <1>w, PinsAssumption DEF Onward, Worker, Pins
  <2> QED
    BY <2>1, <2>2
<1>1. CASE p \notin m_pActivePins
  BY <1>1, <1>w, <1>o DEF Seen
<1>2. CASE p \in m_pActivePins /\ m_queue[p] = <<>>
  <2>1. [worker EXCEPT !.dry = TRUE] \in Worker
    BY <1>w DEF Worker
  <2>2. [worker EXCEPT !.dry = TRUE].next = p /\ [worker EXCEPT !.dry = TRUE].at = "scan"
    BY <1>w DEF Worker
  <2> QED
    BY <1>2, <2>1, <2>2, <1>o DEF Seen
<1>3. CASE p \in m_pActivePins /\ m_queue[p] # <<>>
  <2> DEFINE k == Head(m_queue[p])
  <2>k. k \in Packets
    BY <1>3, <1>w, Heads DEF TInv, TypeOK
  <2>1. CASE Urgent(k)
    <3> QED
      BY <2>1, <1>3, <1>w, ChosenType DEF Seen
  <2>2. CASE ~Urgent(k)
    <3> DEFINE w == [worker EXCEPT !.best = p, !.min = k.time]
    <3>1. k.time \in Times
      BY <2>2, <2>k, Timed
    <3>2. w \in Worker /\ w.next = p /\ w.at = "scan"
      BY <3>1, <1>w, PinNumbers DEF Worker
    <3>3. Onward(w) \in Worker /\ (Onward(w).at = "take" => Onward(w).best \in Pins)
      BY <3>2, <1>o
    <3>4. Onward(worker) \in Worker /\ (Onward(worker).at = "take" => Onward(worker).best \in Pins)
      BY <1>w, <1>o
    <3>5. Seen(p) = Onward(w) \/ Seen(p) = Onward(worker)
      BY <2>2, <1>3 DEF Seen
    <3> QED
      BY <3>3, <3>4, <3>5
  <2> QED
    BY <2>1, <2>2
<1> QED
  BY <1>1, <1>2, <1>3

\* Looking at an input leads to the next one or to an outcome.
LEMMA ScanAt ==
    ASSUME TInv, worker.at = "scan"
    PROVE  Seen(worker.next).at \in {"scan", "take", "accept"}
<1>w. worker \in Worker
  BY DEF TInv, TypeOK, Worker
<1>1. \A w \in Worker : w.at = "scan" => Onward(w).at \in {"scan", "take", "accept"}
  <2> TAKE w \in Worker
  <2>1. Choice(w).at \in {"take", "accept"}
    BY DEF Choice, Idle
  <2>2. w.at = "scan" => [w EXCEPT !.next = w.next + 1].at = "scan"
    BY DEF Worker
  <2> QED
    BY <2>1, <2>2 DEF Onward
<1>2. \A t \in Times \cup {NoTime} : LET w == [worker EXCEPT !.best = worker.next, !.min = t]
                                     IN  w \in Worker /\ w.at = "scan"
  BY <1>w, PinNumbers DEF Worker
<1>3. [worker EXCEPT !.dry = TRUE] \in Worker /\ [worker EXCEPT !.dry = TRUE].at = "scan"
  BY <1>w DEF Worker
<1>4. CASE worker.next \in m_pActivePins /\ m_queue[worker.next] # <<>>
  <2> DEFINE k == Head(m_queue[worker.next])
  <2>1. k \in Packets
    BY <1>4, <1>w, Heads DEF TInv, TypeOK, Worker
  <2>2. CASE Urgent(k)
    BY <2>2, <1>4 DEF Seen, Idle
  <2>3. CASE ~Urgent(k)
    <3>1. k.time \in Times
      BY <2>1, <2>3, Timed
    <3>2. \/ Seen(worker.next) = Onward([worker EXCEPT !.best = worker.next, !.min = k.time])
          \/ Seen(worker.next) = Onward(worker)
      BY <2>3, <1>4 DEF Seen
    <3> HIDE DEF k
    <3> QED
      BY <3>1, <3>2, <1>1, <1>2, <1>w
  <2> QED
    BY <2>2, <2>3
<1>5. CASE ~(worker.next \in m_pActivePins /\ m_queue[worker.next] # <<>>)
  BY <1>5, <1>1, <1>3, <1>w DEF Seen
<1> QED
  BY <1>4, <1>5

LEMMA WorkTypes ==
    ASSUME TInv, Work
    PROVE  TInv'
<1> USE DEF TInv, TypeOK, TakesOne
<1>s. \A at \in {"request", "loop", "scan", "accept", "footer", "abort", "none"} :
        WorkerAt(at) => worker' \in Worker /\ worker'.at = at
  <2> TAKE at \in {"request", "loop", "scan", "accept", "footer", "abort", "none"}
  <2>1. [Idle EXCEPT !.at = at] \in Worker /\ [Idle EXCEPT !.at = at].at = at
    BY IdleType
  <2> QED
    BY <2>1 DEF WorkerAt
<1>w. Written("loop") => worker' \in Worker /\ worker'.at \in {"loop", "abort"}
  BY <1>s DEF Written
<1>1. CASE WRun
  BY <1>1, <1>w DEF WRun, Worker, pinVars, upVars
<1>2. CASE WExit
  BY <1>2, <1>s DEF WExit, Worker, pinVars, upVars
<1>3. CASE WLoop
  BY <1>3, <1>s DEF WLoop, Worker, pinVars, upVars, appVars
<1>4. CASE WScan
  <2>1. worker' \in Worker /\ TakesOne'
    BY <1>4, ScanType DEF WScan
  <2> QED
    BY <1>4, <2>1 DEF WScan, Worker, pinVars, upVars, appVars
<1>5. CASE WAccept
  BY <1>5, <1>s DEF WAccept, Reopened, Worker, upVars, appVars
<1>6. CASE WTake
  <2> DEFINE b == worker.best
  <2>b. b \in Pins
    BY <1>6 DEF WTake
  <2>1. m_queue' \in [Pins -> Seq(Packets)] /\ m_evAcceptPacket' \in [Pins -> BOOLEAN]
    BY <1>6, <2>b, Heads DEF WTake, Popped
  <2>2. CASE m_queue[b] = <<>>
    BY <1>6, <2>1, <2>2, <1>s DEF WTake, Worker, upVars, appVars
  <2>3. CASE m_queue[b] # <<>>
    <3>1. Head(m_queue[b]) \in Packets
      BY <2>3, <2>b, Heads
    <3>2. last' \in Times \cup {Least}
      BY <1>6, <2>3, <3>1, SyncTimed DEF WTake
    <3>3. m_pActivePins' \subseteq Pins
      BY <1>6, <2>3 DEF WTake, StillActive
    <3>4. worker' \in Worker /\ worker'.at \in {"loop", "abort"}
      BY <1>6, <2>3, <1>w DEF WTake
    <3> QED
      BY <1>6, <2>1, <3>2, <3>3, <3>4 DEF WTake, Worker, upVars, appVars
  <2> QED
    BY <2>2, <2>3
<1>7. CASE WEnd
  BY <1>7, <1>s DEF WEnd, Worker, pinVars, upVars, appVars
<1> QED
  BY <1>1, <1>2, <1>3, <1>4, <1>5, <1>6, <1>7 DEF Work

LEMMA TypesKept ==
    ASSUME TInv, [Next]_vars
    PROVE  TInv'
<1>1. CASE UNCHANGED vars
  BY <1>1 DEF TInv, TypeOK, TakesOne, vars, pinVars, upVars, appVars, workVars
<1> QED
  BY <1>1, PinTypes, CallTypes, WorkTypes DEF Next

LEMMA InitTypes == Init => TInv
<1> SUFFICES ASSUME Init PROVE TInv
  OBVIOUS
<1>1. worker \in Worker /\ worker.at = "none"
  BY PinNumbers DEF Init, Idle, Worker
<1>2. up \in [Pins -> Up] /\ \A p \in Pins : up[p].at = "idle"
  BY DEF Init, Up
<1>3. events \in 0..MaxEvents
  BY BoundAssumption DEF Init
<1>4. main \in [at : {"idle", "active", "call", "inactive"}, next : 1..(NumPins + 1)]
  BY PinNumbers DEF Init
<1>5. \A p \in Pins : up[p].at # "idle" => up[p].packet \in Packets
  BY <1>2
<1>6. m_queue \in [Pins -> Seq(Packets)]
  BY DEF Init
<1> QED
  BY <1>1, <1>2, <1>3, <1>4, <1>5, <1>6 DEF Init, TInv, TypeOK, TakesOne, Worker, Up

\* Every variable of the muxer keeps its type, for any number of inputs and
\* any samples; in particular only packets with a time count as sync points.
THEOREM TypeCorrect == Spec => []TypeOK
<1>1. Spec => []TInv
  BY InitTypes, TypesKept, PTL DEF Spec
<1> QED
  BY <1>1, PTL DEF TInv

-----------------------------------------------------------------------------
(* The order of the sync points.                                           *)
(*                                                                         *)
(* An input brings its packets in an order that Receive ensures: a sync    *)
(* point is not earlier than anything before it.  The stream of an input   *)
(* is its queue and the packet that PushPacket holds; m_rtMaxStart is not  *)
(* below anything in it.  Since GetPacket gives out the earliest of the    *)
(* first packets of all inputs, and nothing of an input is earlier than    *)
(* its first, whatever comes later is not before what has been given out.  *)

Stream(p) ==
    IF up[p].at = "idle" THEN m_queue[p] ELSE Append(m_queue[p], up[p].packet)

Ordered(s) ==
    \A i, j \in 1..Len(s) :
        i < j /\ s[i].time # NoTime /\ s[j].kind = "sync" => s[i].time <= s[j].time
Below(s, t) == \A i \in 1..Len(s) : s[i].time # NoTime => s[i].time <= t
From(s, t) == \A i \in 1..Len(s) : s[i].kind = "sync" => t <= s[i].time

\* A session whose inputs began with empty queues and that is not being stopped.
Session == IsActive /\ main.at # "inactive" /\ ~stale

\* Where the application and the thread can be at the same time.
Places ==
    /\ main.at = "active" =>
         /\ m_State = "Stopped" /\ worker.at = "none" /\ request = "none"
         /\ \A p \in Pins : up[p].at = "idle"
    /\ main.at = "idle" /\ m_State = "Stopped" => worker.at = "none" /\ request = "none"
    /\ main.at = "call" /\ m_State = "Stopped" =>
         request = "exit" \/ (request = "none" /\ worker.at = "none")
    /\ main.at = "inactive" => m_State # "Stopped"
    /\ worker.at \in {"none", "request"} => m_pActivePins = {}

\* What Active has left behind.
Activated ==
    main.at = "active" /\ ~stale =>
        \A p \in Pins : p < main.next => m_queue[p] = <<>> /\ m_rtMaxStart[p] = Least

Streams ==
    Session => \A p \in Pins : Ordered(Stream(p)) /\ Below(Stream(p), m_rtMaxStart[p])

Ahead ==
    Session => \A p \in m_pActivePins : From(Stream(p), last) /\ last <= m_rtMaxStart[p]

Ready(p) == m_queue[p] # <<>> /\ ~Urgent(Head(m_queue[p]))
First(p) == Head(m_queue[p]).time

\* What GetPacket knows of the inputs it has looked at.
Scanned(w) ==
    /\ w.best # 0 => w.best \in m_pActivePins /\ Ready(w.best) /\ First(w.best) = w.min
    /\ ~w.dry => \A p \in m_pActivePins :
                     p < w.next => Ready(p) /\ w.best # 0 /\ w.min <= First(p)

Chosen(b) ==
    /\ b \in m_pActivePins /\ m_queue[b] # <<>>
    /\ Ready(b) => \A p \in m_pActivePins : Ready(p) /\ First(b) <= First(p)

Search ==
    Session => /\ worker.at = "scan" => Scanned(worker)
               /\ worker.at = "take" => Chosen(worker.best)

OInv == TInv /\ Places /\ Activated /\ Streams /\ Ahead /\ Search

-----------------------------------------------------------------------------
(* Sequences of packets. *)

LEMMA PacketTime ==
    ASSUME NEW k \in Packets
    PROVE  /\ k.time = NoTime \/ k.time \in Int
           /\ k.kind = "sync" => k.time \in Int /\ k.time # NoTime /\ k.time >= Least
<1>1. k.time = NoTime \/ k.time \in Times
  BY DEF Packets
<1>2. k.kind = "sync" => k.time \in Times
  BY DEF Packets
<1>3. \A t \in Times : t \in Int /\ t # NoTime /\ t >= -1
  BY TimesAssumption
<1> QED
  BY <1>1, <1>2, <1>3 DEF Least

LEMMA Grows ==
    ASSUME NEW s \in Seq(Packets), NEW k \in Packets, NEW m \in Int, NEW n \in Int,
           Ordered(s), Below(s, m), m <= n,
           k.kind = "sync" => m <= k.time,
           k.time # NoTime => k.time <= n
    PROVE  /\ Ordered(Append(s, k)) /\ Below(Append(s, k), n)
           /\ \A t \in Int : From(s, t) /\ t <= m => From(Append(s, k), t)
<1> DEFINE u == Append(s, k)
<1>1. /\ Len(u) = Len(s) + 1 /\ Len(s) \in Nat
      /\ \A i \in 1..Len(s) : u[i] = s[i] /\ s[i] \in Packets
      /\ u[Len(s) + 1] = k
  OBVIOUS
<1>2. \A i \in 1..Len(s) : /\ s[i].time = NoTime \/ s[i].time \in Int
                           /\ s[i].kind = "sync" => s[i].time \in Int
  BY <1>1, PacketTime
<1>3. (k.time = NoTime \/ k.time \in Int) /\ (k.kind = "sync" => k.time \in Int)
  BY PacketTime
<1>4. Below(u, n)
  <2> SUFFICES ASSUME NEW i \in 1..Len(u), u[i].time # NoTime
               PROVE  u[i].time <= n
    BY DEF Below
  <2>1. CASE i \in 1..Len(s)
    <3>1. s[i].time <= m /\ s[i].time \in Int /\ u[i] = s[i]
      BY <2>1, <1>1, <1>2 DEF Below
    <3> QED
      BY <3>1
  <2>2. CASE i = Len(s) + 1
    BY <2>2, <1>1
  <2> QED
    BY <2>1, <2>2, <1>1
<1>5. Ordered(u)
  <2> SUFFICES ASSUME NEW i \in 1..Len(u), NEW j \in 1..Len(u),
                      i < j, u[i].time # NoTime, u[j].kind = "sync"
               PROVE  u[i].time <= u[j].time
    BY DEF Ordered
  <2>1. i \in 1..Len(s)
    BY <1>1
  <2>2. CASE j \in 1..Len(s)
    BY <2>1, <2>2, <1>1 DEF Ordered
  <2>3. CASE j = Len(s) + 1
    <3>1. s[i].time <= m /\ s[i].time \in Int /\ u[i] = s[i]
      BY <2>1, <1>1, <1>2 DEF Below
    <3>2. m <= k.time /\ k.time \in Int /\ u[j] = k
      BY <2>3, <1>1, <1>3
    <3> QED
      BY <3>1, <3>2
  <2> QED
    BY <2>2, <2>3, <1>1
<1>6. ASSUME NEW t \in Int, From(s, t), t <= m
      PROVE  From(u, t)
  <2> SUFFICES ASSUME NEW i \in 1..Len(u), u[i].kind = "sync"
               PROVE  t <= u[i].time
    BY DEF From
  <2>1. CASE i \in 1..Len(s)
    BY <2>1, <1>1, <1>6 DEF From
  <2>2. CASE i = Len(s) + 1
    <3>1. m <= k.time /\ k.time \in Int /\ u[i] = k
      BY <2>2, <1>1, <1>3
    <3> QED
      BY <3>1, <1>6
  <2> QED
    BY <2>1, <2>2, <1>1
<1> QED
  BY <1>4, <1>5, <1>6

\* A part of a sequence, shifted by d, has what the whole has.
LEMMA Part ==
    ASSUME NEW s \in Seq(Packets), NEW u \in Seq(Packets), NEW d \in Nat,
           \A i \in 1..Len(u) : i + d \in 1..Len(s) /\ u[i] = s[i + d]
    PROVE  /\ Ordered(s) => Ordered(u)
           /\ \A t : Below(s, t) => Below(u, t)
           /\ \A t : From(s, t) => From(u, t)
<1>1. Len(s) \in Nat /\ Len(u) \in Nat
  OBVIOUS
<1>2. ASSUME Ordered(s) PROVE Ordered(u)
  <2> SUFFICES ASSUME NEW i \in 1..Len(u), NEW j \in 1..Len(u),
                      i < j, u[i].time # NoTime, u[j].kind = "sync"
               PROVE  u[i].time <= u[j].time
    BY DEF Ordered
  <2>1. i + d < j + d /\ i + d \in 1..Len(s) /\ j + d \in 1..Len(s)
    BY <1>1
  <2> QED
    BY <2>1, <1>2 DEF Ordered
<1> QED
  BY <1>2 DEF Below, From

LEMMA Tails ==
    ASSUME NEW s \in Seq(Packets), s # <<>>
    PROVE  /\ Ordered(s) => Ordered(Tail(s))
           /\ \A t : Below(s, t) => Below(Tail(s), t)
           /\ \A t : From(s, t) => From(Tail(s), t)
<1>1. Tail(s) \in Seq(Packets) /\ \A i \in 1..Len(Tail(s)) : i + 1 \in 1..Len(s) /\ Tail(s)[i] = s[i + 1]
  OBVIOUS
<1> QED
  BY <1>1, Part

LEMMA Fronts ==
    ASSUME NEW s \in Seq(Packets), NEW k \in Packets
    PROVE  /\ Ordered(Append(s, k)) => Ordered(s)
           /\ \A t : Below(Append(s, k), t) => Below(s, t)
           /\ \A t : From(Append(s, k), t) => From(s, t)
<1>1. /\ Append(s, k) \in Seq(Packets)
      /\ \A i \in 1..Len(s) : i + 0 \in 1..Len(Append(s, k)) /\ s[i] = Append(s, k)[i + 0]
  OBVIOUS
<1> QED
  BY <1>1, Part

\* No sync point is earlier than the first packet.
LEMMA FromFirst ==
    ASSUME NEW s \in Seq(Packets), s # <<>>, Ordered(s), Head(s).time # NoTime,
           NEW t \in Int, t <= Head(s).time
    PROVE  From(s, t)
<1> SUFFICES ASSUME NEW i \in 1..Len(s), s[i].kind = "sync"
             PROVE  t <= s[i].time
  BY DEF From
<1>1. Head(s) = s[1] /\ 1 \in 1..Len(s) /\ s[1] \in Packets /\ s[i] \in Packets /\ Len(s) \in Nat
  OBVIOUS
<1>2. s[1].time \in Int /\ s[i].time \in Int
  BY <1>1, PacketTime
<1>3. i = 1 \/ s[1].time <= s[i].time
  BY <1>1 DEF Ordered
<1> QED
  BY <1>1, <1>2, <1>3

-----------------------------------------------------------------------------
(* The streaming threads. *)

LEMMA StreamType ==
    ASSUME TInv, NEW p \in Pins
    PROVE  /\ m_queue[p] \in Seq(Packets) /\ Stream(p) \in Seq(Packets)
           /\ m_rtMaxStart[p] \in Int /\ last \in Int
           /\ up[p].at # "idle" => up[p].packet \in Packets
<1>1. m_rtMaxStart[p] \in Int /\ last \in Int
  <2>1. Times \cup {Least} \subseteq Int
    BY TimesAssumption DEF Least
  <2> QED
    BY <2>1 DEF TInv, TypeOK
<1>2. m_queue[p] \in Seq(Packets) /\ (up[p].at # "idle" => up[p].packet \in Packets)
  BY DEF TInv, TypeOK
<1> QED
  BY <1>1, <1>2 DEF Stream

\* What holds of one input in a session.
Good(p) ==
    /\ Ordered(Stream(p)) /\ Below(Stream(p), m_rtMaxStart[p])
    /\ p \in m_pActivePins => From(Stream(p), last) /\ last <= m_rtMaxStart[p]

LEMMA GoodPins ==
    ASSUME Session, Streams, Ahead, NEW p \in Pins
    PROVE  Good(p)
  BY DEF Streams, Ahead, Good

\* What GetPacket has seen stays true while only its inputs grow.
LEMMA HeadsKept ==
    ASSUME Search, Session' => Session, UNCHANGED <<worker, m_pActivePins>>, TInv,
           \A p \in Pins : m_queue[p] # <<>> =>
               m_queue'[p] # <<>> /\ Head(m_queue'[p]) = Head(m_queue[p])
    PROVE  Search'
<1> SUFFICES ASSUME Session'
             PROVE  /\ worker.at = "scan" => Scanned(worker)'
                    /\ worker.at = "take" => Chosen(worker.best)'
  BY DEF Search
<1>p. m_pActivePins \subseteq Pins
  BY DEF TInv, TypeOK
<1>r. \A p \in m_pActivePins : m_queue[p] # <<>> =>
        (Ready(p)' <=> Ready(p)) /\ First(p)' = First(p)
  BY <1>p DEF Ready, First
<1>s. Search /\ Session
  OBVIOUS
<1>1. ASSUME worker.at = "scan" PROVE Scanned(worker)'
  <2>1. Scanned(worker)
    BY <1>s, <1>1 DEF Search
  <2>2. \A p \in m_pActivePins : Ready(p) => Ready(p)' /\ First(p)' = First(p)
    BY <1>r DEF Ready
  <2> QED
    BY <2>1, <2>2 DEF Scanned
<1>2. ASSUME worker.at = "take" PROVE Chosen(worker.best)'
  <2>1. Chosen(worker.best)
    BY <1>s, <1>2 DEF Search
  <2>2. \A p \in m_pActivePins : Ready(p) => Ready(p)' /\ First(p)' = First(p)
    BY <1>r DEF Ready
  <2>3. (Ready(worker.best)' <=> Ready(worker.best)) /\ First(worker.best)' = First(worker.best)
    BY <1>r, <2>1 DEF Chosen
  <2>4. m_queue'[worker.best] # <<>>
    BY <2>1, <1>p DEF Chosen
  <2> QED
    BY <2>1, <2>2, <2>3, <2>4 DEF Chosen
<1> QED
  BY <1>1, <1>2

LEMMA PinOrder ==
    ASSUME OInv, TInv', NEW p \in Pins, Push(p) \/ Send(p)
    PROVE  OInv'
<1> USE DEF OInv
<1>a. UNCHANGED <<m_State, main, request, stale, worker, m_pActivePins, last>>
  BY DEF Push, Send, Admitted, TimedOut, Pass, Drop, Add, Receive, EndOfStream, BeginFlush,
         EndFlush, appVars, workVars
<1>t. /\ m_queue \in [Pins -> Seq(Packets)] /\ up \in [Pins -> Up]
      /\ m_rtMaxStart \in [Pins -> Times \cup {Least}]
  BY DEF TInv, TypeOK, Up
<1>b. \A q \in Pins \ {p} : /\ up'[q] = up[q] /\ m_queue'[q] = m_queue[q]
                            /\ m_rtMaxStart'[q] = m_rtMaxStart[q]
  BY <1>t DEF Push, Send, Admitted, TimedOut, Pass, Goto, Drop, Add, Receive, EndOfStream, BeginFlush,
         EndFlush, pinVars
<1>s. Session' <=> Session
  BY <1>a DEF Session, IsActive
<1>q. main.at = "active" => UNCHANGED <<up, m_queue, m_rtMaxStart>>
  <2> SUFFICES ASSUME main.at = "active" PROVE UNCHANGED <<up, m_queue, m_rtMaxStart>>
    OBVIOUS
  <2>1. ~IsActive /\ up[p].at = "idle"
    BY DEF Places, IsActive
  <2>2. BeginFlush(p) \/ EndFlush(p)
    BY <2>1 DEF Push, Send, Admitted, TimedOut, Pass, Drop, Add, Receive, EndOfStream
  <2> QED
    BY <2>2 DEF BeginFlush, EndFlush
<1>1. Places'
  BY <1>a, <1>q DEF Places
<1>2. Activated'
  BY <1>a, <1>q DEF Activated
<1>k. m_queue[p] # <<>> => m_queue'[p] # <<>> /\ Head(m_queue'[p]) = Head(m_queue[p])
  <2>1. CASE Add(p)
    <3>1. m_queue'[p] = Append(m_queue[p], up[p].packet) /\ up[p].packet \in Packets
      BY <2>1, <1>t, StreamType DEF Add
    <3> QED
      BY <3>1, <1>t
  <2>2. CASE ~Add(p)
    BY <2>2, <1>t DEF Push, Send, Admitted, TimedOut, Pass, Drop, Receive, EndOfStream, BeginFlush,
                      EndFlush, pinVars
  <2> QED
    BY <2>1, <2>2
<1>3. Search'
  <2>1. \A q \in Pins : m_queue[q] # <<>> =>
          m_queue'[q] # <<>> /\ Head(m_queue'[q]) = Head(m_queue[q])
    BY <1>b, <1>k
  <2> QED
    BY <2>1, <1>a, <1>s, HeadsKept
<1>g. ASSUME Session PROVE Good(p)'
  <2>0. Good(p)
    BY <1>g, GoodPins
  <2>t. /\ m_queue[p] \in Seq(Packets) /\ Stream(p) \in Seq(Packets)
        /\ m_rtMaxStart[p] \in Int /\ last \in Int
        /\ up[p].at # "idle" => up[p].packet \in Packets
    BY StreamType
  <2>1. ASSUME NEW k \in Packets, up[p].at = "idle",
               up'[p] = [at |-> "wait", packet |-> k], m_queue'[p] = m_queue[p],
               m_rtMaxStart'[p] \in Int, m_rtMaxStart[p] <= m_rtMaxStart'[p],
               k.kind = "sync" => m_rtMaxStart[p] <= k.time,
               k.time # NoTime => k.time <= m_rtMaxStart'[p]
        PROVE  Good(p)'
    <3>1. Stream(p)' = Append(Stream(p), k)
      BY <2>1 DEF Stream
    <3>2. /\ Ordered(Append(Stream(p), k)) /\ Below(Append(Stream(p), k), m_rtMaxStart'[p])
          /\ \A t \in Int : From(Stream(p), t) /\ t <= m_rtMaxStart[p]
                              => From(Append(Stream(p), k), t)
      BY <2>0, <2>1, <2>t, Grows DEF Good
    <3>3. p \in m_pActivePins => last <= m_rtMaxStart'[p]
      BY <2>0, <2>1, <2>t DEF Good
    <3> QED
      BY <3>1, <3>2, <3>3, <2>0, <2>t, <1>a DEF Good
  <2>2. CASE Receive(p)
    <3>1. PICK s \in Samples :
            /\ up' = [up EXCEPT ![p] = [at |-> "wait", packet |-> Stamp(s, m_rtMaxStart[p])]]
            /\ m_rtMaxStart' = [m_rtMaxStart EXCEPT ![p] = Latest(m_rtMaxStart[p], s.time)]
      BY <2>2 DEF Receive
    <3> DEFINE k == Stamp(s, m_rtMaxStart[p])
    <3>2. k \in Packets
      BY <1>t, StampType
    <3>3. s.time = NoTime \/ s.time \in Int
      <4>1. s \in [sync : BOOLEAN, time : Times \cup {NoTime}] /\ Times \subseteq Int
        BY SamplesAssumption, TimesAssumption
      <4> QED
        BY <4>1
    <3>4. /\ m_rtMaxStart'[p] = Latest(m_rtMaxStart[p], s.time)
          /\ up'[p] = [at |-> "wait", packet |-> k] /\ m_queue'[p] = m_queue[p]
          /\ up[p].at = "idle"
      BY <3>1, <1>t, <2>2 DEF Receive
    <3>5. /\ Latest(m_rtMaxStart[p], s.time) \in Int
          /\ m_rtMaxStart[p] <= Latest(m_rtMaxStart[p], s.time)
          /\ s.time # NoTime => s.time <= Latest(m_rtMaxStart[p], s.time)
      BY <3>3, <2>t DEF Latest
    <3>6. k.time = s.time /\ (k.kind = "sync" => m_rtMaxStart[p] <= k.time)
      BY <3>3, <2>t DEF Stamp
    <3> HIDE DEF k
    <3> QED
      BY <3>2, <3>4, <3>5, <3>6, <2>1
  <2>3. CASE EndOfStream(p)
    <3> DEFINE k == [kind |-> "eos", time |-> NoTime]
    <3>1. k \in Packets /\ k.kind # "sync" /\ k.time = NoTime
      BY DEF Packets
    <3>2. /\ m_rtMaxStart'[p] = m_rtMaxStart[p] /\ up'[p] = [at |-> "wait", packet |-> k]
          /\ m_queue'[p] = m_queue[p] /\ up[p].at = "idle"
      BY <2>3, <1>t DEF EndOfStream, pinVars
    <3> HIDE DEF k
    <3> QED
      BY <3>1, <3>2, <2>1, <2>t
  <2>4. CASE Drop(p)
    <3>1. /\ Stream(p) = Append(m_queue[p], up[p].packet) /\ Stream(p)' = m_queue[p]
          /\ m_rtMaxStart'[p] = m_rtMaxStart[p] /\ up[p].packet \in Packets
      BY <2>4, <1>t, <2>t DEF Drop, Stream, pinVars
    <3> QED
      BY <3>1, <2>0, <2>t, <1>a, Fronts DEF Good
  <2>5. CASE Pass(p) \/ Add(p) \/ BeginFlush(p) \/ EndFlush(p)
    <3>1. m_rtMaxStart'[p] = m_rtMaxStart[p]
      BY <2>5 DEF Pass, Add, BeginFlush, EndFlush, pinVars
    <3>2. CASE Pass(p)
      <4>1. up'[p].at = "add" /\ up'[p].packet = up[p].packet /\ up[p].at = "wait" /\ m_queue' = m_queue
        BY <3>2, <1>t DEF Pass, Goto, Up, pinVars
      <4> QED
        BY <4>1, <3>1, <2>0, <1>a DEF Good, Stream
    <3>3. CASE Add(p)
      <4>1. /\ up'[p].at = "idle" /\ up[p].at = "add"
            /\ m_queue'[p] = Append(m_queue[p], up[p].packet)
        BY <3>3, <1>t DEF Add
      <4> QED
        BY <4>1, <3>1, <2>0, <1>a DEF Good, Stream
    <3>4. CASE BeginFlush(p) \/ EndFlush(p)
      <4>1. UNCHANGED <<up, m_queue>>
        BY <3>4 DEF BeginFlush, EndFlush
      <4> QED
        BY <4>1, <3>1, <2>0, <1>a DEF Good, Stream
    <3> QED
      BY <2>5, <3>2, <3>3, <3>4
  <2> QED
    BY <2>2, <2>3, <2>4, <2>5 DEF Push, Send, Admitted, TimedOut
<1>o. ASSUME Session PROVE \A q \in Pins : Good(q)'
  <2>1. \A q \in Pins \ {p} : Good(q)'
    BY <1>o, <1>a, <1>b, GoodPins DEF Good, Stream
  <2> QED
    BY <2>1, <1>o, <1>g
<1>4. Streams' /\ Ahead'
  BY <1>o, <1>s, <1>a DEF Streams, Ahead, Good, TInv, TypeOK
<1> QED
  BY <1>1, <1>2, <1>3, <1>4

-----------------------------------------------------------------------------
(* The application. *)

LEMMA CallOrder ==
    ASSUME OInv, TInv', Call \/ Control
    PROVE  OInv'
<1> USE DEF OInv
<1>t. /\ m_queue \in [Pins -> Seq(Packets)] /\ m_rtMaxStart \in [Pins -> Times \cup {Least}]
      /\ main \in [at : {"idle", "active", "call", "inactive"}, next : 1..(NumPins + 1)]
  BY DEF TInv, TypeOK
<1>same. ASSUME Session' => Session,
                UNCHANGED <<m_queue, m_rtMaxStart, up, last, m_pActivePins, worker>>
         PROVE  Streams' /\ Ahead' /\ Search'
  <2>1. Streams'
    BY <1>same DEF Streams, Stream
  <2>2. Ahead'
    BY <1>same DEF Ahead, Stream
  <2>3. Search'
    BY <1>same DEF Search, Scanned, Chosen, Ready, First
  <2> QED
    BY <2>1, <2>2, <2>3
<1>none. ASSUME ~Session' PROVE Streams' /\ Ahead' /\ Search'
  BY <1>none DEF Streams, Ahead, Search
<1>1. CASE Activate
  <2>1. m_State = "Stopped" /\ m_State' = m_State /\ main'.at = "active" /\ main'.next = main.next + 1
    BY <1>1, <1>t DEF Activate, Places
  <2>2. Places'
    BY <1>1, <2>1 DEF Activate, Places, upVars, workVars
  <2>3. Activated'
    <3> SUFFICES ASSUME ~stale', NEW p \in Pins, p < main.next + 1
                 PROVE  m_queue'[p] = <<>> /\ m_rtMaxStart'[p] = Least
      BY <2>1 DEF Activated
    <3>1. /\ ~stale /\ m_queue[main.next] = <<>> /\ m_queue' = m_queue /\ main.at = "active"
          /\ main.next \in Pins
          /\ m_rtMaxStart' = [m_rtMaxStart EXCEPT ![main.next] = Least]
      BY <1>1 DEF Activate
    <3>2. p < main.next \/ p = main.next
      BY <3>1 DEF Pins
    <3> QED
      BY <3>1, <3>2, <1>t DEF Activated
  <2>4. ~Session'
    BY <2>1 DEF Session, IsActive
  <2> QED
    BY <2>2, <2>3, <2>4, <1>none
<1>2. CASE Paused
  <2>1. /\ main.at = "active" /\ main.next = NumPins + 1 /\ m_pActivePins = {} /\ m_pActivePins' = {}
        /\ worker'.at = "request" /\ main'.at = "call" /\ m_State' = "Paused" /\ stale' = stale
        /\ UNCHANGED <<m_queue, m_rtMaxStart, up>>
        /\ \A p \in Pins : up[p].at = "idle"
    BY <1>2, <1>t, PinNumbers, IdleType DEF Paused, Places, pinVars, upVars
  <2>2. Places' /\ Activated'
    BY <2>1 DEF Places, Activated
  <2>3. Ahead' /\ Search'
    BY <2>1 DEF Ahead, Search
  <2>4. Streams'
    <3> SUFFICES ASSUME Session', NEW p \in Pins
                 PROVE  Ordered(Stream(p))' /\ Below(Stream(p), m_rtMaxStart[p])'
      BY DEF Streams
    <3>1. m_queue[p] = <<>>
      <4>1. ~stale /\ p < main.next
        BY <2>1, PinsAssumption DEF Session, Pins
      <4> QED
        BY <2>1, <4>1 DEF Activated
    <3>2. Stream(p)' = <<>> /\ Len(<<>>) = 0
      BY <2>1, <3>1 DEF Stream
    <3> QED
      BY <3>2 DEF Ordered, Below
  <2> QED
    BY <2>2, <2>3, <2>4
<1>3. CASE Answered
  <2>1. /\ main.at = "call" /\ request = "none" /\ main'.at = "idle"
        /\ UNCHANGED <<m_State, request, stale, m_queue, m_rtMaxStart, up, last, m_pActivePins, worker>>
    BY <1>3, <1>t DEF Answered, pinVars, upVars, workVars
  <2>2. Places' /\ Activated' /\ (Session' => Session)
    BY <2>1 DEF Places, Activated, Session, IsActive
  <2> QED
    BY <2>1, <2>2, <1>same
<1>4. CASE Inactivate
  <2>1. /\ main.at = "inactive" /\ main'.at = "inactive"
        /\ UNCHANGED <<m_State, request, worker, m_pActivePins>>
    BY <1>4, <1>t DEF Inactivate, workVars
  <2>2. Places' /\ Activated' /\ ~Session'
    BY <2>1 DEF Places, Activated, Session
  <2> QED
    BY <2>2, <1>none
<1>5. CASE Stopped
  <2>1. /\ main'.at = "call" /\ m_State' = "Stopped" /\ request' = "exit"
        /\ UNCHANGED <<worker, m_pActivePins>>
    BY <1>5 DEF Stopped, workVars
  <2>2. Places' /\ Activated' /\ ~Session'
    BY <2>1 DEF Places, Activated, Session, IsActive
  <2> QED
    BY <2>2, <1>none
<1>6. CASE Start
  <2>1. /\ main.at = "idle" /\ m_State = "Stopped" /\ main'.at = "active" /\ main'.next = 1
        /\ UNCHANGED <<m_State, request, worker, m_pActivePins, up>>
        /\ \A p \in Pins : up[p].at = "idle"
    BY <1>6 DEF Start, workVars
  <2>2. Places' /\ ~Session'
    BY <2>1 DEF Places, Session, IsActive
  <2>3. Activated'
    <3>1. \A p \in Pins : ~(p < 1)
      BY DEF Pins
    <3> QED
      BY <2>1, <3>1 DEF Activated
  <2> QED
    BY <2>2, <2>3, <1>none
<1>7. CASE Stop
  <2>1. /\ main.at = "idle" /\ m_State # "Stopped" /\ main'.at = "inactive"
        /\ UNCHANGED <<m_State, request, worker, m_pActivePins>>
    BY <1>7 DEF Stop, IsActive, workVars
  <2>2. Places' /\ Activated' /\ ~Session'
    BY <2>1 DEF Places, Activated, Session
  <2> QED
    BY <2>2, <1>none
<1>8. CASE PauseOrRun("Paused") \/ PauseOrRun("Running")
  <2>1. /\ main.at = "idle" /\ m_State # "Stopped" /\ m_State' # "Stopped"
        /\ UNCHANGED <<main, request, stale, m_queue, m_rtMaxStart, up, last, m_pActivePins, worker>>
    BY <1>8 DEF PauseOrRun, IsActive, pinVars, upVars, workVars
  <2>2. Places' /\ Activated' /\ (Session' => Session)
    BY <2>1 DEF Places, Activated, Session, IsActive
  <2> QED
    BY <2>1, <2>2, <1>same
<1> QED
  BY <1>1, <1>2, <1>3, <1>4, <1>5, <1>6, <1>7, <1>8 DEF Call, Control

-----------------------------------------------------------------------------
(* The thread. *)

\* While the thread works, a stop has not come back to the application.
LEMMA WorkPlaces ==
    ASSUME OInv, Work
    PROVE  /\ Places' /\ Activated' /\ (Session' <=> Session)
           /\ UNCHANGED <<up, m_rtMaxStart>>
<1> USE DEF OInv, TInv, TypeOK
<1>a. UNCHANGED <<main, m_State, stale, up, m_rtMaxStart>>
  BY DEF Work, WRun, WExit, WLoop, WScan, WAccept, WTake, WEnd, appVars, upVars, pinVars
<1>q. m_queue' = m_queue \/ worker.at = "take"
  BY DEF Work, WRun, WExit, WLoop, WScan, WAccept, WTake, WEnd, pinVars
<1>w. worker.at # "none"
  BY DEF Work, WRun, WExit, WLoop, WScan, WAccept, WTake, WEnd
<1>at. \A at \in {"request", "loop", "scan", "accept", "footer", "abort", "none"} :
         WorkerAt(at) => worker'.at = at
  BY IdleType DEF WorkerAt
<1>1. main.at # "active" /\ ~(main.at = "idle" /\ m_State = "Stopped")
  BY <1>w DEF Places
<1>2. Activated' /\ (Session' <=> Session)
  BY <1>a, <1>1 DEF Activated, Session, IsActive
<1>3. main.at = "call" /\ m_State = "Stopped" => request = "exit"
  BY <1>w DEF Places
<1>4. main.at = "call" /\ m_State = "Stopped" =>
        request' = "exit" \/ (request' = "none" /\ worker'.at = "none")
  <2>1. CASE WExit
    BY <2>1, <1>at DEF WExit
  <2>2. CASE WRun
    BY <2>2, <1>3 DEF WRun
  <2>3. CASE WLoop \/ WScan \/ WAccept \/ WTake \/ WEnd
    BY <2>3, <1>3 DEF WLoop, WScan, WAccept, WTake, WEnd, appVars
  <2> QED
    BY <2>1, <2>2, <2>3 DEF Work
<1>5. worker'.at \in {"none", "request"} => m_pActivePins' = {}
  <2>1. CASE WRun
    BY <2>1, <1>at DEF WRun, Written
  <2>2. CASE WExit
    BY <2>2 DEF WExit, Places
  <2>3. CASE WLoop
    BY <2>3, <1>at DEF WLoop
  <2>4. CASE WScan
    <3> DEFINE w == Seen(worker.next)
    <3>1. w.at \in {"scan", "take", "accept"}
      BY <2>4, ScanAt DEF WScan
    <3> QED
      BY <2>4, <3>1 DEF WScan
  <2>5. CASE WAccept
    BY <2>5, <1>at DEF WAccept
  <2>6. CASE WTake
    BY <2>6, <1>at DEF WTake, Written
  <2>7. CASE WEnd
    BY <2>7 DEF WEnd
  <2> QED
    BY <2>1, <2>2, <2>3, <2>4, <2>5, <2>6, <2>7 DEF Work
<1> QED
  BY <1>a, <1>1, <1>2, <1>4, <1>5 DEF Places

\* GetPacket has looked at the inputs up to p as well, w are its locals.
LEMMA OnwardOrder ==
    ASSUME TInv, NEW w \in Worker, w.at = "scan",
           w.best # 0 => w.best \in m_pActivePins /\ Ready(w.best) /\ First(w.best) = w.min,
           ~w.dry => \A q \in m_pActivePins :
                         q <= w.next => Ready(q) /\ w.best # 0 /\ w.min <= First(q)
    PROVE  /\ Onward(w).at = "scan" => Scanned(Onward(w))
           /\ Onward(w).at = "take" => Chosen(Onward(w).best)
<1>p. m_pActivePins \subseteq Pins /\ \A q \in Pins : q \in Int /\ q <= NumPins
  BY PinsAssumption DEF TInv, TypeOK, Pins
<1>n. w.next \in Pins
  BY DEF Worker
<1>1. CASE w.next = NumPins
  <2>1. CASE w.best # 0 /\ ~w.dry
    <3>1. Onward(w).at = "take" /\ Onward(w).best = w.best
      BY <1>1, <2>1 DEF Onward, Choice, Idle
    <3>2. \A q \in m_pActivePins : Ready(q) /\ First(w.best) <= First(q)
      BY <1>1, <2>1, <1>p
    <3>3. m_queue[w.best] # <<>> /\ w.best \in m_pActivePins
      BY <2>1 DEF Ready
    <3> QED
      BY <3>1, <3>2, <3>3 DEF Chosen
  <2>2. CASE ~(w.best # 0 /\ ~w.dry)
    BY <1>1, <2>2 DEF Onward, Choice, Idle
  <2> QED
    BY <2>1, <2>2
<1>2. CASE w.next # NumPins
  <2>1. /\ Onward(w).at = "scan" /\ Onward(w).next = w.next + 1 /\ Onward(w).best = w.best
        /\ Onward(w).min = w.min /\ Onward(w).dry = w.dry
    BY <1>2 DEF Onward, Worker
  <2>2. \A q \in m_pActivePins : q < w.next + 1 => q <= w.next
    BY <1>p, <1>n
  <2> QED
    BY <2>1, <2>2 DEF Scanned
<1> QED
  BY <1>1, <1>2

\* What is ready has a time.
LEMMA ReadyTime ==
    ASSUME TInv, NEW p \in Pins, Ready(p)
    PROVE  First(p) \in Int /\ First(p) # NoTime /\ m_queue[p] # <<>>
<1>1. m_queue[p] # <<>> /\ Head(m_queue[p]) \in Packets /\ ~Urgent(Head(m_queue[p]))
  BY Heads DEF Ready, TInv, TypeOK
<1>2. First(p) \in Times
  BY <1>1, Timed DEF First
<1>3. \A t \in Times : t \in Int /\ t # NoTime
  BY TimesAssumption
<1> QED
  BY <1>1, <1>2, <1>3

LEMMA ScanOrder ==
    ASSUME TInv, worker.at = "scan", Scanned(worker)
    PROVE  /\ Seen(worker.next).at = "scan" => Scanned(Seen(worker.next))
           /\ Seen(worker.next).at = "take" => Chosen(Seen(worker.next).best)
<1> DEFINE p == worker.next
<1>w. worker \in Worker /\ p \in Pins /\ m_pActivePins \subseteq Pins
  BY DEF TInv, TypeOK, Worker
<1>p. \A q \in Pins : q <= p <=> q < p \/ q = p
  BY <1>w DEF Pins
<1>b. worker.best # 0 =>
        /\ worker.best \in m_pActivePins /\ Ready(worker.best) /\ First(worker.best) = worker.min
        /\ worker.min \in Int
  BY <1>w, ReadyTime DEF Scanned
<1>s. ~worker.dry => \A q \in m_pActivePins :
                         q < p => Ready(q) /\ worker.best # 0 /\ worker.min <= First(q)
  BY DEF Scanned
<1>1. CASE p \notin m_pActivePins
  <2>1. Seen(p) = Onward(worker)
    BY <1>1 DEF Seen
  <2>2. \A q \in m_pActivePins : q <= p => q < p
    BY <1>1, <1>p, <1>w
  <2> QED
    BY <2>1, <2>2, <1>w, <1>b, <1>s, OnwardOrder
<1>2. CASE p \in m_pActivePins /\ m_queue[p] = <<>>
  <2> DEFINE w == [worker EXCEPT !.dry = TRUE]
  <2>1. Seen(p) = Onward(w)
    BY <1>2 DEF Seen
  <2>2. w \in Worker /\ w.at = "scan" /\ w.dry /\ w.best = worker.best /\ w.min = worker.min
    BY <1>w DEF Worker
  <2> HIDE DEF w
  <2> QED
    BY <2>1, <2>2, <1>b, OnwardOrder
<1>3. CASE p \in m_pActivePins /\ m_queue[p] # <<>>
  <2> DEFINE k == Head(m_queue[p])
  <2>k. k \in Packets
    BY <1>3, <1>w, Heads DEF TInv, TypeOK
  <2>1. CASE Urgent(k)
    <3>1. Seen(p).at = "take" /\ Seen(p).best = p
      BY <2>1, <1>3 DEF Seen, Idle
    <3>2. ~Ready(p)
      BY <2>1 DEF Ready
    <3> QED
      BY <3>1, <3>2, <1>3 DEF Chosen
  <2>2. CASE ~Urgent(k)
    <3>r. Ready(p) /\ First(p) = k.time /\ k.time \in Int /\ k.time \in Times
      <4>1. Ready(p) /\ First(p) = k.time
        BY <2>2, <1>3 DEF Ready, First
      <4> QED
        BY <4>1, <1>w, <2>k, <2>2, ReadyTime, Timed
    <3>1. CASE worker.best = 0 \/ k.time < worker.min
      <4> DEFINE w == [worker EXCEPT !.best = p, !.min = k.time]
      <4>1. Seen(p) = Onward(w)
        BY <3>1, <2>2, <1>3 DEF Seen
      <4>2. /\ w \in Worker /\ w.at = "scan" /\ w.dry = worker.dry /\ w.best = p /\ w.min = k.time
            /\ w.next = p /\ p # 0
        BY <1>w, <3>r, PinNumbers DEF Worker
      <4>3. ASSUME ~worker.dry, NEW q \in m_pActivePins, q <= p
            PROVE  Ready(q) /\ k.time <= First(q)
        <5>1. CASE q = p
          BY <5>1, <3>r
        <5>2. CASE q < p
          <6>1. Ready(q) /\ worker.best # 0 /\ worker.min <= First(q)
            BY <5>2, <4>3, <1>s
          <6>2. First(q) \in Int /\ worker.min \in Int /\ k.time < worker.min
            BY <6>1, <1>w, <1>b, <3>1, ReadyTime
          <6> QED
            BY <6>1, <6>2, <3>r
        <5> QED
          BY <5>1, <5>2, <4>3, <1>p, <1>w
      <4> HIDE DEF w, k
      <4> QED
        BY <4>1, <4>2, <4>3, <3>r, <1>3, OnwardOrder
    <3>2. CASE ~(worker.best = 0 \/ k.time < worker.min)
      <4>1. Seen(p) = Onward(worker)
        BY <3>2, <2>2, <1>3 DEF Seen
      <4>2. worker.best # 0 /\ worker.min <= First(p)
        BY <3>2, <1>b, <3>r
      <4>3. ~worker.dry => \A q \in m_pActivePins :
                q <= p => Ready(q) /\ worker.best # 0 /\ worker.min <= First(q)
        BY <4>2, <3>r, <1>s, <1>p, <1>w
      <4> QED
        BY <4>1, <4>3, <1>b, <1>w, OnwardOrder
    <3> QED
      BY <3>1, <3>2
  <2> QED
    BY <2>1, <2>2
<1> QED
  BY <1>1, <1>2, <1>3

\* The stream of an input begins with the first packet of its queue.
LEMMA StreamHead ==
    ASSUME TInv, NEW p \in Pins, m_queue[p] # <<>>
    PROVE  /\ Stream(p) # <<>> /\ Head(Stream(p)) = Head(m_queue[p])
           /\ Stream(p)[1] = Head(m_queue[p]) /\ 1 \in 1..Len(Stream(p))
           /\ Tail(Stream(p)) = IF up[p].at = "idle" THEN Tail(m_queue[p])
                                ELSE Append(Tail(m_queue[p]), up[p].packet)
<1>1. m_queue[p] \in Seq(Packets) /\ (up[p].at # "idle" => up[p].packet \in Packets)
  BY StreamType
<1> DEFINE s == m_queue[p]
<1>2. CASE up[p].at = "idle"
  BY <1>1, <1>2 DEF Stream
<1>3. CASE up[p].at # "idle"
  <2> DEFINE k == up[p].packet
             u == Append(s, k)
  <2>1. s \in Seq(Packets) /\ k \in Packets /\ s # <<>>
    BY <1>1, <1>3
  <2> HIDE DEF s, k
  <2>2. u # <<>> /\ Head(u) = Head(s) /\ u[1] = Head(s) /\ 1 \in 1..Len(u)
    BY <2>1
  <2>3. Tail(u) = Append(Tail(s), k)
    BY <2>1
  <2>4. Stream(p) = u
    BY <1>3 DEF Stream, s, k
  <2> QED
    BY <2>2, <2>3, <2>4, <1>3 DEF s, k
<1> QED
  BY <1>2, <1>3

\* What is given out is not later than anything that comes after it.
LEMMA TakeOrder ==
    ASSUME OInv, Session, WTake, NEW CONSTANT b \in Pins, b = worker.best,
           NEW CONSTANT k \in Packets, k = Head(m_queue[b])
    PROVE  /\ m_pActivePins' \subseteq m_pActivePins
           /\ last' = IF k.kind = "sync" THEN k.time ELSE last
           /\ last' >= last
           /\ \A p \in Pins : Good(p)'
<1> USE DEF OInv
<1>b. b \in m_pActivePins /\ b \in Pins /\ m_queue[b] # <<>> /\ Chosen(b)
  BY DEF WTake, Search, Chosen, TInv, TypeOK
<1>t. m_queue \in [Pins -> Seq(Packets)] /\ m_pActivePins \subseteq Pins
  BY DEF TInv, TypeOK
<1>a. /\ UNCHANGED <<up, m_rtMaxStart, main, m_State, stale>>
      /\ m_pActivePins' = StillActive(b, k) /\ m_pActivePins' \subseteq m_pActivePins
      /\ last' = IF k.kind = "sync" THEN k.time ELSE last
  BY <1>b DEF WTake, StillActive, upVars, appVars
<1>q. /\ m_queue'[b] = Tail(m_queue[b])
      /\ \A p \in Pins \ {b} : m_queue'[p] = m_queue[p]
  BY <1>b, <1>t DEF WTake, Popped
<1>g. \A p \in Pins : Good(p)
  BY GoodPins
<1>f. k.kind = "sync" => /\ k.time \in Int /\ k.time # NoTime /\ Ready(b) /\ First(b) = k.time
                         /\ \A p \in m_pActivePins : Ready(p) /\ k.time <= First(p)
  <2> SUFFICES ASSUME k.kind = "sync"
               PROVE  /\ k.time \in Int /\ k.time # NoTime /\ Ready(b) /\ First(b) = k.time
                      /\ \A p \in m_pActivePins : Ready(p) /\ k.time <= First(p)
    OBVIOUS
  <2>1. k.time \in Int /\ k.time # NoTime
    BY PacketTime
  <2>2. Ready(b) /\ First(b) = k.time
    BY <1>b, <2>1 DEF Ready, First, Urgent
  <2> QED
    BY <1>b, <2>1, <2>2 DEF Chosen
<1>s. Stream(b)' = Tail(Stream(b)) /\ \A p \in Pins \ {b} : Stream(p)' = Stream(p)
  BY <1>a, <1>b, <1>q, StreamHead DEF Stream
<1>l. last' >= last /\ last' \in Int /\ last \in Int
  <2>1. last \in Int /\ last <= last
    BY <1>b, StreamType
  <2>2. ASSUME k.kind = "sync" PROVE last <= k.time
    <3>1. Stream(b)[1] = k /\ 1 \in 1..Len(Stream(b)) /\ From(Stream(b), last)
      BY <1>b, <1>g, StreamHead DEF Good
    <3> QED
      BY <3>1, <2>2 DEF From
  <2> QED
    BY <2>1, <2>2, <1>a, <1>f
<1>u. ASSUME NEW p \in m_pActivePins
      PROVE  From(Stream(p), last') /\ last' <= m_rtMaxStart[p]
  <2>1. CASE k.kind = "sync"
    <3>1. Ready(p) /\ k.time <= First(p) /\ last' = k.time
      BY <2>1, <1>a, <1>f
    <3>2. First(p) \in Int /\ First(p) # NoTime /\ m_queue[p] # <<>>
      BY <3>1, <1>t, ReadyTime
    <3>3. /\ Stream(p) # <<>> /\ Head(Stream(p)).time = First(p)
          /\ Stream(p)[1].time = First(p) /\ 1 \in 1..Len(Stream(p))
      BY <3>2, <1>t, StreamHead DEF First
    <3>4. Stream(p) \in Seq(Packets) /\ m_rtMaxStart[p] \in Int /\ Good(p)
      BY <1>t, <1>g, StreamType
    <3>5. From(Stream(p), k.time)
      BY <3>1, <3>2, <3>3, <3>4, <1>f, <2>1, FromFirst DEF Good
    <3>6. First(p) <= m_rtMaxStart[p]
      BY <3>2, <3>3, <3>4 DEF Good, Below
    <3> QED
      BY <3>1, <3>2, <3>4, <3>5, <3>6, <1>f, <2>1
  <2>2. CASE k.kind # "sync"
    BY <2>2, <1>a, <1>g, <1>t DEF Good
  <2> QED
    BY <2>1, <2>2
<1>1. Good(b)'
  <2>1. Stream(b) \in Seq(Packets) /\ Stream(b) # <<>> /\ Good(b)
    BY <1>b, <1>g, StreamType, StreamHead
  <2>2. /\ Ordered(Tail(Stream(b))) /\ Below(Tail(Stream(b)), m_rtMaxStart[b])
        /\ From(Stream(b), last') => From(Tail(Stream(b)), last')
    BY <2>1, Tails DEF Good
  <2> QED
    BY <2>1, <2>2, <1>s, <1>a, <1>b, <1>u DEF Good
<1>2. \A p \in Pins \ {b} : Good(p)'
  BY <1>s, <1>a, <1>g, <1>u DEF Good
<1> QED
  BY <1>a, <1>l, <1>1, <1>2

LEMMA WorkOrder ==
    ASSUME OInv, TInv', Work
    PROVE  OInv'
<1> USE DEF OInv
<1>p. Places' /\ Activated' /\ (Session' <=> Session) /\ UNCHANGED <<up, m_rtMaxStart>>
  BY WorkPlaces
<1>at. \A at \in {"request", "loop", "scan", "accept", "footer", "abort", "none"} :
         WorkerAt(at) => worker'.at = at
  BY IdleType DEF WorkerAt
<1>same. ASSUME UNCHANGED <<m_queue, last, m_pActivePins>>
         PROVE  Streams' /\ Ahead'
  BY <1>same, <1>p DEF Streams, Ahead, Stream
<1>idle. worker'.at \notin {"scan", "take"} => Search'
  BY DEF Search
<1>1. CASE WRun
  <2>1. m_queue' = m_queue /\ last' = Least /\ worker'.at \in {"loop", "abort"}
    BY <1>1, <1>at DEF WRun, Written, pinVars
  <2>2. Streams'
    BY <2>1, <1>p DEF Streams, Stream
  <2>3. Ahead'
    <3> SUFFICES ASSUME NEW p \in Pins
                 PROVE  From(Stream(p), Least) /\ Least <= m_rtMaxStart[p]
      BY <2>1, <1>p, <1>1 DEF Ahead, Stream, WRun
    <3>1. Stream(p) \in Seq(Packets) /\ m_rtMaxStart[p] \in Times \cup {Least}
      BY StreamType DEF TInv, TypeOK
    <3>2. Least <= m_rtMaxStart[p]
      <4>1. \A t \in Times \cup {-1} : -1 <= t
        BY TimesAssumption
      <4> QED
        BY <3>1, <4>1 DEF Least
    <3>3. \A i \in 1..Len(Stream(p)) : Stream(p)[i] \in Packets
      BY <3>1
    <3>4. \A k \in Packets : k.kind = "sync" => Least <= k.time
      <4> TAKE k \in Packets
      <4>1. k.kind = "sync" => k.time \in Int /\ k.time >= Least
        BY PacketTime
      <4> QED
        BY <4>1 DEF Least
    <3> QED
      BY <3>2, <3>3, <3>4 DEF From
  <2> QED
    BY <1>p, <1>idle, <2>1, <2>2, <2>3
<1>2. CASE WExit
  <2>1. UNCHANGED <<m_queue, last, m_pActivePins>> /\ worker'.at = "none"
    BY <1>2, <1>at DEF WExit, pinVars
  <2> QED
    BY <2>1, <1>p, <1>same, <1>idle
<1>3. CASE WLoop
  <2>1. UNCHANGED <<m_queue, last, m_pActivePins>>
    BY <1>3 DEF WLoop, pinVars
  <2>2. CASE WorkerAt("scan")
    <3>1. worker'.at = "scan" /\ worker'.best = 0 /\ worker'.next = 1
      BY <2>2, IdleWorker DEF WorkerAt, Idle
    <3>2. \A p \in m_pActivePins : ~(p < 1)
      BY DEF TInv, TypeOK, Pins
    <3>3. Search'
      BY <2>1, <3>1, <3>2 DEF Search, Scanned
    <3> QED
      BY <2>1, <3>3, <1>p, <1>same
  <2>3. CASE WorkerAt("footer")
    BY <2>1, <2>3, <1>at, <1>p, <1>same, <1>idle
  <2> QED
    BY <1>3, <2>2, <2>3 DEF WLoop
<1>4. CASE WScan
  <2>1. UNCHANGED <<m_queue, last, m_pActivePins>> /\ worker' = Seen(worker.next) /\ worker.at = "scan"
    BY <1>4 DEF WScan, pinVars
  <2>2. Search'
    <3> SUFFICES ASSUME Session
                 PROVE  /\ worker'.at = "scan" => Scanned(worker)'
                        /\ worker'.at = "take" => Chosen(worker.best)'
      BY <1>p DEF Search
    <3> DEFINE w == Seen(worker.next)
    <3>1. (w.at = "scan" => Scanned(w)) /\ (w.at = "take" => Chosen(w.best))
      BY <2>1, ScanOrder DEF Search
    <3>2. /\ (worker'.at = "scan" => Scanned(worker'))
          /\ (worker'.at = "take" => Chosen(worker'.best))
      BY <2>1, <3>1
    <3> QED
      BY <2>1, <3>2 DEF Scanned, Chosen, Ready, First
  <2> QED
    BY <2>1, <2>2, <1>p, <1>same
<1>5. CASE WAccept
  <2>1. UNCHANGED <<m_queue, last, m_pActivePins>> /\ worker'.at = "loop"
    BY <1>5, <1>at DEF WAccept
  <2> QED
    BY <2>1, <1>p, <1>same, <1>idle
<1>6. CASE WTake
  <2>1. worker'.at \in {"loop", "abort"}
    BY <1>6, <1>at DEF WTake, Written
  <2>2. Streams' /\ Ahead'
    <3>1. CASE ~Session
      BY <3>1, <1>p DEF Streams, Ahead
    <3>2. CASE Session
      <4>1. /\ worker.best \in Pins /\ m_queue[worker.best] \in Seq(Packets)
            /\ m_queue[worker.best] # <<>> /\ m_pActivePins \subseteq Pins
        BY <1>6, <3>2 DEF WTake, Search, Chosen, TInv, TypeOK
      <4>2. Head(m_queue[worker.best]) \in Packets
        BY <4>1, Heads
      <4>3. m_pActivePins' \subseteq m_pActivePins /\ \A p \in Pins : Good(p)'
        BY <1>6, <3>2, <4>1, <4>2, TakeOrder
      <4> QED
        BY <4>1, <4>3 DEF Streams, Ahead, Good
    <3> QED
      BY <3>1, <3>2
  <2> QED
    BY <2>1, <2>2, <1>p, <1>idle
<1>7. CASE WEnd
  <2>1. m_queue' = m_queue /\ m_pActivePins' = {} /\ worker'.at = "request"
    BY <1>7, <1>at DEF WEnd, pinVars
  <2>2. Streams' /\ Ahead'
    BY <2>1, <1>p DEF Streams, Ahead, Stream
  <2> QED
    BY <2>1, <2>2, <1>p, <1>idle
<1> QED
  BY <1>1, <1>2, <1>3, <1>4, <1>5, <1>6, <1>7 DEF Work

-----------------------------------------------------------------------------
LEMMA InitOrder == Init => OInv
<1> SUFFICES ASSUME Init PROVE OInv
  OBVIOUS
<1>1. worker.at = "none"
  BY IdleWorker DEF Init, Idle
<1>2. ~Session /\ main.at = "idle" /\ m_State = "Stopped" /\ request = "none" /\ m_pActivePins = {}
  BY DEF Init, Session, IsActive
<1>3. TInv
  BY InitTypes
<1> QED
  BY <1>1, <1>2, <1>3 DEF OInv, Places, Activated, Streams, Ahead, Search

LEMMA OrderKept ==
    ASSUME OInv, [Next]_vars
    PROVE  OInv'
<1>t. TInv'
  BY TypesKept DEF OInv
<1>1. CASE UNCHANGED vars
  BY <1>1, <1>t DEF OInv, Places, Activated, Streams, Ahead, Search, Session, IsActive, Stream,
                    Scanned, Chosen, Ready, First, vars, pinVars, upVars, appVars, workVars
<1> QED
  BY <1>1, <1>t, PinOrder, CallOrder, WorkOrder DEF Next

\* The sync points of all inputs leave the muxer in the order of their times,
\* for any number of inputs, any size of the queues and any samples, flushes
\* included (GetPacket with PushPacket and Receive).
THEOREM SyncPointsInOrder == Spec => InOrder
<1>1. Spec => []OInv
  BY InitOrder, OrderKept, PTL DEF Spec
<1>2. ASSUME OInv, [Next]_vars
      PROVE  [worker.at = "take" /\ ~stale /\ IsActive /\ main.at # "inactive"
                => last' >= last]_vars
  <2> SUFFICES ASSUME Session, worker.at = "take", Next PROVE last' >= last
    BY <1>2 DEF Session
  <2>0. last \in Int
    BY <1>2, PinNumbers, StreamType DEF OInv
  <2>1. CASE \E p \in Pins : Push(p) \/ Send(p)
    <3>1. UNCHANGED last
      BY <2>1 DEF Push, Send, Admitted, TimedOut, Pass, Drop, Add, Receive, EndOfStream, BeginFlush,
                  EndFlush, workVars
    <3> QED
      BY <3>1, <2>0
  <2>2. CASE Call \/ Control
    <3>1. UNCHANGED last
      BY <2>2 DEF Call, Control, Activate, Paused, Answered, Inactivate, Stopped, Start, Stop,
                  PauseOrRun, workVars
    <3> QED
      BY <3>1, <2>0
  <2>3. CASE Work
    <3>1. WTake
      BY <2>3 DEF Work, WRun, WExit, WLoop, WScan, WAccept, WEnd
    <3>2. /\ worker.best \in Pins /\ m_queue[worker.best] \in Seq(Packets)
          /\ m_queue[worker.best] # <<>>
      BY <1>2 DEF OInv, Search, Chosen, TInv, TypeOK
    <3>3. Head(m_queue[worker.best]) \in Packets
      BY <3>2, Heads
    <3> QED
      BY <1>2, <3>1, <3>2, <3>3, TakeOrder
  <2> QED
    BY <2>1, <2>2, <2>3 DEF Next
<1> QED
  BY <1>1, <1>2, PTL DEF Spec, InOrder

=============================================================================
