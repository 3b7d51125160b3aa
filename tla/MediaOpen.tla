------------------------------ MODULE MediaOpen ------------------------------
(***************************************************************************)
(* Opening and closing of media, src/src/mpc-hc/MainFrm.cpp (CMainFrame)   *)
(* and src/src/mpc-hc/GraphThread.cpp (CGraphThread).                      *)
(*                                                                         *)
(* Two threads:                                                            *)
(*   M  the thread of the main window.  It serves the messages posted to   *)
(*      the window and the calls that other threads and programs send to   *)
(*      it.  Its call stack is `stack', the last frame the running call;   *)
(*      a call suspends its caller.  It takes messages only in a message   *)
(*      loop, and sent messages also in the wait of CloseMedia for the     *)
(*      graph thread;                                                      *)
(*   G  the graph thread, which serves the messages in its queue one at a  *)
(*      time: TM_OPEN runs OpenMediaPrivate, TM_CLOSE CloseMediaPrivate.   *)
(*                                                                         *)
(* A medium is the number of the call that opens it.  Whether a medium is  *)
(* opened on G or on M depends on its engine and on the settings; whether  *)
(* it can be opened, and whether the playlist has another one when it      *)
(* cannot, on the medium: all are free choices.                            *)
(***************************************************************************)
EXTENDS Integers, Sequences

CONSTANTS
    MaxOpens, \* bound: media opened
    MaxSent   \* bound: calls made from within another call that waits

ASSUME BoundAssumption == MaxOpens \in Nat /\ MaxSent \in Nat

Media == 1..MaxOpens
NoMedium == 0

VARIABLES
    load,          \* m_eMediaLoadState
    throughThread, \* m_bOpenedThroughThread
    aborted,       \* m_fOpeningAborted
    evOpen,        \* m_evOpenPrivateFinished
    evClose,       \* m_evClosePrivateFinished
    graph,         \* m_pGB: the medium its graph was built for
    lastOMD,       \* m_lastOMD
    stack,         \* M: the calls in progress
    posted,        \* results posted to the main window
    inbox,         \* the message queue of G
    gt,            \* G: where it is and the medium it opens
    opens,         \* media opened so far
    sent,          \* calls made from within a waiting call
    current,       \* history: the last medium to enter LOADING
    onThread,      \* history: that medium is opened on G
    faults         \* history: what went wrong, see Faults

window == <<load, throughThread, aborted, lastOMD>>
events == <<evOpen, evClose>>
thread == <<inbox, gt>>
calls == <<opens, sent>>
history == <<current, onThread, faults>>
vars == <<window, events, graph, stack, posted, thread, calls, history>>

-----------------------------------------------------------------------------
(* What goes wrong, as the code stands.  The properties below are about    *)
(* runs, or the parts of them, in which nothing has.                       *)
(*   overlap  OpenMedia enters LOADING on top of something not closed;     *)
(*   reclose  CloseMedia begins to abort what another call of it, which    *)
(*            waits further down in the stack, is aborting;                *)
(*   flag     OpenMedia leaves a flag that is not that of the last medium; *)
(*   handler  G has to run a handler of the main window itself, as it      *)
(*            finds the flag unset.  Nothing is modelled beyond that.      *)

Faults == {"overlap", "reclose", "flag", "handler"}
Sound == faults = {}
Misrouted == "handler" \in faults

-----------------------------------------------------------------------------
(* The call stack of M. *)

Frame(at, id, next) == [at |-> at, id |-> id, next |-> next]
Top == stack[Len(stack)]
Below == SubSeq(stack, 1, Len(stack) - 1)
At(label) == stack # <<>> /\ Top.at = label /\ ~Misrouted

Suspended(label) == \E i \in 1..Len(stack) : stack[i].at = label

Go(label) == stack' = Append(Below, [Top EXCEPT !.at = label])
Return == stack' = Below
Call(label, frame) ==
    stack' = Append(Append(Below, [Top EXCEPT !.at = label]), frame)

OpenFrame(id) == Frame("open", id, FALSE)
CloseFrame(next) == Frame("close", NoMedium, next)

\* M takes any message: in the loop of the window, or in that of the message
\* box that asks for a missing drive.
InLoop == ~Misrouted /\ (stack = <<>> \/ At("askDrive"))

-----------------------------------------------------------------------------
(* Calls from the outside. *)

\* A command, a dropped file, the command line of a second instance or a
\* program that controls this one opens a medium.
CommandOpen ==
    /\ InLoop /\ opens < MaxOpens
    /\ stack = <<>> \/ sent < MaxSent
    /\ opens' = opens + 1
    /\ sent' = IF stack = <<>> THEN sent ELSE sent + 1
    /\ stack' = Append(stack, OpenFrame(opens + 1))
    /\ UNCHANGED <<window, events, graph, posted, thread, history>>

\* The close command is enabled while something is loaded or loading; a
\* controlling program (CMD_CLOSEFILE) may ask for it in any state.
CommandClose ==
    /\ InLoop
    /\ stack = <<>> \/ sent < MaxSent
    /\ sent' = IF stack = <<>> THEN sent ELSE sent + 1
    /\ stack' = Append(stack, CloseFrame(FALSE))
    /\ UNCHANGED <<window, events, graph, posted, thread, opens, history>>

\* The same calls sent as messages, which M takes while CloseMedia waits for
\* G to destroy the graph, and in PeekMessage when it purges the results.
SentCall ==
    /\ At("waitClose") \/ At("purge")
    /\ sent < MaxSent
    /\ \/ /\ opens < MaxOpens
          /\ opens' = opens + 1
          /\ stack' = Append(stack, OpenFrame(opens + 1))
       \/ stack' = Append(stack, CloseFrame(FALSE)) /\ UNCHANGED opens
    /\ sent' = sent + 1
    /\ UNCHANGED <<window, events, graph, posted, thread, history>>

\* CMainFrame::OnClose and OnDestroy: the program ends.
CommandExit ==
    /\ stack = <<>> /\ ~Misrouted
    /\ stack' = IF load \in {"LOADED", "LOADING"}
                THEN <<Frame("exit", NoMedium, FALSE), CloseFrame(FALSE)>>
                ELSE <<Frame("exit", NoMedium, FALSE)>>
    /\ UNCHANGED <<window, events, graph, posted, thread, calls, history>>

Exit ==
    /\ At("exit")
    /\ inbox' = Append(inbox, [msg |-> "EXIT", id |-> NoMedium])
    /\ Go("waitExit")
    /\ UNCHANGED <<window, events, graph, posted, gt, calls, history>>

\* G ends on TM_EXIT or is terminated after five seconds.
Exited ==
    /\ At("waitExit")
    /\ gt' = [at |-> "gone", id |-> NoMedium]
    /\ inbox' = <<>>
    /\ Go("exited")
    /\ UNCHANGED <<window, events, graph, posted, calls, history>>

-----------------------------------------------------------------------------
(* OpenMedia. *)

\* The call returns at once when only the channel of the loaded tuner
\* changes; otherwise what is loaded is closed first.
OpenMedia ==
    /\ At("open")
    /\ \/ load = "LOADED" /\ Return
       \/ load # "CLOSED" /\ Call("load", CloseFrame(TRUE))
       \/ load = "CLOSED" /\ Go("load")
    /\ UNCHANGED <<window, events, graph, posted, thread, calls, history>>

\* A missing removable drive is asked for in a message box.
AskDrive ==
    /\ At("load")
    /\ Go("askDrive")
    /\ UNCHANGED <<window, events, graph, posted, thread, calls, history>>

DriveRefused ==
    /\ At("askDrive")
    /\ Return
    /\ UNCHANGED <<window, events, graph, posted, thread, calls, history>>

\* Mutant of SetLoading: the event of the opening before stays set.
SetLoadingOnly(useThread) ==
    /\ At("load") \/ At("askDrive")
    /\ load' = "LOADING"
    /\ current' = Top.id
    /\ onThread' = useThread
    /\ faults' = faults \cup (IF load = "CLOSED" THEN {} ELSE {"overlap"})
    /\ Go(IF useThread THEN "postOpen" ELSE "private")
    /\ UNCHANGED <<throughThread, aborted, lastOMD, events, graph, posted,
                   thread, calls>>

SetLoading(useThread) ==
    /\ At("load") \/ At("askDrive")
    /\ load' = "LOADING"
    /\ current' = Top.id
    /\ onThread' = useThread
    /\ faults' = faults \cup (IF load = "CLOSED" THEN {} ELSE {"overlap"})
    /\ evOpen' = (evOpen /\ ~useThread)
    /\ Go(IF useThread THEN "postOpen" ELSE "private")
    /\ UNCHANGED <<throughThread, aborted, lastOMD, evClose, graph, posted,
                   thread, calls>>

\* G may start before the flag is set.
PostOpen ==
    /\ At("postOpen")
    /\ inbox' = Append(inbox, [msg |-> "OPEN", id |-> Top.id])
    /\ Go("setFlag")
    /\ UNCHANGED <<window, events, graph, posted, gt, calls, history>>

SetThroughThread(value) ==
    /\ At(IF value THEN "setFlag" ELSE "clearFlag")
    /\ throughThread' = value
    /\ faults' = faults \cup (IF value = onThread THEN {} ELSE {"flag"})
    /\ Return
    /\ UNCHANGED <<load, aborted, lastOMD, events, graph, posted, thread,
                   calls, current, onThread>>

-----------------------------------------------------------------------------
(* The end of OpenMediaPrivate, on M: the result is handled at once or,    *)
(* when the flag is still set from an earlier medium, posted.              *)

Post(msg, id) == posted' = Append(posted, [msg |-> msg, id |-> id])

OpenPrivate(ok) ==
    /\ At("private")
    /\ graph' \in IF ok THEN {Top.id} ELSE {graph, Top.id}
    /\ \/ /\ ~ok /\ aborted
          /\ Go("clearFlag") /\ UNCHANGED posted
       \/ /\ ok \/ ~aborted
          /\ throughThread
          /\ Post(IF ok THEN "POSTOPEN" ELSE "OPENFAILED", Top.id)
          /\ Go("clearFlag")
       \/ /\ ok \/ ~aborted
          /\ ~throughThread
          /\ Call("clearFlag",
                  Frame(IF ok THEN "opened" ELSE "failed", Top.id, FALSE))
          /\ UNCHANGED posted
    /\ UNCHANGED <<window, events, thread, calls, history>>

\* OnFilePostOpenmedia.
OnFilePostOpenmedia ==
    /\ At("opened")
    /\ load' = "LOADED"
    /\ lastOMD' = Top.id
    /\ Return
    /\ UNCHANGED <<throughThread, aborted, events, graph, posted, thread,
                   calls, history>>

\* OnOpenMediaFailed: the playlist may have another medium to go on with.
OnOpenMediaFailed(next) ==
    /\ At("failed")
    /\ next => opens < MaxOpens
    /\ load' = "FAILING"
    /\ lastOMD' = Top.id
    /\ Call(IF next THEN "openNext" ELSE "return", CloseFrame(next))
    /\ UNCHANGED <<throughThread, aborted, events, graph, posted, thread,
                   calls, history>>

\* Mutant of OpenNext: the call does not look whether there is a medium left.
OpenPastEnd ==
    /\ At("openNext") \/ At("return")
    /\ opens' = opens + 1
    /\ stack' = Append(Below, OpenFrame(opens + 1))
    /\ UNCHANGED <<window, events, graph, posted, thread, sent, history>>

OpenNext ==
    /\ At("openNext") \/ At("return")
    /\ IF Top.at = "openNext" /\ opens < MaxOpens
       THEN /\ opens' = opens + 1
            /\ stack' = Append(Below, OpenFrame(opens + 1))
       ELSE Return /\ UNCHANGED opens
    /\ UNCHANGED <<window, events, graph, posted, thread, sent,
                   history>>

\* The loop of M takes the next result.
TakeResult ==
    /\ InLoop /\ posted # <<>>
    /\ posted' = Tail(posted)
    /\ stack' = Append(stack,
           Frame(IF Head(posted).msg = "POSTOPEN" THEN "opened" ELSE "failed",
                 Head(posted).id, FALSE))
    /\ UNCHANGED <<window, events, graph, thread, calls, history>>

-----------------------------------------------------------------------------
(* CloseMedia. *)

CloseMedia ==
    /\ At("close")
    /\ \/ /\ load \in {"CLOSING", "CLOSED"}
          /\ Return /\ UNCHANGED <<aborted, faults>>
       \/ /\ load = "LOADING"
          /\ aborted' = TRUE
          /\ faults' = faults \cup (IF Suspended("purge") THEN {"reclose"} ELSE {})
          /\ Go("waitOpen")
       \/ /\ load \in {"LOADED", "FAILING"}
          /\ Go("stop") /\ UNCHANGED <<aborted, faults>>
    /\ UNCHANGED <<load, throughThread, lastOMD, events, graph, posted, thread,
                   calls, current, onThread>>

OpenFinished ==
    /\ At("waitOpen") /\ evOpen
    /\ Go("purge")
    /\ UNCHANGED <<window, events, graph, posted, thread, calls, history>>

\* Mutant of OpenTimedOut: no new thread takes the place of the terminated one.
Terminate ==
    /\ At("waitOpen") /\ ~evOpen
    /\ inbox' = <<>>
    /\ gt' = [at |-> "gone", id |-> NoMedium]
    /\ Go("purge")
    /\ UNCHANGED <<window, events, graph, posted, calls, history>>

\* After five seconds G is terminated and a new thread takes its place.
OpenTimedOut ==
    /\ At("waitOpen") /\ ~evOpen
    /\ inbox' = <<>>
    /\ gt' = [at |-> "idle", id |-> NoMedium]
    /\ Go("purge")
    /\ UNCHANGED <<window, events, graph, posted, calls, history>>

\* Remove the first message of this kind.
Purged(msg, queue) ==
    LET hits == {i \in 1..Len(queue) : queue[i].msg = msg}
    IN  IF hits = {} THEN queue
        ELSE LET i == CHOOSE i \in hits : \A j \in hits : i <= j
             IN  SubSeq(queue, 1, i - 1) \o SubSeq(queue, i + 1, Len(queue))

\* Mutant of PurgeResults: the message of a failed opening stays.
PurgeOpened ==
    /\ At("purge")
    /\ posted' = Purged("POSTOPEN", posted)
    /\ aborted' = FALSE
    /\ Go("stop")
    /\ UNCHANGED <<load, throughThread, lastOMD, events, graph, thread, calls,
                   history>>

PurgeResults ==
    /\ At("purge")
    /\ posted' = Purged("OPENFAILED", Purged("POSTOPEN", posted))
    /\ aborted' = FALSE
    /\ Go("stop")
    /\ UNCHANGED <<load, throughThread, lastOMD, events, graph, thread, calls,
                   history>>

\* The state is CLOSING, the graph is stopped and then destroyed.
StopGraph ==
    /\ At("stop")
    /\ load' = "CLOSING"
    /\ Go("destroy")
    /\ UNCHANGED <<throughThread, aborted, lastOMD, events, graph, posted,
                   thread, calls, history>>

PostClose ==
    /\ At("destroy") /\ throughThread
    /\ evClose' = FALSE
    /\ inbox' = Append(inbox, [msg |-> "CLOSE", id |-> NoMedium])
    /\ Go("waitClose")
    /\ UNCHANGED <<window, evOpen, graph, posted, gt, calls, history>>

ClosePrivate ==
    /\ At("destroy") /\ ~throughThread
    /\ graph' = NoMedium
    /\ Go("closed")
    /\ UNCHANGED <<window, events, posted, thread, calls, history>>

CloseFinished ==
    /\ At("waitClose") /\ evClose
    /\ Go("closed")
    /\ UNCHANGED <<window, events, graph, posted, thread, calls, history>>

OnFilePostClosemedia ==
    /\ At("closed")
    /\ load' = "CLOSED"
    /\ Return
    /\ UNCHANGED <<throughThread, aborted, lastOMD, events, graph, posted,
                   thread, calls, history>>

-----------------------------------------------------------------------------
(* G. *)

GtAt(label) == gt.at = label /\ ~Misrouted
GtGo(label) == gt' = [gt EXCEPT !.at = label]

GtTake ==
    /\ GtAt("idle") /\ inbox # <<>>
    /\ inbox' = Tail(inbox)
    /\ LET m == Head(inbox)
       IN  gt' = [at |-> CASE m.msg = "OPEN"  -> IF load = "LOADING"
                                                 THEN "build" ELSE "setOpen"
                           [] m.msg = "CLOSE" -> IF load = "CLOSING"
                                                 THEN "close" ELSE "setClose"
                           [] m.msg = "EXIT"  -> "gone",
                  id |-> m.id]
    /\ UNCHANGED <<window, events, graph, stack, posted, calls, history>>

\* The graph is created, then filled; each stage begins with a look at the
\* abort flag, and each may fail.
GtCreate ==
    /\ GtAt("build")
    /\ IF aborted THEN GtGo("refused") /\ UNCHANGED graph
       ELSE graph' = gt.id /\ (GtGo("title") \/ GtGo("refused"))
    /\ UNCHANGED <<window, events, stack, posted, inbox, calls, history>>

\* OpenSetupWindowTitle sets the text of the main window, which M has to
\* take as a sent message.
GtTitle ==
    /\ GtAt("title")
    /\ IF aborted THEN GtGo("refused")
       ELSE (InLoop \/ At("waitClose") \/ At("purge")) /\ GtGo("titled")
    /\ UNCHANGED <<window, events, graph, stack, posted, inbox, calls, history>>

GtFinish ==
    /\ GtAt("titled")
    /\ IF aborted THEN GtGo("refused") ELSE GtGo("built")
    /\ UNCHANGED <<window, events, graph, stack, posted, inbox, calls, history>>

\* Mutant of GtResult: nothing is posted when the opening has failed.
GtResultIfBuilt ==
    /\ GtAt("built") \/ GtAt("refused")
    /\ GtGo("setOpen")
    /\ IF gt.at = "built" THEN Post("POSTOPEN", gt.id) ELSE UNCHANGED posted
    /\ UNCHANGED <<window, events, graph, stack, inbox, calls, history>>

\* The end of OpenMediaPrivate: a result is posted, except that of an
\* opening that was aborted before its end.  Without the flag G would run
\* the handler of the main window: nothing is modelled beyond that.
GtResult ==
    /\ GtAt("built") \/ GtAt("refused")
    /\ \/ /\ gt.at = "refused" /\ aborted
          /\ GtGo("setOpen") /\ UNCHANGED <<posted, faults>>
       \/ /\ gt.at = "built" \/ ~aborted
          /\ throughThread
          /\ Post(IF gt.at = "built" THEN "POSTOPEN" ELSE "OPENFAILED", gt.id)
          /\ GtGo("setOpen") /\ UNCHANGED faults
       \/ /\ gt.at = "built" \/ ~aborted
          /\ ~throughThread
          /\ faults' = faults \cup {"handler"}
          /\ UNCHANGED <<posted, gt>>
    /\ UNCHANGED <<window, events, graph, stack, inbox, calls, current,
                   onThread>>

GtClose ==
    /\ GtAt("close")
    /\ graph' = NoMedium
    /\ GtGo("setClose")
    /\ UNCHANGED <<window, events, stack, posted, inbox, calls, history>>

GtSignal ==
    /\ GtAt("setOpen") \/ GtAt("setClose")
    /\ evOpen' = (evOpen \/ gt.at = "setOpen")
    /\ evClose' = (evClose \/ gt.at = "setClose")
    /\ gt' = [at |-> "idle", id |-> NoMedium]
    /\ UNCHANGED <<window, graph, stack, posted, inbox, calls, history>>

-----------------------------------------------------------------------------

Init ==
    /\ load = "CLOSED" /\ throughThread = FALSE /\ aborted = FALSE
    /\ evOpen = FALSE /\ evClose = FALSE
    /\ graph = NoMedium /\ lastOMD = NoMedium
    /\ stack = <<>> /\ posted = <<>> /\ inbox = <<>>
    /\ gt = [at |-> "idle", id |-> NoMedium]
    /\ opens = 0 /\ sent = 0
    /\ current = NoMedium /\ onThread = FALSE /\ faults = {}

Outside == CommandOpen \/ CommandClose \/ SentCall \/ CommandExit

OpenStep ==
    \/ OpenMedia \/ AskDrive \/ DriveRefused
    \/ \E b \in BOOLEAN : SetLoading(b) \/ SetThroughThread(b)
    \/ PostOpen
    \/ \E ok \in BOOLEAN : OpenPrivate(ok)
    \/ OnFilePostOpenmedia
    \/ \E next \in BOOLEAN : OnOpenMediaFailed(next)
    \/ OpenNext \/ TakeResult

CloseStep ==
    \/ CloseMedia \/ OpenFinished \/ OpenTimedOut \/ PurgeResults \/ StopGraph
    \/ PostClose \/ ClosePrivate \/ CloseFinished \/ OnFilePostClosemedia
    \/ Exit \/ Exited

\* Building a graph runs the filters of the medium and may take for ever.
GtBuild == GtCreate \/ GtTitle \/ GtFinish
GtServe == GtTake \/ GtResult \/ GtClose \/ GtSignal

Next == Outside \/ OpenStep \/ CloseStep \/ GtBuild \/ GtServe

Spec == Init /\ [][Next]_vars

\* M is scheduled and its timeouts expire; G is scheduled, but nothing is
\* assumed of the stages that build a graph.
FairSpec == Spec /\ WF_vars(OpenStep \/ CloseStep) /\ WF_vars(GtServe)

-----------------------------------------------------------------------------

LoadStates == {"CLOSED", "LOADING", "LOADED", "CLOSING", "FAILING"}
Labels == {"open", "load", "askDrive", "postOpen", "setFlag", "private",
           "clearFlag", "opened", "failed", "openNext", "return", "close",
           "waitOpen", "purge", "stop", "destroy", "waitClose", "closed",
           "exit", "waitExit", "exited"}
GtLabels == {"idle", "build", "title", "titled", "built", "refused", "setOpen",
             "close", "setClose", "gone"}
Ids == Media \cup {NoMedium}

TypeOK ==
    /\ load \in LoadStates
    /\ throughThread \in BOOLEAN /\ aborted \in BOOLEAN
    /\ evOpen \in BOOLEAN /\ evClose \in BOOLEAN
    /\ graph \in Ids /\ lastOMD \in Ids /\ current \in Ids
    /\ stack \in Seq([at : Labels, id : Ids, next : BOOLEAN])
    /\ posted \in Seq([msg : {"POSTOPEN", "OPENFAILED"}, id : Ids])
    /\ inbox \in Seq([msg : {"OPEN", "CLOSE", "EXIT"}, id : Ids])
    /\ gt \in [at : GtLabels, id : Ids]
    /\ opens \in 0..MaxOpens /\ sent \in 0..MaxSent
    /\ onThread \in BOOLEAN /\ faults \subseteq Faults

\* A result is handled for the medium being loaded only: whatever the moment
\* at which CloseMedia aborts an opening, terminates the thread or finds it
\* finished, no result of that opening is left for the next medium, and no
\* medium gets two results.
ResultsCurrent ==
    Sound =>
        /\ \A i \in DOMAIN posted : posted[i].id = current
        /\ posted # <<>> => load = "LOADING" /\ Len(posted) = 1
        /\ load = "LOADED" => lastOMD = current

Phase ==
    CASE load = "CLOSED"  -> "closed"
      [] load = "LOADING" -> "opening"
      [] load = "LOADED"  -> "open"
      [] OTHER            -> "closing"

Life == INSTANCE MediaLife WITH phase <- Phase, medium <- current

\* The two threads, the messages between them and the abort with its timeout
\* implement the life of a medium: its graph is built in LOADING only and by
\* one thread, LOADED means that the graph is there, and CLOSED that it is
\* gone, also when the thread that was building it has been terminated.
KeepsLife ==
    Life!LifeInit /\ [][Life!LifeNext \/ faults' # {}]_(Life!lifeVars)

\* M gets back to a message loop, also when G never returns from building a
\* graph or waits for M, which waits for G.
Responds == ~InLoop ~> (InLoop \/ At("exited") \/ ~Sound)

\* If G always comes to the end of building a graph, an opening ends: no
\* result is lost, whatever is closed and opened meanwhile.
Settles == <>[](gt.at \notin {"build", "title", "titled"}) =>
    (load = "LOADING" ~> load # "LOADING" \/ ~Sound)

\* "close the current graph before opening new media", and the assertion
\* after it that the state is CLOSED.
ClosedFirst == "overlap" \notin faults
=============================================================================
