---------------------------- MODULE MediaOpenProofs ----------------------------
(***************************************************************************)
(* Proofs about MediaOpen, for every number of media and of calls made     *)
(* from within another call.                                               *)
(***************************************************************************)
EXTENDS MediaOpen, SequenceTheorems, WellFoundedInduction, TLAPS

Frames == [at : Labels, id : Ids, next : BOOLEAN]

JobsOf(s) == {s[i].at : i \in 1..Len(s)}

\* What the calls in progress are at, and those below the running one.
Jobs == JobsOf(stack)
LowJobs == JobsOf(Below)
None(labels) == \A x \in labels : x \notin Jobs

\* The calls that may be suspended by another one.
Waiting == {"load", "askDrive", "clearFlag", "openNext", "return", "purge", "waitClose", "exit"}
Asking == {"open", "load", "askDrive"}
Chosen == {"postOpen", "private", "opened", "failed"}

\* Nothing that another call has begun goes on above a call that waits.
ShapeOf(s) ==
    \A i \in 1..Len(s) :
        /\ i < Len(s) => s[i].at \in Waiting
        /\ s[i].at = "waitClose" =>
              \A j \in (i + 1)..Len(s) : s[j].at \in {"open", "load", "askDrive", "close"}
        /\ s[i].at = "purge" =>
              \A j \in (i + 1)..Len(s) : s[j].at \in {"open", "load", "close"}

\* A medium that has not been loaded yet is not the current one.
NumbersOf(s, c, n) ==
    \A i \in 1..Len(s) :
        /\ s[i].at \in Asking =>
              /\ s[i].id \in 1..n /\ s[i].id # c
              /\ \A j \in 1..Len(s) : j # i /\ s[j].at \in Asking => s[j].id # s[i].id
        /\ s[i].at \in Chosen => s[i].id = c

Shape == ShapeOf(stack) /\ ("purge" \in Jobs => Top.at \in {"purge", "open", "close"})
Numbers == current <= opens /\ NumbersOf(stack, current, opens)

Stages ==
    /\ ~None({"postOpen", "setFlag", "private", "opened", "failed", "waitOpen", "purge"})
         => load = "LOADING"
    /\ "stop" \in Jobs => load \in {"LOADING", "LOADED", "FAILING"}
    /\ ~None({"destroy", "waitClose", "closed"}) => load = "CLOSING"

Clean == \A i \in 1..Len(inbox) : inbox[i].msg = "EXIT"
Quiet == Clean /\ gt.at \in {"idle", "gone"}
Rest == Clean /\ gt.at \in {"idle", "gone", "setOpen"}
Begun == {"postOpen", "private", "opened", "failed", "stop"}
Building == {"build", "title", "titled", "built", "refused"}

\* The program ends.
Leaving ==
    gt.at = "gone" \/ (\E i \in 1..Len(inbox) : inbox[i].msg = "EXIT") =>
        stack # <<>> /\ Top.at \in {"waitExit", "exited"}

Results ==
    posted # <<>> =>
        /\ load = "LOADING" /\ Len(posted) = 1 /\ posted[1].id = current
        /\ posted[1].msg = "POSTOPEN" => graph = current
        /\ Rest /\ None(Begun)

Orders ==
    \A i \in 1..Len(inbox) :
        /\ inbox[i].msg # "EXIT" => i = 1
        /\ inbox[i].msg = "OPEN" =>
              /\ load = "LOADING" /\ inbox[i].id = current /\ onThread /\ ~evOpen
              /\ graph = NoMedium /\ gt.at \in {"idle", "gone"} /\ posted = <<>>
              /\ None(Begun) /\ "purge" \notin Jobs
        /\ inbox[i].msg = "CLOSE" =>
              "waitClose" \in Jobs /\ ~evClose /\ gt.at \in {"idle", "gone", "setOpen"}

\* Where the graph thread is.
Serving ==
    /\ gt.at \in Building =>
          /\ load = "LOADING" /\ gt.id = current /\ onThread /\ ~evOpen
          /\ Clean /\ posted = <<>> /\ None(Begun) /\ "purge" \notin Jobs
          /\ gt.at = "build" => graph = NoMedium
          /\ gt.at \in {"title", "titled", "built"} => graph = current
    /\ gt.at \in {"close", "setClose"} =>
          /\ "waitClose" \in Jobs /\ ~evClose /\ Clean
          /\ gt.at = "setClose" => graph = NoMedium

\* When nothing of the graph thread is outstanding, and which graph there is.
Settled ==
    /\ ~onThread \/ load = "CLOSED" \/ (load = "LOADING" /\ evOpen) => Quiet
    /\ ~None({"purge", "private", "postOpen", "closed"}) => Quiet
    /\ "waitClose" \in Jobs /\ evClose => Quiet /\ graph = NoMedium
    /\ load = "CLOSED" \/ ~None({"private", "postOpen", "closed"}) => graph = NoMedium
    /\ load \in {"LOADED", "FAILING"} \/ ~None({"opened", "failed", "stop", "destroy"}) => Rest
    /\ load = "LOADED" \/ "opened" \in Jobs => graph = current
    /\ load = "LOADED" => lastOMD = current

Flags ==
    /\ "postOpen" \in Jobs => onThread /\ ~evOpen
    /\ "setFlag" \in Jobs => onThread
    /\ "private" \in Jobs => ~onThread
    /\ (stack = <<>> \/ Top.at # "clearFlag") /\ None({"postOpen", "setFlag", "private"})
         => throughThread = onThread

State == Stages /\ Leaving /\ Results /\ Orders /\ Serving /\ Settled /\ Flags

IInv == TypeOK /\ (Sound => Shape /\ Numbers /\ State)

-----------------------------------------------------------------------------
(* The call stack. *)

LEMMA JobsAppend ==
    ASSUME NEW s \in Seq(Frames), NEW f \in Frames
    PROVE  JobsOf(Append(s, f)) = JobsOf(s) \cup {f.at} /\ Append(s, f) \in Seq(Frames)
<1>1. /\ Append(s, f) \in Seq(Frames) /\ Len(Append(s, f)) = Len(s) + 1 /\ Len(s) \in Nat
      /\ \A i \in 1..Len(s) : Append(s, f)[i] = s[i]
      /\ Append(s, f)[Len(s) + 1] = f
  OBVIOUS
<1>2. \A i \in 1..(Len(s) + 1) : i \in 1..Len(s) \/ i = Len(s) + 1
  BY <1>1
<1>3. 1..Len(s) \subseteq 1..(Len(s) + 1) /\ Len(s) + 1 \in 1..(Len(s) + 1)
  BY <1>1
<1> DEFINE u == Append(s, f)
<1> HIDE DEF u
<1>4. \A x : x \in JobsOf(u) <=> x \in JobsOf(s) \/ x = f.at
  BY <1>1, <1>2, <1>3 DEF JobsOf, u
<1> QED
  BY <1>1, <1>4 DEF u

LEMMA SequenceButLast ==
    ASSUME NEW S, NEW s \in Seq(S), Len(s) >= 1
    PROVE  /\ SubSeq(s, 1, Len(s) - 1) \in Seq(S)
           /\ Len(SubSeq(s, 1, Len(s) - 1)) = Len(s) - 1
           /\ \A i \in 1..(Len(s) - 1) : SubSeq(s, 1, Len(s) - 1)[i] = s[i]
<1> DEFINE n == Len(s) - 1
<1>1. n \in Nat /\ 1 \in Int /\ \A i \in 1..n : s[i] \in S
  OBVIOUS
<1> HIDE DEF n
<1>2. /\ SubSeq(s, 1, n) \in Seq(S)
      /\ Len(SubSeq(s, 1, n)) = IF 1 <= n THEN n - 1 + 1 ELSE 0
      /\ \A i \in 1..(n - 1 + 1) : SubSeq(s, 1, n)[i] = s[1 + i - 1]
  BY <1>1, SubSeqProperties
<1>3. Len(SubSeq(s, 1, n)) = n /\ \A i \in 1..n : SubSeq(s, 1, n)[i] = s[i]
  BY <1>1, <1>2
<1> QED
  BY <1>2, <1>3 DEF n

\* The running call, and the calls below it.
LEMMA TopFacts ==
    ASSUME TypeOK, stack # <<>>
    PROVE  /\ Top \in Frames /\ Below \in Seq(Frames) /\ Len(stack) \in Nat
           /\ Len(stack) >= 1 /\ Len(Below) = Len(stack) - 1
           /\ \A i \in 1..Len(Below) : Below[i] = stack[i] /\ i \in 1..Len(stack) /\ i < Len(stack)
           /\ Top = stack[Len(stack)] /\ Len(stack) \in 1..Len(stack)
           /\ \A i \in 1..Len(stack) : i = Len(stack) \/ i \in 1..Len(Below)
           /\ Jobs = LowJobs \cup {Top.at}
<1>1. stack \in Seq(Frames) /\ Len(stack) \in Nat /\ Len(stack) >= 1
  BY DEF TypeOK, Frames
<1>2. /\ Below \in Seq(Frames) /\ Len(Below) = Len(stack) - 1
      /\ \A i \in 1..(Len(stack) - 1) : Below[i] = stack[i]
  BY <1>1, SequenceButLast DEF Below
<1>3. Top \in Frames /\ Top = stack[Len(stack)]
  BY <1>1 DEF Top
<1>4. /\ \A i \in 1..Len(Below) : i \in 1..Len(stack) /\ i < Len(stack)
      /\ \A i \in 1..Len(stack) : i = Len(stack) \/ i \in 1..Len(Below)
      /\ Len(stack) \in 1..Len(stack)
  BY <1>1, <1>2
<1>5. Jobs = LowJobs \cup {Top.at}
  <2> DEFINE s == stack
             b == Below
             t == Top
  <2>1. /\ \A i \in 1..Len(b) : b[i] = s[i] /\ i \in 1..Len(s)
        /\ \A i \in 1..Len(s) : i = Len(s) \/ i \in 1..Len(b)
        /\ Len(s) \in 1..Len(s) /\ t = s[Len(s)]
    BY <1>1, <1>2, <1>3, <1>4
  <2> HIDE DEF s, b, t
  <2>2. JobsOf(s) = JobsOf(b) \cup {t.at}
    BY <2>1 DEF JobsOf
  <2> QED
    BY <2>2 DEF Jobs, LowJobs, s, b, t
<1> QED
  BY <1>1, <1>2, <1>3, <1>4, <1>5

LEMMA FrameType ==
    ASSUME NEW at \in Labels, NEW id \in Ids, NEW next \in BOOLEAN
    PROVE  LET f == Frame(at, id, next)
           IN  f \in Frames /\ f.at = at /\ f.id = id /\ f.next = next
  BY DEF Frame, Frames

LEMMA NoMediumId == NoMedium \in Ids
  BY DEF Ids

LEMMA CloseType ==
    ASSUME NEW next \in BOOLEAN
    PROVE  CloseFrame(next) \in Frames /\ CloseFrame(next).at = "close"
  BY FrameType, NoMediumId DEF CloseFrame, Labels

LEMMA OpenType ==
    ASSUME NEW m \in Media
    PROVE  OpenFrame(m) \in Frames /\ OpenFrame(m).at = "open" /\ OpenFrame(m).id = m
<1>1. m \in Ids /\ "open" \in Labels
  BY DEF Ids, Labels
<1> QED
  BY <1>1, FrameType DEF OpenFrame

LEMMA GoType ==
    ASSUME TypeOK, stack # <<>>, NEW label \in Labels
    PROVE  /\ [Top EXCEPT !.at = label] \in Frames
           /\ [Top EXCEPT !.at = label].at = label /\ [Top EXCEPT !.at = label].id = Top.id
  BY TopFacts DEF Frames

\* The running call goes on, returns, or makes a call; a call comes from outside.
LEMMA GoStack ==
    ASSUME TypeOK, stack # <<>>, NEW label \in Labels, Go(label)
    PROVE  /\ stack' \in Seq(Frames) /\ stack' # <<>>
           /\ Top'.at = label /\ Jobs' = LowJobs \cup {label}
<1> DEFINE f == [Top EXCEPT !.at = label]
<1>1. f \in Frames /\ f.at = label /\ Below \in Seq(Frames)
  BY GoType, TopFacts
<1>2. stack' = Append(Below, f)
  BY DEF Go
<1> HIDE DEF f
<1>3. /\ stack' \in Seq(Frames) /\ stack' # <<>> /\ stack'[Len(stack')] = f
      /\ JobsOf(stack') = JobsOf(Below) \cup {f.at}
  BY <1>1, <1>2, JobsAppend
<1> QED
  BY <1>1, <1>3 DEF Top, Jobs, LowJobs

LEMMA ReturnStack ==
    ASSUME TypeOK, stack # <<>>, Return
    PROVE  stack' \in Seq(Frames) /\ Jobs' = LowJobs
  BY TopFacts DEF Return, Jobs, LowJobs

LEMMA CallStack ==
    ASSUME TypeOK, stack # <<>>, NEW label \in Labels, NEW f \in Frames, Call(label, f)
    PROVE  /\ stack' \in Seq(Frames) /\ stack' # <<>>
           /\ Top'.at = f.at /\ Jobs' = LowJobs \cup {label, f.at}
<1> DEFINE g == [Top EXCEPT !.at = label]
           s == Append(Below, g)
<1>1. g \in Frames /\ g.at = label /\ Below \in Seq(Frames)
  BY GoType, TopFacts
<1>2. stack' = Append(s, f)
  BY DEF Call
<1> HIDE DEF g
<1>3. s \in Seq(Frames) /\ JobsOf(s) = LowJobs \cup {label}
  BY <1>1, JobsAppend DEF LowJobs
<1> HIDE DEF s
<1>4. /\ stack' \in Seq(Frames) /\ stack' # <<>> /\ stack'[Len(stack')] = f
      /\ JobsOf(stack') = JobsOf(s) \cup {f.at}
  BY <1>2, <1>3, JobsAppend
<1> QED
  BY <1>3, <1>4 DEF Top, Jobs

LEMMA PushStack ==
    ASSUME TypeOK, NEW f \in Frames, stack' = Append(stack, f)
    PROVE  /\ stack' \in Seq(Frames) /\ stack' # <<>>
           /\ Top'.at = f.at /\ Jobs' = Jobs \cup {f.at}
<1>1. stack \in Seq(Frames)
  BY DEF TypeOK, Frames
<1>2. /\ stack' \in Seq(Frames) /\ stack' # <<>> /\ stack'[Len(stack')] = f
      /\ JobsOf(stack') = JobsOf(stack) \cup {f.at}
  BY <1>1, JobsAppend
<1> QED
  BY <1>2 DEF Top, Jobs

LEMMA ReplaceStack ==
    ASSUME TypeOK, stack # <<>>, NEW f \in Frames, stack' = Append(Below, f)
    PROVE  /\ stack' \in Seq(Frames) /\ stack' # <<>>
           /\ Top'.at = f.at /\ Jobs' = LowJobs \cup {f.at}
<1>1. Below \in Seq(Frames)
  BY TopFacts
<1>2. /\ stack' \in Seq(Frames) /\ stack' # <<>> /\ stack'[Len(stack')] = f
      /\ JobsOf(stack') = JobsOf(Below) \cup {f.at}
  BY <1>1, JobsAppend
<1> QED
  BY <1>2 DEF Top, Jobs, LowJobs

-----------------------------------------------------------------------------
(* Its shape, and the media in it. *)

LEMMA ShapeAppend ==
    ASSUME NEW s \in Seq(Frames), NEW f \in Frames, ShapeOf(s),
           s # <<>> => s[Len(s)].at \in Waiting,
           "waitClose" \in JobsOf(s) => f.at \in {"open", "load", "askDrive", "close"},
           "purge" \in JobsOf(s) => f.at \in {"open", "load", "close"}
    PROVE  ShapeOf(Append(s, f))
<1> DEFINE u == Append(s, f)
<1>1. /\ Len(u) = Len(s) + 1 /\ Len(s) \in Nat /\ u[Len(s) + 1] = f
      /\ \A i \in 1..Len(s) : u[i] = s[i]
  OBVIOUS
<1> HIDE DEF u
<1> SUFFICES ASSUME NEW i \in 1..Len(u)
             PROVE  /\ i < Len(u) => u[i].at \in Waiting
                    /\ u[i].at = "waitClose" =>
                          \A j \in (i + 1)..Len(u) : u[j].at \in {"open", "load", "askDrive", "close"}
                    /\ u[i].at = "purge" =>
                          \A j \in (i + 1)..Len(u) : u[j].at \in {"open", "load", "close"}
  BY DEF ShapeOf, u
<1>2. CASE i = Len(s) + 1
  <2>1. ~(i < Len(u)) /\ \A j \in (i + 1)..Len(u) : FALSE
    BY <1>1, <1>2
  <2> QED
    BY <2>1
<1>3. CASE i # Len(s) + 1
  <2>1. i \in 1..Len(s) /\ u[i] = s[i] /\ s # <<>> /\ (i < Len(s) \/ i = Len(s))
    BY <1>1, <1>3
  <2>2. s[i].at \in Waiting
    BY <2>1 DEF ShapeOf
  <2>3. s[i].at \in JobsOf(s)
    BY <2>1 DEF JobsOf
  <2>4. \A j \in (i + 1)..Len(u) : (j \in (i + 1)..Len(s) /\ u[j] = s[j]) \/ u[j] = f
    <3> TAKE j \in (i + 1)..Len(u)
    <3>1. j = Len(s) + 1 \/ (j \in (i + 1)..Len(s) /\ j \in 1..Len(s))
      BY <1>1, <2>1
    <3> QED
      BY <3>1, <1>1
  <2> QED
    BY <2>1, <2>2, <2>3, <2>4 DEF ShapeOf
<1> QED
  BY <1>2, <1>3

LEMMA ShapeBelow ==
    ASSUME TypeOK, stack # <<>>, ShapeOf(stack)
    PROVE  /\ ShapeOf(Below)
           /\ \A i \in 1..Len(Below) : Below[i].at \in Waiting
           /\ Below # <<>> => Below[Len(Below)].at \in Waiting
           /\ LowJobs \subseteq Waiting
           /\ "waitClose" \in LowJobs => Top.at \in {"open", "load", "askDrive", "close"}
           /\ "purge" \in LowJobs => Top.at \in {"open", "load", "close"}
<1>1. \A i \in 1..Len(Below) : Below[i].at \in Waiting
  BY TopFacts DEF ShapeOf
<1>2. \A i \in 1..Len(Below) : Len(stack) \in (i + 1)..Len(stack)
  BY TopFacts
<1>3. /\ "waitClose" \in LowJobs => Top.at \in {"open", "load", "askDrive", "close"}
      /\ "purge" \in LowJobs => Top.at \in {"open", "load", "close"}
  BY <1>2, TopFacts DEF LowJobs, JobsOf, ShapeOf
<1>4. ShapeOf(Below)
  <2>1. \A i \in 1..Len(Below) : \A j \in (i + 1)..Len(Below) :
           j \in (i + 1)..Len(stack) /\ j \in 1..Len(Below)
    BY TopFacts
  <2> QED
    BY <1>1, <2>1, TopFacts DEF ShapeOf
<1>5. Below # <<>> => Len(Below) \in 1..Len(Below)
  BY TopFacts
<1> QED
  BY <1>1, <1>3, <1>4, <1>5 DEF LowJobs, JobsOf

LEMMA NumbersAppend ==
    ASSUME NEW s \in Seq(Frames), NEW f \in Frames, NEW c \in Int, NEW n \in Int, NumbersOf(s, c, n),
           f.at \in Asking => /\ f.id \in 1..n /\ f.id # c
                              /\ \A i \in 1..Len(s) : s[i].at \in Asking => s[i].id # f.id,
           f.at \in Chosen => f.id = c
    PROVE  NumbersOf(Append(s, f), c, n)
<1> DEFINE u == Append(s, f)
<1>1. /\ Len(u) = Len(s) + 1 /\ Len(s) \in Nat /\ u[Len(s) + 1] = f
      /\ \A i \in 1..Len(s) : u[i] = s[i]
  OBVIOUS
<1>2. \A i \in 1..Len(u) : i \in 1..Len(s) \/ i = Len(s) + 1
  BY <1>1
<1> HIDE DEF u
<1> QED
  BY <1>1, <1>2 DEF NumbersOf, u

LEMMA NumbersBelow ==
    ASSUME TypeOK, stack # <<>>, NumbersOf(stack, current, opens)
    PROVE  /\ NumbersOf(Below, current, opens)
           /\ Top.at \in Asking => /\ Top.id \in 1..opens /\ Top.id # current
                                   /\ \A i \in 1..Len(Below) : Below[i].at \in Asking => Below[i].id # Top.id
           /\ Top.at \in Chosen => Top.id = current
<1>1. NumbersOf(Below, current, opens)
  BY TopFacts DEF NumbersOf
<1>2. \A i \in 1..Len(Below) : i # Len(stack)
  BY TopFacts
<1> QED
  BY <1>1, <1>2, TopFacts DEF NumbersOf

-----------------------------------------------------------------------------
(* Types. *)

PostedResults == [msg : {"POSTOPEN", "OPENFAILED"}, id : Ids]

LEMMA LeastExists ==
    ASSUME NEW T, T \subseteq Nat, T # {}
    PROVE  \E i \in T : \A j \in T : i <= j
<1> DEFINE R == OpToRel(<, Nat)
<1>1. \A i, j \in Nat : j < i => <<j, i>> \in R
  BY DEF OpToRel
<1>2. IsWellFoundedOn(R, Nat)
  BY NatLessThanWellFounded
<1> HIDE DEF R
<1>3. \E i \in T : \A j \in T : ~(<<j, i>> \in R)
  BY <1>2, WFMin
<1>4. PICK i \in T : \A j \in T : ~(<<j, i>> \in R)
  BY <1>3
<1>5. ASSUME NEW j \in T PROVE i <= j
  <2>1. i \in Nat /\ j \in Nat /\ ~(<<j, i>> \in R)
    BY <1>4
  <2>2. ~(j < i)
    BY <1>1, <2>1
  <2> QED
    BY <2>1, <2>2
<1> QED
  BY <1>5

LEMMA PurgedType ==
    ASSUME NEW msg, NEW q \in Seq(PostedResults)
    PROVE  /\ Purged(msg, q) \in Seq(PostedResults)
           /\ Len(q) <= 1 => Purged(msg, q) = IF q # <<>> /\ q[1].msg = msg THEN <<>> ELSE q
<1> DEFINE hits == {i \in 1..Len(q) : q[i].msg = msg}
           i == CHOOSE j \in hits : \A k \in hits : j <= k
<1>1. Len(q) \in Nat /\ \A j \in 1..Len(q) : q[j] \in PostedResults
  OBVIOUS
<1>2. CASE hits = {}
  <2>1. Purged(msg, q) = q
    BY <1>2 DEF Purged
  <2>2. Len(q) <= 1 /\ q # <<>> => 1 \in 1..Len(q)
    BY <1>1
  <2> QED
    BY <1>2, <2>1, <2>2
<1>3. CASE hits # {}
  <2>1. Purged(msg, q) = SubSeq(q, 1, i - 1) \o SubSeq(q, i + 1, Len(q))
    BY <1>3 DEF Purged
  <2>2. i \in hits
    <3>1. hits \subseteq Nat
      BY <1>1
    <3>2. \E j \in hits : \A k \in hits : j <= k
      BY <1>3, <3>1, LeastExists
    <3> QED
      BY <3>2
  <2> DEFINE a == SubSeq(q, 1, i - 1)
             b == SubSeq(q, i + 1, Len(q))
  <2>3. i \in 1..Len(q) /\ i \in Int /\ Len(q) \in Int /\ q[i].msg = msg
    BY <1>1, <2>2
  <2>4. a \in Seq(PostedResults) /\ b \in Seq(PostedResults)
    <3> HIDE DEF i, hits
    <3>1. 1 \in Int /\ i - 1 \in Int /\ \A j \in 1..(i - 1) : q[j] \in PostedResults
      BY <1>1, <2>3
    <3>2. i + 1 \in Int /\ \A j \in (i + 1)..Len(q) : q[j] \in PostedResults
      BY <1>1, <2>3
    <3>3. a \in Seq(PostedResults)
      BY <3>1, SubSeqProperties
    <3>4. b \in Seq(PostedResults)
      BY <2>3, <3>2, SubSeqProperties
    <3> QED
      BY <3>3, <3>4
  <2>5. ASSUME Len(q) <= 1
        PROVE  i = 1 /\ Len(q) = 1 /\ a = <<>> /\ b = <<>>
    <3> HIDE DEF i, hits, a, b
    <3>1. \A k, n \in Int : k \in 1..n /\ n <= 1 => k = 1 /\ n = 1
      OBVIOUS
    <3>2. i = 1 /\ Len(q) = 1
      BY <3>1, <2>3, <2>5
    <3> QED
      BY <3>2, SubSeqEmpty DEF a, b
  <2>6. Purged(msg, q) = a \o b
    BY <2>1
  <2> HIDE DEF a, b, i, hits
  <2>7. a \o b \in Seq(PostedResults)
    BY <2>4
  <2>8. a = <<>> /\ b = <<>> => a \o b = <<>>
    OBVIOUS
  <2>9. Len(q) <= 1 => q # <<>> /\ q[1].msg = msg
    BY <1>1, <2>3, <2>5
  <2> QED
    BY <2>5, <2>6, <2>7, <2>8, <2>9
<1> QED
  BY <1>2, <1>3

LEMMA NextMedium ==
    ASSUME TypeOK, opens < MaxOpens
    PROVE  /\ opens + 1 \in Media /\ opens + 1 \in 0..MaxOpens
           /\ OpenFrame(opens + 1) \in Frames /\ OpenFrame(opens + 1).at = "open"
           /\ OpenFrame(opens + 1).id = opens + 1
<1>1. opens + 1 \in Media /\ opens + 1 \in 0..MaxOpens
  BY BoundAssumption DEF TypeOK, Media
<1> QED
  BY <1>1, OpenType

LEMMA NextSent ==
    ASSUME TypeOK, sent < MaxSent
    PROVE  sent + 1 \in 0..MaxSent
  BY BoundAssumption DEF TypeOK

LEMMA AtFacts ==
    ASSUME NEW label, At(label)
    PROVE  stack # <<>> /\ Top.at = label /\ ~Misrouted
  BY DEF At

LEMMA PostedType ==
    ASSUME TypeOK, NEW msg \in {"POSTOPEN", "OPENFAILED"}, NEW id \in Ids, Post(msg, id)
    PROVE  posted' \in Seq(PostedResults)
<1>1. [msg |-> msg, id |-> id] \in PostedResults /\ posted \in Seq(PostedResults)
  BY DEF TypeOK, PostedResults
<1> DEFINE r == [msg |-> msg, id |-> id]
<1> HIDE DEF r
<1>2. r \in PostedResults
  BY <1>1 DEF r
<1>3. posted' = Append(posted, r)
  BY DEF Post, r
<1> QED
  BY <1>1, <1>2, <1>3

Messages == [msg : {"OPEN", "CLOSE", "EXIT"}, id : Ids]

LEMMA InboxType ==
    ASSUME TypeOK, NEW m \in {"OPEN", "CLOSE", "EXIT"}, NEW id \in Ids,
           inbox' = Append(inbox, [msg |-> m, id |-> id])
    PROVE  inbox' \in Seq(Messages)
<1> DEFINE r == [msg |-> m, id |-> id]
<1>1. r \in Messages /\ inbox \in Seq(Messages)
  BY DEF TypeOK, Messages
<1> HIDE DEF r
<1>2. inbox' = Append(inbox, r)
  BY DEF r
<1> QED
  BY <1>1, <1>2

LEMMA NewExit ==
    ASSUME TypeOK, CommandExit
    PROVE  /\ stack' \in Seq(Frames) /\ stack' # <<>>
           /\ Top'.at \in {"close", "exit"} /\ Jobs' = {"exit", Top'.at}
<1> DEFINE e == Frame("exit", NoMedium, FALSE)
           c == CloseFrame(FALSE)
<1>1. e \in Frames /\ e.at = "exit" /\ c \in Frames /\ c.at = "close"
  BY FrameType, CloseType, NoMediumId DEF Labels
<1>2. stack' = <<e>> \/ stack' = <<e, c>>
  BY DEF CommandExit
<1> HIDE DEF e, c
<1>3. CASE stack' = <<e>>
  <2>1. /\ stack' \in Seq(Frames) /\ Len(stack') = 1 /\ stack'[1] = e
        /\ \A i : i \in 1..1 <=> i = 1
    BY <1>1, <1>3
  <2>2. \A x : x \in JobsOf(stack') <=> x = "exit"
    BY <1>1, <2>1 DEF JobsOf
  <2> QED
    BY <1>1, <2>1, <2>2 DEF Jobs, Top
<1>4. CASE stack' = <<e, c>>
  <2>1. /\ stack' \in Seq(Frames) /\ Len(stack') = 2 /\ stack'[1] = e /\ stack'[2] = c
        /\ \A i : i \in 1..2 <=> i = 1 \/ i = 2
    BY <1>1, <1>4
  <2>2. \A x : x \in JobsOf(stack') <=> x = "exit" \/ x = "close"
    BY <1>1, <2>1 DEF JobsOf
  <2> QED
    BY <1>1, <2>1, <2>2 DEF Jobs, Top
<1> QED
  BY <1>2, <1>3, <1>4

LEMMA EmptySequences == <<>> \in Seq([msg : {"OPEN", "CLOSE", "EXIT"}, id : Ids])
  OBVIOUS

LEMMA HeadPosted ==
    ASSUME TypeOK, posted # <<>>
    PROVE  /\ Head(posted).msg \in {"POSTOPEN", "OPENFAILED"} /\ Head(posted).id \in Ids
           /\ Tail(posted) \in Seq(PostedResults) /\ Len(Tail(posted)) = Len(posted) - 1
           /\ Head(posted) = posted[1]
<1>1. posted \in Seq(PostedResults)
  BY DEF TypeOK, PostedResults
<1>2. /\ Head(posted) \in PostedResults /\ Tail(posted) \in Seq(PostedResults)
      /\ Len(Tail(posted)) = Len(posted) - 1 /\ Head(posted) = posted[1]
  BY <1>1
<1> QED
  BY <1>2 DEF PostedResults

LEMMA HeadInbox ==
    ASSUME TypeOK, inbox # <<>>
    PROVE  /\ Head(inbox).msg \in {"OPEN", "CLOSE", "EXIT"} /\ Head(inbox).id \in Ids
           /\ Tail(inbox) \in Seq(Messages) /\ Len(Tail(inbox)) = Len(inbox) - 1
           /\ Head(inbox) = inbox[1] /\ Len(inbox) \in Nat /\ Len(inbox) >= 1
           /\ \A i \in 1..Len(Tail(inbox)) : Tail(inbox)[i] = inbox[i + 1]
<1>1. inbox \in Seq(Messages)
  BY DEF TypeOK, Messages
<1>2. /\ Head(inbox) \in Messages /\ Tail(inbox) \in Seq(Messages)
      /\ Len(Tail(inbox)) = Len(inbox) - 1 /\ Head(inbox) = inbox[1]
      /\ Len(inbox) \in Nat /\ Len(inbox) >= 1
      /\ \A i \in 1..Len(Tail(inbox)) : Tail(inbox)[i] = inbox[i + 1]
  BY <1>1
<1> QED
  BY <1>2 DEF Messages

LEMMA GtGoType ==
    ASSUME TypeOK, NEW label \in GtLabels, GtGo(label)
    PROVE  gt' \in [at : GtLabels, id : Ids] /\ gt'.at = label /\ gt'.id = gt.id
  BY DEF TypeOK, GtGo

\* Every step keeps the types.
LEMMA TypesKept ==
    ASSUME TypeOK, [Next]_vars
    PROVE  TypeOK'
<1> USE DEF Frames, PostedResults, Messages
<1>1. ASSUME CommandOpen PROVE TypeOK'
  <2>1. stack' \in Seq(Frames)
    BY <1>1, NextMedium, PushStack DEF CommandOpen
  <2>2. opens' \in 0..MaxOpens /\ sent' \in 0..MaxSent
    BY <1>1, NextMedium, NextSent DEF CommandOpen, TypeOK
  <2> QED
    BY <1>1, <2>1, <2>2 DEF CommandOpen, TypeOK, window, events, thread, calls, history
<1>2. ASSUME CommandClose PROVE TypeOK'
  <2>1. stack' \in Seq(Frames)
    BY <1>2, CloseType, PushStack DEF CommandClose
  <2>2. sent' \in 0..MaxSent
    BY <1>2, NextSent DEF CommandClose, TypeOK
  <2> QED
    BY <1>2, <2>1, <2>2 DEF CommandClose, TypeOK, window, events, thread, calls, history
<1>3. ASSUME SentCall PROVE TypeOK'
  <2>1. stack' \in Seq(Frames)
    BY <1>3, NextMedium, CloseType, PushStack DEF SentCall
  <2>2. opens' \in 0..MaxOpens /\ sent' \in 0..MaxSent
    BY <1>3, NextMedium, NextSent DEF SentCall, TypeOK
  <2> QED
    BY <1>3, <2>1, <2>2 DEF SentCall, TypeOK, window, events, thread, calls, history
<1>4. ASSUME CommandExit PROVE TypeOK'
  <2>1. stack' \in Seq(Frames)
    BY <1>4, NewExit DEF CommandExit
  <2> QED
    BY <1>4, <2>1 DEF CommandExit, TypeOK, window, events, thread, calls, history
<1>5. ASSUME Exit PROVE TypeOK'
  <2>1. stack' \in Seq(Frames)
    BY <1>5, AtFacts, GoStack DEF Exit, Labels
  <2>2. inbox' \in Seq(Messages)
    BY <1>5, NoMediumId, InboxType DEF Exit
  <2> QED
    BY <1>5, <2>1, <2>2 DEF Exit, TypeOK, window, events, thread, calls, history
<1>6. ASSUME Exited PROVE TypeOK'
  <2>1. stack' \in Seq(Frames)
    BY <1>6, AtFacts, GoStack DEF Exited, Labels
  <2>2. inbox' \in Seq(Messages)
    BY <1>6, EmptySequences DEF Exited
  <2>3. gt' \in [at : GtLabels, id : Ids]
    BY <1>6, NoMediumId DEF Exited, GtLabels
  <2> QED
    BY <1>6, <2>1, <2>2, <2>3 DEF Exited, TypeOK, window, events, thread, calls, history
<1>7. ASSUME OpenMedia PROVE TypeOK'
  <2>1. stack' \in Seq(Frames)
    BY <1>7, AtFacts, GoStack, ReturnStack, CallStack, CloseType DEF OpenMedia, Labels
  <2> QED
    BY <1>7, <2>1 DEF OpenMedia, TypeOK, window, events, thread, calls, history
<1>8. ASSUME AskDrive PROVE TypeOK'
  <2>1. stack' \in Seq(Frames)
    BY <1>8, AtFacts, GoStack DEF AskDrive, Labels
  <2> QED
    BY <1>8, <2>1 DEF AskDrive, TypeOK, window, events, thread, calls, history
<1>9. ASSUME DriveRefused PROVE TypeOK'
  <2>1. stack' \in Seq(Frames)
    BY <1>9, AtFacts, ReturnStack DEF DriveRefused
  <2> QED
    BY <1>9, <2>1 DEF DriveRefused, TypeOK, window, events, thread, calls, history
<1>10. ASSUME NEW useThread \in BOOLEAN, SetLoading(useThread) PROVE TypeOK'
  <2>1. stack' \in Seq(Frames)
    BY <1>10, AtFacts, GoStack DEF SetLoading, Labels
  <2>2. current' \in Ids
    BY <1>10, AtFacts, TopFacts DEF SetLoading
  <2>3. load' \in LoadStates /\ faults' \subseteq Faults
    BY <1>10 DEF SetLoading, LoadStates, Faults, TypeOK
  <2> QED
    BY <1>10, <2>1, <2>2, <2>3 DEF SetLoading, TypeOK, window, events, thread, calls, history
<1>11. ASSUME PostOpen PROVE TypeOK'
  <2>1. stack' \in Seq(Frames)
    BY <1>11, AtFacts, GoStack DEF PostOpen, Labels
  <2>2. Top.id \in Ids
    BY <1>11, AtFacts, TopFacts DEF PostOpen
  <2>3. inbox' \in Seq(Messages)
    BY <1>11, <2>2, InboxType DEF PostOpen
  <2> QED
    BY <1>11, <2>1, <2>2, <2>3 DEF PostOpen, TypeOK, window, events, thread, calls, history
<1>12. ASSUME NEW value \in BOOLEAN, SetThroughThread(value) PROVE TypeOK'
  <2>1. stack' \in Seq(Frames)
    BY <1>12, AtFacts, ReturnStack DEF SetThroughThread
  <2>2. faults' \subseteq Faults
    BY <1>12 DEF SetThroughThread, Faults, TypeOK
  <2> QED
    BY <1>12, <2>1, <2>2 DEF SetThroughThread, TypeOK, window, events, thread, calls, history
<1>13. ASSUME NEW ok \in BOOLEAN, OpenPrivate(ok) PROVE TypeOK'
  <2>1. stack' \in Seq(Frames)
    BY <1>13, AtFacts, TopFacts, GoStack, CallStack, FrameType DEF OpenPrivate, Labels
  <2>2. Top.id \in Ids
    BY <1>13, AtFacts, TopFacts DEF OpenPrivate
  <2>3. posted' \in Seq(PostedResults)
    BY <1>13, <2>2, PostedType DEF OpenPrivate, TypeOK
  <2>4. graph' \in Ids
    BY <1>13, <2>2 DEF OpenPrivate, TypeOK
  <2> QED
    BY <1>13, <2>1, <2>2, <2>3, <2>4
       DEF OpenPrivate, TypeOK, window, events, thread, calls, history
<1>14. ASSUME OnFilePostOpenmedia PROVE TypeOK'
  <2>1. stack' \in Seq(Frames)
    BY <1>14, AtFacts, ReturnStack DEF OnFilePostOpenmedia
  <2>2. lastOMD' \in Ids /\ load' \in LoadStates
    BY <1>14, AtFacts, TopFacts DEF OnFilePostOpenmedia, LoadStates
  <2> QED
    BY <1>14, <2>1, <2>2 DEF OnFilePostOpenmedia, TypeOK, window, events, thread, calls, history
<1>15. ASSUME NEW next \in BOOLEAN, OnOpenMediaFailed(next) PROVE TypeOK'
  <2>1. stack' \in Seq(Frames)
    BY <1>15, AtFacts, CallStack, CloseType DEF OnOpenMediaFailed, Labels
  <2>2. lastOMD' \in Ids /\ load' \in LoadStates
    BY <1>15, AtFacts, TopFacts DEF OnOpenMediaFailed, LoadStates
  <2> QED
    BY <1>15, <2>1, <2>2 DEF OnOpenMediaFailed, TypeOK, window, events, thread, calls, history
<1>16. ASSUME OpenNext PROVE TypeOK'
  <2>1. stack' \in Seq(Frames)
    BY <1>16, AtFacts, NextMedium, ReplaceStack, ReturnStack DEF OpenNext
  <2>2. opens' \in 0..MaxOpens
    BY <1>16, NextMedium DEF OpenNext, TypeOK
  <2> QED
    BY <1>16, <2>1, <2>2 DEF OpenNext, TypeOK, window, events, thread, calls, history
<1>17. ASSUME TakeResult PROVE TypeOK'
  <2>1. stack' \in Seq(Frames)
    BY <1>17, HeadPosted, FrameType, PushStack DEF TakeResult, Labels
  <2>2. posted' \in Seq(PostedResults)
    BY <1>17, HeadPosted DEF TakeResult
  <2> QED
    BY <1>17, <2>1, <2>2 DEF TakeResult, TypeOK, window, events, thread, calls, history
<1>18. ASSUME CloseMedia PROVE TypeOK'
  <2>1. stack' \in Seq(Frames)
    BY <1>18, AtFacts, GoStack, ReturnStack DEF CloseMedia, Labels
  <2>2. faults' \subseteq Faults
    BY <1>18 DEF CloseMedia, Faults, TypeOK
  <2> QED
    BY <1>18, <2>1, <2>2 DEF CloseMedia, TypeOK, window, events, thread, calls, history
<1>19. ASSUME OpenFinished PROVE TypeOK'
  <2>1. stack' \in Seq(Frames)
    BY <1>19, AtFacts, GoStack DEF OpenFinished, Labels
  <2> QED
    BY <1>19, <2>1 DEF OpenFinished, TypeOK, window, events, thread, calls, history
<1>20. ASSUME OpenTimedOut PROVE TypeOK'
  <2>1. stack' \in Seq(Frames)
    BY <1>20, AtFacts, GoStack DEF OpenTimedOut, Labels
  <2>2. inbox' \in Seq(Messages)
    BY <1>20, EmptySequences DEF OpenTimedOut
  <2>3. gt' \in [at : GtLabels, id : Ids]
    BY <1>20, NoMediumId DEF OpenTimedOut, GtLabels
  <2> QED
    BY <1>20, <2>1, <2>2, <2>3 DEF OpenTimedOut, TypeOK, window, events, thread, calls, history
<1>21. ASSUME PurgeResults PROVE TypeOK'
  <2>1. stack' \in Seq(Frames)
    BY <1>21, AtFacts, GoStack DEF PurgeResults, Labels
  <2>2. posted \in Seq(PostedResults)
    BY <1>21 DEF TypeOK
  <2>3. posted' \in Seq(PostedResults)
    BY <1>21, <2>2, PurgedType DEF PurgeResults
  <2> QED
    BY <1>21, <2>1, <2>2, <2>3 DEF PurgeResults, TypeOK, window, events, thread, calls, history
<1>22. ASSUME StopGraph PROVE TypeOK'
  <2>1. stack' \in Seq(Frames)
    BY <1>22, AtFacts, GoStack DEF StopGraph, Labels
  <2>2. load' \in LoadStates
    BY <1>22 DEF StopGraph, LoadStates
  <2> QED
    BY <1>22, <2>1, <2>2 DEF StopGraph, TypeOK, window, events, thread, calls, history
<1>23. ASSUME PostClose PROVE TypeOK'
  <2>1. stack' \in Seq(Frames)
    BY <1>23, AtFacts, GoStack DEF PostClose, Labels
  <2>2. inbox' \in Seq(Messages)
    BY <1>23, NoMediumId, InboxType DEF PostClose
  <2> QED
    BY <1>23, <2>1, <2>2 DEF PostClose, TypeOK, window, events, thread, calls, history
<1>24. ASSUME ClosePrivate PROVE TypeOK'
  <2>1. stack' \in Seq(Frames)
    BY <1>24, AtFacts, GoStack DEF ClosePrivate, Labels
  <2>2. graph' \in Ids
    BY <1>24, NoMediumId DEF ClosePrivate
  <2> QED
    BY <1>24, <2>1, <2>2 DEF ClosePrivate, TypeOK, window, events, thread, calls, history
<1>25. ASSUME CloseFinished PROVE TypeOK'
  <2>1. stack' \in Seq(Frames)
    BY <1>25, AtFacts, GoStack DEF CloseFinished, Labels
  <2> QED
    BY <1>25, <2>1 DEF CloseFinished, TypeOK, window, events, thread, calls, history
<1>26. ASSUME OnFilePostClosemedia PROVE TypeOK'
  <2>1. stack' \in Seq(Frames)
    BY <1>26, AtFacts, ReturnStack DEF OnFilePostClosemedia
  <2>2. load' \in LoadStates
    BY <1>26 DEF OnFilePostClosemedia, LoadStates
  <2> QED
    BY <1>26, <2>1, <2>2
       DEF OnFilePostClosemedia, TypeOK, window, events, thread, calls, history
<1>27. ASSUME GtTake PROVE TypeOK'
  <2>1. gt' \in [at : GtLabels, id : Ids] /\ inbox' \in Seq(Messages)
    BY <1>27, HeadInbox DEF GtTake, GtLabels
  <2> QED
    BY <1>27, <2>1 DEF GtTake, TypeOK, window, events, thread, calls, history
<1>28. ASSUME GtCreate PROVE TypeOK'
  <2>1. gt' \in [at : GtLabels, id : Ids]
    BY <1>28, GtGoType DEF GtCreate, GtLabels, TypeOK
  <2>2. graph' \in Ids
    BY <1>28 DEF GtCreate, TypeOK
  <2> QED
    BY <1>28, <2>1, <2>2 DEF GtCreate, TypeOK, window, events, thread, calls, history
<1>29. ASSUME GtTitle PROVE TypeOK'
  <2>1. gt' \in [at : GtLabels, id : Ids]
    BY <1>29, GtGoType DEF GtTitle, GtLabels
  <2> QED
    BY <1>29, <2>1 DEF GtTitle, TypeOK, window, events, thread, calls, history
<1>30. ASSUME GtFinish PROVE TypeOK'
  <2>1. gt' \in [at : GtLabels, id : Ids]
    BY <1>30, GtGoType DEF GtFinish, GtLabels
  <2> QED
    BY <1>30, <2>1 DEF GtFinish, TypeOK, window, events, thread, calls, history
<1>31. ASSUME GtResult PROVE TypeOK'
  <2>1. gt' \in [at : GtLabels, id : Ids]
    BY <1>31, GtGoType DEF GtResult, GtLabels, TypeOK
  <2>2. gt.id \in Ids
    BY <1>31 DEF TypeOK
  <2>3. posted' \in Seq(PostedResults)
    BY <1>31, <2>2, PostedType DEF GtResult, TypeOK
  <2>4. faults' \subseteq Faults
    BY <1>31 DEF GtResult, Faults, TypeOK
  <2> QED
    BY <1>31, <2>1, <2>2, <2>3, <2>4
       DEF GtResult, TypeOK, window, events, thread, calls, history
<1>32. ASSUME GtClose PROVE TypeOK'
  <2>1. gt' \in [at : GtLabels, id : Ids]
    BY <1>32, GtGoType DEF GtClose, GtLabels
  <2>2. graph' \in Ids
    BY <1>32, NoMediumId DEF GtClose
  <2> QED
    BY <1>32, <2>1, <2>2 DEF GtClose, TypeOK, window, events, thread, calls, history
<1>33. ASSUME GtSignal PROVE TypeOK'
  <2>1. gt' \in [at : GtLabels, id : Ids]
    BY <1>33, NoMediumId DEF GtSignal, GtLabels
  <2> QED
    BY <1>33, <2>1 DEF GtSignal, TypeOK, window, events, thread, calls, history
<1>34. CASE UNCHANGED vars
  BY <1>34 DEF vars, TypeOK, window, events, thread, calls, history
<1> QED
  BY <1>1, <1>2, <1>3, <1>4, <1>5, <1>6, <1>7, <1>8, <1>9, <1>10, <1>11, <1>12, <1>13, <1>14,
     <1>15, <1>16, <1>17, <1>18, <1>19, <1>20, <1>21, <1>22, <1>23, <1>24, <1>25, <1>26,
     <1>27, <1>28, <1>29, <1>30, <1>31, <1>32, <1>33, <1>34
     DEF Next, Outside, OpenStep, CloseStep, GtBuild, GtServe

-----------------------------------------------------------------------------
(* What a step of the stack does to its shape and to the media in it. *)

AboveClose == {"open", "load", "askDrive", "close"}

LEMMA GoShape ==
    ASSUME TypeOK, stack # <<>>, Shape, NEW label \in Labels, Go(label),
           "waitClose" \in LowJobs => label \in AboveClose,
           "purge" \in LowJobs => label \in {"open", "close"}
    PROVE  Shape' /\ LowJobs \subseteq Waiting
<1> DEFINE f == [Top EXCEPT !.at = label]
<1>1. f \in Frames /\ f.at = label /\ Below \in Seq(Frames) /\ stack' = Append(Below, f)
  BY GoType, TopFacts DEF Go
<1> HIDE DEF f
<1>2. /\ ShapeOf(Below) /\ LowJobs \subseteq Waiting
      /\ Below # <<>> => Below[Len(Below)].at \in Waiting
  BY ShapeBelow DEF Shape
<1>3. ShapeOf(Append(Below, f))
  BY <1>1, <1>2, ShapeAppend DEF AboveClose, LowJobs
<1>4. Top'.at = label /\ Jobs' = LowJobs \cup {label}
  BY GoStack
<1> QED
  BY <1>1, <1>2, <1>3, <1>4 DEF Shape

LEMMA ReplaceShape ==
    ASSUME TypeOK, stack # <<>>, Shape, NEW f \in Frames, stack' = Append(Below, f),
           "waitClose" \in LowJobs => f.at \in AboveClose,
           "purge" \in LowJobs => f.at \in {"open", "close"}
    PROVE  Shape' /\ LowJobs \subseteq Waiting
<1>1. /\ ShapeOf(Below) /\ LowJobs \subseteq Waiting /\ Below \in Seq(Frames)
      /\ Below # <<>> => Below[Len(Below)].at \in Waiting
  BY ShapeBelow, TopFacts DEF Shape
<1>2. ShapeOf(Append(Below, f))
  BY <1>1, ShapeAppend DEF AboveClose, LowJobs
<1>3. Top'.at = f.at /\ Jobs' = LowJobs \cup {f.at}
  BY ReplaceStack
<1> QED
  BY <1>1, <1>2, <1>3 DEF Shape

LEMMA ReturnShape ==
    ASSUME TypeOK, stack # <<>>, Shape, Return, "purge" \notin LowJobs
    PROVE  /\ Shape' /\ LowJobs \subseteq Waiting /\ Jobs' = LowJobs
           /\ stack' = <<>> => LowJobs = {}
           /\ stack' # <<>> => Top'.at \in LowJobs
<1>1. ShapeOf(Below) /\ LowJobs \subseteq Waiting /\ Below \in Seq(Frames)
  BY ShapeBelow, TopFacts DEF Shape
<1>2. stack' = Below /\ Jobs' = LowJobs
  BY ReturnStack DEF Return
<1>3. Below # <<>> => Below[Len(Below)].at \in JobsOf(Below)
  BY <1>1 DEF JobsOf
<1>4. Below = <<>> => JobsOf(Below) = {}
  BY DEF JobsOf
<1> QED
  BY <1>1, <1>2, <1>3, <1>4 DEF Shape, Top, LowJobs

LEMMA CallShape ==
    ASSUME TypeOK, stack # <<>>, Shape, NEW label \in Labels, NEW f \in Frames, Call(label, f),
           label \in Waiting \ {"waitClose", "purge"},
           "waitClose" \in LowJobs => label \in AboveClose /\ f.at \in AboveClose,
           "purge" \in LowJobs => label \in {"open", "load", "close"} /\ f.at \in {"open", "close"}
    PROVE  Shape' /\ LowJobs \subseteq Waiting
<1> DEFINE g == [Top EXCEPT !.at = label]
           s == Append(Below, g)
<1>1. /\ g \in Frames /\ g.at = label /\ Below \in Seq(Frames)
      /\ stack' = Append(s, f)
  BY GoType, TopFacts DEF Call
<1>2. /\ ShapeOf(Below) /\ LowJobs \subseteq Waiting
      /\ Below # <<>> => Below[Len(Below)].at \in Waiting
  BY ShapeBelow DEF Shape
<1> HIDE DEF g
<1>3. s \in Seq(Frames) /\ JobsOf(s) = LowJobs \cup {label} /\ s # <<>> /\ s[Len(s)] = g
  BY <1>1, JobsAppend DEF LowJobs
<1>4. ShapeOf(s)
  BY <1>1, <1>2, ShapeAppend DEF AboveClose, LowJobs
<1> HIDE DEF s
<1>5. ShapeOf(Append(s, f))
  BY <1>1, <1>3, <1>4, ShapeAppend DEF AboveClose
<1>6. Top'.at = f.at /\ Jobs' = LowJobs \cup {label, f.at}
  BY CallStack
<1> QED
  BY <1>1, <1>2, <1>5, <1>6 DEF Shape

LEMMA PushShape ==
    ASSUME TypeOK, Shape, NEW f \in Frames, stack' = Append(stack, f),
           stack # <<>> => Top.at \in Waiting,
           "waitClose" \in Jobs => f.at \in AboveClose,
           "purge" \in Jobs => f.at \in {"open", "close"}
    PROVE  Shape'
<1>1. stack \in Seq(Frames)
  BY DEF TypeOK, Frames
<1>2. ShapeOf(Append(stack, f))
  BY <1>1, ShapeAppend DEF AboveClose, Jobs, Shape, Top
<1>3. Top'.at = f.at /\ Jobs' = Jobs \cup {f.at}
  BY PushStack
<1> QED
  BY <1>2, <1>3 DEF Shape, Waiting

LEMMA NumbersMove ==
    ASSUME NEW s \in Seq(Frames), NEW c \in Int, NEW d \in Int, NEW n \in Int, NEW m \in Int,
           NumbersOf(s, c, n), n <= m,
           \A i \in 1..Len(s) : s[i].at \in Asking => s[i].id # d,
           d # c => \A i \in 1..Len(s) : s[i].at \notin Chosen
    PROVE  NumbersOf(s, d, m)
<1>1. 1..n \subseteq 1..m
  OBVIOUS
<1> QED
  BY <1>1 DEF NumbersOf

LEMMA Counters ==
    ASSUME TypeOK
    PROVE  /\ current \in Int /\ opens \in Int /\ stack \in Seq(Frames)
           /\ stack # <<>> => Top.id \in Int
<1>1. \A m \in Ids : m \in Int
  BY DEF Ids, Media, NoMedium
<1>2. stack # <<>> => Top.id \in Ids
  BY TopFacts DEF Frames
<1> QED
  BY <1>1, <1>2 DEF TypeOK, Frames

LEMMA GoNumbers ==
    ASSUME TypeOK, stack # <<>>, Numbers, NEW label \in Labels, Go(label),
           UNCHANGED <<current, opens>>,
           label \in Asking => Top.at \in Asking,
           label \in Chosen => Top.id = current
    PROVE  Numbers'
<1> DEFINE f == [Top EXCEPT !.at = label]
<1>1. /\ f \in Frames /\ f.at = label /\ f.id = Top.id
      /\ Below \in Seq(Frames) /\ stack' = Append(Below, f)
  BY GoType, TopFacts DEF Go
<1> HIDE DEF f
<1>2. NumbersOf(Append(Below, f), current, opens)
  BY <1>1, NumbersBelow, NumbersAppend, Counters DEF Numbers
<1> QED
  BY <1>1, <1>2 DEF Numbers

LEMMA ReturnNumbers ==
    ASSUME TypeOK, stack # <<>>, Numbers, Return, UNCHANGED <<current, opens>>
    PROVE  Numbers'
  BY NumbersBelow DEF Numbers, Return

LEMMA CallNumbers ==
    ASSUME TypeOK, stack # <<>>, Numbers, NEW label \in Labels, NEW f \in Frames, Call(label, f),
           UNCHANGED <<current, opens>>,
           label \in Asking => Top.at \in Asking,
           label \notin Chosen, f.at \notin Asking,
           f.at \in Chosen => f.id = current
    PROVE  Numbers'
<1> DEFINE g == [Top EXCEPT !.at = label]
           s == Append(Below, g)
<1>1. /\ g \in Frames /\ g.at = label /\ g.id = Top.id
      /\ Below \in Seq(Frames) /\ stack' = Append(s, f)
  BY GoType, TopFacts DEF Call
<1> HIDE DEF g
<1>2. NumbersOf(s, current, opens) /\ s \in Seq(Frames)
  BY <1>1, NumbersBelow, NumbersAppend, Counters DEF Numbers
<1> HIDE DEF s
<1>3. NumbersOf(Append(s, f), current, opens)
  BY <1>2, NumbersAppend, Counters
<1> QED
  BY <1>1, <1>3 DEF Numbers

LEMMA PushNumbers ==
    ASSUME TypeOK, Numbers, NEW f \in Frames, stack' = Append(stack, f),
           UNCHANGED <<current, opens>>,
           f.at \notin Asking, f.at \in Chosen => f.id = current
    PROVE  Numbers'
<1>1. NumbersOf(Append(stack, f), current, opens)
  BY NumbersAppend, Counters DEF Numbers
<1> QED
  BY <1>1 DEF Numbers

\* A call to open a medium gets the next number.
LEMMA OpenNumbers ==
    ASSUME TypeOK, Numbers, NEW s \in Seq(Frames), NumbersOf(s, current, opens),
           opens < MaxOpens, opens' = opens + 1, current' = current,
           stack' = Append(s, OpenFrame(opens + 1))
    PROVE  Numbers'
<1> DEFINE f == OpenFrame(opens + 1)
<1>1. f \in Frames /\ f.at = "open" /\ f.id = opens + 1
  BY NextMedium
<1>2. current \in Int /\ opens \in Nat /\ current <= opens
  BY Counters DEF Numbers, TypeOK
<1>3. \A i \in 1..Len(s) : s[i].at \in Asking => s[i].id \in 1..opens /\ s[i].id # current
  BY DEF NumbersOf
<1> HIDE DEF f
<1> DEFINE n == opens + 1
<1>4. NumbersOf(s, current, opens + 1)
  <2>1. n \in Int /\ opens \in Int /\ opens <= n
    BY <1>2
  <2> HIDE DEF n
  <2>2. NumbersOf(s, current, n)
    BY <1>2, <1>3, <2>1, NumbersMove
  <2> QED
    BY <2>2 DEF n
<1>5. /\ f.id \in 1..(opens + 1) /\ f.id # current /\ f.at \notin Chosen
      /\ \A i \in 1..Len(s) : s[i].at \in Asking => s[i].id # f.id
  BY <1>1, <1>2, <1>3 DEF Chosen
<1>6. NumbersOf(Append(s, f), current, opens + 1)
  BY <1>1, <1>2, <1>4, <1>5, NumbersAppend
<1> QED
  BY <1>2, <1>6 DEF Numbers, f

\* The running call opens the medium it was made for.
LEMMA LoadNumbers ==
    ASSUME TypeOK, stack # <<>>, Shape, Numbers, NEW label \in Chosen, Go(label),
           Top.at \in Asking, current' = Top.id, opens' = opens
    PROVE  Numbers'
<1> DEFINE f == [Top EXCEPT !.at = label]
<1>1. label \in Labels /\ label \notin Asking
  BY DEF Chosen, Labels, Asking
<1>2. /\ f \in Frames /\ f.at = label /\ f.id = Top.id
      /\ Below \in Seq(Frames) /\ stack' = Append(Below, f)
  BY <1>1, GoType, TopFacts DEF Go
<1> HIDE DEF f
<1>3. current \in Int /\ opens \in Int /\ Top.id \in 1..opens /\ Top.id \in Int
  BY Counters, NumbersBelow DEF Numbers
<1>4. /\ \A i \in 1..Len(Below) : Below[i].at \in Asking => Below[i].id # Top.id
      /\ \A i \in 1..Len(Below) : Below[i].at \notin Chosen
  BY NumbersBelow, ShapeBelow DEF Numbers, Shape, Waiting, Chosen
<1>5. NumbersOf(Below, Top.id, opens)
  BY <1>2, <1>3, <1>4, NumbersBelow, NumbersMove DEF Numbers
<1>6. NumbersOf(Append(Below, f), Top.id, opens)
  BY <1>1, <1>2, <1>3, <1>5, NumbersAppend
<1> QED
  BY <1>2, <1>3, <1>6 DEF Numbers

-----------------------------------------------------------------------------
(* The steps, as long as nothing goes wrong. *)

Inv == Shape /\ Numbers /\ State

LEMMA Running ==
    ASSUME TypeOK, Shape, stack # <<>>
    PROVE  /\ Jobs = LowJobs \cup {Top.at} /\ LowJobs \subseteq Waiting
           /\ "waitClose" \in LowJobs => Top.at \in AboveClose
           /\ "purge" \in LowJobs => Top.at \in {"open", "close"}
           /\ Top.at \in Labels
<1>1. "purge" \in LowJobs => "purge" \in Jobs
  BY TopFacts
<1> QED
  BY <1>1, TopFacts, ShapeBelow DEF Shape, AboveClose, Frames

LEMMA Idle ==
    ASSUME stack = <<>>
    PROVE  Jobs = {}
  BY DEF Jobs, JobsOf

LEMMA SuspendedJobs == \A label : Suspended(label) <=> label \in Jobs
  BY DEF Suspended, Jobs, JobsOf

\* Every message in the inbox would be that of the end of the program.
LEMMA InboxAlone ==
    ASSUME TypeOK, Clean, Leaving, stack # <<>>, Top.at \notin {"waitExit", "exited"},
           NEW r, inbox' = Append(inbox, r)
    PROVE  Len(inbox') = 1 /\ inbox'[1] = r /\ gt.at # "gone" /\ inbox = <<>>
<1>1. inbox \in Seq(Messages)
  BY DEF TypeOK, Messages
<1>2. \A i \in 1..Len(inbox) : FALSE
  BY DEF Clean, Leaving
<1>3. inbox = <<>>
  BY <1>1, <1>2
<1>4. gt.at # "gone"
  BY DEF Leaving
<1> QED
  BY <1>3, <1>4

LEMMA PurgedAll ==
    ASSUME TypeOK, Results, PurgeResults
    PROVE  posted' = <<>>
<1>1. posted \in Seq(PostedResults)
  BY DEF TypeOK, PostedResults
<1>2. Len(posted) <= 1 /\ (posted # <<>> => posted[1].msg \in {"POSTOPEN", "OPENFAILED"})
  <2>1. CASE posted = <<>>
    BY <2>1
  <2>2. CASE posted # <<>>
    <3>1. Len(posted) = 1
      BY <2>2 DEF Results
    <3>2. posted[1] \in PostedResults
      BY <1>1, <3>1
    <3>3. posted[1].msg \in {"POSTOPEN", "OPENFAILED"}
      BY <3>2 DEF PostedResults
    <3> QED
      BY <3>1, <3>3
  <2> QED
    BY <2>1, <2>2
<1> DEFINE p == Purged("POSTOPEN", posted)
<1>3. p \in Seq(PostedResults) /\ p = IF posted # <<>> /\ posted[1].msg = "POSTOPEN" THEN <<>> ELSE posted
  BY <1>1, <1>2, PurgedType
<1>4. posted' = Purged("OPENFAILED", p)
  BY DEF PurgeResults
<1> HIDE DEF p
<1>5. Len(p) <= 1
  BY <1>2, <1>3
<1>6. Purged("OPENFAILED", p) = IF p # <<>> /\ p[1].msg = "OPENFAILED" THEN <<>> ELSE p
  BY <1>3, <1>5, PurgedType
<1> QED
  BY <1>2, <1>3, <1>4, <1>6

LEMMA AskDriveKept ==
    ASSUME TypeOK, Inv, Sound', Sound, AskDrive
    PROVE  Inv'
<1> USE DEF Inv, Labels, Waiting, AboveClose, Asking, Chosen, window, events, thread, calls, history
<1>1. stack # <<>> /\ Top.at = "load" /\ Go("askDrive")
  BY AtFacts DEF AskDrive
<1>2. /\ Jobs = LowJobs \cup {"load"} /\ LowJobs \subseteq Waiting
      /\ "waitClose" \in LowJobs => "load" \in AboveClose
      /\ "purge" \in LowJobs => "load" \in {"open", "close"}
  BY <1>1, Running
<1>3. stack' # <<>> /\ Top'.at = "askDrive" /\ Jobs' = LowJobs \cup {"askDrive"}
  BY <1>1, GoStack
<1>4. Shape'
  BY <1>1, <1>2, GoShape
<1>5. Numbers'
  BY <1>1, GoNumbers DEF AskDrive
<1>6. State'
  BY <1>1, <1>2, <1>3
     DEF AskDrive, State, Stages, Leaving, Results, Orders, Serving, Settled, Flags,
         Clean, Quiet, Rest, None, Begun, Building
<1> QED
  BY <1>4, <1>5, <1>6

LEMMA StopGraphKept ==
    ASSUME TypeOK, Inv, Sound', Sound, StopGraph
    PROVE  Inv'
<1> USE DEF Inv, Labels, Waiting, AboveClose, Asking, Chosen, window, events, thread, calls, history
<1>1. stack # <<>> /\ Top.at = "stop" /\ Go("destroy")
  BY AtFacts DEF StopGraph
<1>2. /\ Jobs = LowJobs \cup {"stop"} /\ LowJobs \subseteq Waiting
      /\ "waitClose" \in LowJobs => "stop" \in AboveClose
      /\ "purge" \in LowJobs => "stop" \in {"open", "close"}
  BY <1>1, Running
<1>3. stack' # <<>> /\ Top'.at = "destroy" /\ Jobs' = LowJobs \cup {"destroy"}
  BY <1>1, GoStack
<1>4. Shape'
  BY <1>1, <1>2, GoShape
<1>5. Numbers'
  BY <1>1, GoNumbers DEF StopGraph
<1>6. State'
  BY <1>1, <1>2, <1>3
     DEF StopGraph, State, Stages, Leaving, Results, Orders, Serving, Settled, Flags,
         Clean, Quiet, Rest, None, Begun, Building
<1> QED
  BY <1>4, <1>5, <1>6

LEMMA OpenFinishedKept ==
    ASSUME TypeOK, Inv, Sound', Sound, OpenFinished
    PROVE  Inv'
<1> USE DEF Inv, Labels, Waiting, AboveClose, Asking, Chosen, window, events, thread, calls, history
<1>1. stack # <<>> /\ Top.at = "waitOpen" /\ Go("purge")
  BY AtFacts DEF OpenFinished
<1>2. /\ Jobs = LowJobs \cup {"waitOpen"} /\ LowJobs \subseteq Waiting
      /\ "waitClose" \in LowJobs => "waitOpen" \in AboveClose
      /\ "purge" \in LowJobs => "waitOpen" \in {"open", "close"}
  BY <1>1, Running
<1>3. stack' # <<>> /\ Top'.at = "purge" /\ Jobs' = LowJobs \cup {"purge"}
  BY <1>1, GoStack
<1>4. Shape'
  BY <1>1, <1>2, GoShape
<1>5. Numbers'
  BY <1>1, GoNumbers DEF OpenFinished
<1>6. State'
  BY <1>1, <1>2, <1>3
     DEF OpenFinished, State, Stages, Leaving, Results, Orders, Serving, Settled, Flags,
         Clean, Quiet, Rest, None, Begun, Building
<1> QED
  BY <1>4, <1>5, <1>6

LEMMA ClosePrivateKept ==
    ASSUME TypeOK, Inv, Sound', Sound, ClosePrivate
    PROVE  Inv'
<1> USE DEF Inv, Labels, Waiting, AboveClose, Asking, Chosen, window, events, thread, calls, history
<1>1. stack # <<>> /\ Top.at = "destroy" /\ Go("closed")
  BY AtFacts DEF ClosePrivate
<1>2. /\ Jobs = LowJobs \cup {"destroy"} /\ LowJobs \subseteq Waiting
      /\ "waitClose" \in LowJobs => "destroy" \in AboveClose
      /\ "purge" \in LowJobs => "destroy" \in {"open", "close"}
  BY <1>1, Running
<1>3. stack' # <<>> /\ Top'.at = "closed" /\ Jobs' = LowJobs \cup {"closed"}
  BY <1>1, GoStack
<1>4. Shape'
  BY <1>1, <1>2, GoShape
<1>5. Numbers'
  BY <1>1, GoNumbers DEF ClosePrivate
<1>6. State'
  BY <1>1, <1>2, <1>3
     DEF ClosePrivate, State, Stages, Leaving, Results, Orders, Serving, Settled, Flags,
         Clean, Quiet, Rest, None, Begun, Building
<1> QED
  BY <1>4, <1>5, <1>6

LEMMA CloseFinishedKept ==
    ASSUME TypeOK, Inv, Sound', Sound, CloseFinished
    PROVE  Inv'
<1> USE DEF Inv, Labels, Waiting, AboveClose, Asking, Chosen, window, events, thread, calls, history
<1>1. stack # <<>> /\ Top.at = "waitClose" /\ Go("closed")
  BY AtFacts DEF CloseFinished
<1>2. /\ Jobs = LowJobs \cup {"waitClose"} /\ LowJobs \subseteq Waiting
      /\ "waitClose" \in LowJobs => "waitClose" \in AboveClose
      /\ "purge" \in LowJobs => "waitClose" \in {"open", "close"}
  BY <1>1, Running
<1>3. stack' # <<>> /\ Top'.at = "closed" /\ Jobs' = LowJobs \cup {"closed"}
  BY <1>1, GoStack
<1>4. Shape'
  BY <1>1, <1>2, GoShape
<1>5. Numbers'
  BY <1>1, GoNumbers DEF CloseFinished
<1>6. State'
  BY <1>1, <1>2, <1>3
     DEF CloseFinished, State, Stages, Leaving, Results, Orders, Serving, Settled, Flags,
         Clean, Quiet, Rest, None, Begun, Building
<1> QED
  BY <1>4, <1>5, <1>6

LEMMA DriveRefusedKept ==
    ASSUME TypeOK, Inv, Sound', Sound, DriveRefused
    PROVE  Inv'
<1> USE DEF Inv, Labels, Waiting, AboveClose, Asking, Chosen, window, events, thread, calls, history
<1>1. stack # <<>> /\ Top.at = "askDrive" /\ Return
  BY AtFacts DEF DriveRefused
<1>2. /\ Jobs = LowJobs \cup {"askDrive"} /\ LowJobs \subseteq Waiting
      /\ "waitClose" \in LowJobs => "askDrive" \in AboveClose
      /\ "purge" \in LowJobs => "askDrive" \in {"open", "close"}
  BY <1>1, Running
<1>3. "purge" \notin LowJobs
  BY <1>1, <1>2
<1>4. /\ Shape' /\ Jobs' = LowJobs
      /\ stack' = <<>> => LowJobs = {}
      /\ stack' # <<>> => Top'.at \in LowJobs
  BY <1>1, <1>3, ReturnShape
<1>5. Numbers'
  BY <1>1, ReturnNumbers DEF DriveRefused
<1>6. State'
  BY <1>1, <1>2, <1>3, <1>4
     DEF DriveRefused, State, Stages, Leaving, Results, Orders, Serving, Settled, Flags,
         Clean, Quiet, Rest, None, Begun, Building
<1> QED
  BY <1>4, <1>5, <1>6

LEMMA OnFilePostOpenmediaKept ==
    ASSUME TypeOK, Inv, Sound', Sound, OnFilePostOpenmedia
    PROVE  Inv'
<1> USE DEF Inv, Labels, Waiting, AboveClose, Asking, Chosen, window, events, thread, calls, history
<1>1. stack # <<>> /\ Top.at = "opened" /\ Return
  BY AtFacts DEF OnFilePostOpenmedia
<1>2. /\ Jobs = LowJobs \cup {"opened"} /\ LowJobs \subseteq Waiting
      /\ "waitClose" \in LowJobs => "opened" \in AboveClose
      /\ "purge" \in LowJobs => "opened" \in {"open", "close"}
  BY <1>1, Running
<1>3. "purge" \notin LowJobs
  BY <1>1, <1>2
<1>4. /\ Shape' /\ Jobs' = LowJobs
      /\ stack' = <<>> => LowJobs = {}
      /\ stack' # <<>> => Top'.at \in LowJobs
  BY <1>1, <1>3, ReturnShape
<1>5. Numbers'
  BY <1>1, ReturnNumbers DEF OnFilePostOpenmedia
<1>7. Top.id = current
  BY <1>1, NumbersBelow DEF Numbers
<1>6. State'
  BY <1>1, <1>2, <1>3, <1>4, <1>7
     DEF OnFilePostOpenmedia, State, Stages, Leaving, Results, Orders, Serving, Settled,
         Flags, Clean, Quiet, Rest, None, Begun, Building
<1> QED
  BY <1>4, <1>5, <1>6

LEMMA OnFilePostClosemediaKept ==
    ASSUME TypeOK, Inv, Sound', Sound, OnFilePostClosemedia
    PROVE  Inv'
<1> USE DEF Inv, Labels, Waiting, AboveClose, Asking, Chosen, window, events, thread, calls, history
<1>1. stack # <<>> /\ Top.at = "closed" /\ Return
  BY AtFacts DEF OnFilePostClosemedia
<1>2. /\ Jobs = LowJobs \cup {"closed"} /\ LowJobs \subseteq Waiting
      /\ "waitClose" \in LowJobs => "closed" \in AboveClose
      /\ "purge" \in LowJobs => "closed" \in {"open", "close"}
  BY <1>1, Running
<1>3. "purge" \notin LowJobs
  BY <1>1, <1>2
<1>4. /\ Shape' /\ Jobs' = LowJobs
      /\ stack' = <<>> => LowJobs = {}
      /\ stack' # <<>> => Top'.at \in LowJobs
  BY <1>1, <1>3, ReturnShape
<1>5. Numbers'
  BY <1>1, ReturnNumbers DEF OnFilePostClosemedia
<1>6. State'
  BY <1>1, <1>2, <1>3, <1>4
     DEF OnFilePostClosemedia, State, Stages, Leaving, Results, Orders, Serving, Settled,
         Flags, Clean, Quiet, Rest, None, Begun, Building
<1> QED
  BY <1>4, <1>5, <1>6

LEMMA CommandCloseKept ==
    ASSUME TypeOK, Inv, Sound', Sound, CommandClose
    PROVE  Inv'
<1> USE DEF Inv, Labels, Waiting, AboveClose, Asking, Chosen, window, events, thread, calls, history
<1>1. stack # <<>> => Top.at = "askDrive"
  BY AtFacts DEF CommandClose, InLoop
<1>2. CloseFrame(FALSE) \in Frames /\ CloseFrame(FALSE).at = "close"
  BY CloseType
<1>3. stack' = Append(stack, CloseFrame(FALSE))
  BY DEF CommandClose
<1>4. stack' # <<>> /\ Top'.at = "close" /\ Jobs' = Jobs \cup {"close"}
  BY <1>2, <1>3, PushStack
<1>5. Shape'
  BY <1>1, <1>2, <1>3, PushShape
<1>6. Numbers'
  BY <1>2, <1>3, PushNumbers DEF CommandClose
<1>7. State'
  BY <1>1, <1>4
     DEF CommandClose, State, Stages, Leaving, Results, Orders, Serving, Settled, Flags,
         Clean, Quiet, Rest, None, Begun, Building
<1> QED
  BY <1>5, <1>6, <1>7

LEMMA CommandOpenKept ==
    ASSUME TypeOK, Inv, Sound', Sound, CommandOpen
    PROVE  Inv'
<1> USE DEF Inv, Labels, Waiting, AboveClose, Asking, Chosen, window, events, thread, calls, history
<1>1. stack # <<>> => Top.at = "askDrive"
  BY AtFacts DEF CommandOpen, InLoop
<1> DEFINE f == OpenFrame(opens + 1)
<1>2. f \in Frames /\ f.at = "open"
  BY NextMedium DEF CommandOpen
<1>3. stack' = Append(stack, f)
  BY DEF CommandOpen
<1>4. Numbers'
  BY Counters, OpenNumbers DEF CommandOpen, Numbers
<1> HIDE DEF f
<1>5. stack' # <<>> /\ Top'.at = "open" /\ Jobs' = Jobs \cup {"open"}
  BY <1>2, <1>3, PushStack
<1>6. Shape'
  BY <1>1, <1>2, <1>3, PushShape
<1>7. State'
  BY <1>1, <1>5
     DEF CommandOpen, State, Stages, Leaving, Results, Orders, Serving, Settled, Flags,
         Clean, Quiet, Rest, None, Begun, Building
<1> QED
  BY <1>4, <1>6, <1>7

LEMMA SentCallKept ==
    ASSUME TypeOK, Inv, Sound', Sound, SentCall
    PROVE  Inv'
<1> USE DEF Inv, Labels, Waiting, AboveClose, Asking, Chosen, window, events, thread, calls, history
<1>1. stack # <<>> /\ Top.at \in {"waitClose", "purge"}
  BY AtFacts DEF SentCall
<1>2. PICK f \in Frames : stack' = Append(stack, f) /\ f.at \in {"open", "close"}
  BY NextMedium, CloseType DEF SentCall
<1>3. Numbers'
  BY Counters, CloseType, OpenNumbers, PushNumbers DEF SentCall, Numbers
<1>4. /\ stack' # <<>> /\ Top'.at \in {"open", "close"}
      /\ Jobs' = Jobs \cup {Top'.at}
  BY <1>2, PushStack
<1>5. Shape'
  BY <1>1, <1>2, PushShape
<1>6. State'
  BY <1>1, <1>4
     DEF SentCall, State, Stages, Leaving, Results, Orders, Serving, Settled, Flags,
         Clean, Quiet, Rest, None, Begun, Building
<1> QED
  BY <1>3, <1>5, <1>6

LEMMA SetLoadingKept ==
    ASSUME TypeOK, Inv, Sound', Sound, NEW useThread \in BOOLEAN, SetLoading(useThread)
    PROVE  Inv'
<1> USE DEF Inv, Labels, Waiting, AboveClose, Asking, Chosen, window, events, thread, calls, history
<1> DEFINE label == IF useThread THEN "postOpen" ELSE "private"
<1>1. /\ stack # <<>> /\ Top.at \in {"load", "askDrive"}
      /\ Go(label) /\ label \in {"postOpen", "private"}
  BY AtFacts DEF SetLoading
<1>2. load = "CLOSED"
  BY DEF SetLoading, Sound
<1>3. /\ Jobs = LowJobs \cup {Top.at} /\ LowJobs \subseteq Waiting
      /\ "waitClose" \notin LowJobs /\ "purge" \notin LowJobs
  BY <1>1, <1>2, Running DEF State, Stages, None
<1>4. (useThread /\ label = "postOpen") \/ (~useThread /\ label = "private")
  <2>1. CASE useThread
    BY <2>1
  <2>2. CASE ~useThread
    BY <2>2
  <2> QED
    BY <2>1, <2>2
<1> HIDE DEF label
<1>5. stack' # <<>> /\ Top'.at = label /\ Jobs' = LowJobs \cup {label}
  BY <1>1, GoStack
<1>6. Shape'
  BY <1>1, <1>3, GoShape
<1>7. Numbers'
  BY <1>1, LoadNumbers DEF SetLoading
<1>8. State'
  BY <1>1, <1>2, <1>3, <1>4, <1>5
     DEF SetLoading, State, Stages, Leaving, Results, Orders, Serving, Settled, Flags,
         Clean, Quiet, Rest, None, Begun, Building
<1> QED
  BY <1>6, <1>7, <1>8

LEMMA CommandExitKept ==
    ASSUME TypeOK, Inv, Sound', Sound, CommandExit
    PROVE  Inv'
<1> USE DEF Inv, Labels, Waiting, AboveClose, Asking, Chosen, window, events, thread, calls, history
<1>1. /\ stack' # <<>> /\ Top'.at \in {"close", "exit"} /\ Jobs' = {"exit", Top'.at}
  BY NewExit
<1>2. stack = <<>> /\ Jobs = {}
  BY Idle DEF CommandExit
<1> DEFINE e == Frame("exit", NoMedium, FALSE)
           c == CloseFrame(FALSE)
<1>3. e \in Frames /\ e.at = "exit" /\ c \in Frames /\ c.at = "close"
  BY FrameType, CloseType, NoMediumId
<1>4. stack' = <<e>> \/ stack' = <<e, c>>
  BY DEF CommandExit
<1> HIDE DEF e, c
<1>5. Len(stack') \in 1..2 /\ \A i \in 1..Len(stack') : stack'[i].at = (IF i = 1 THEN "exit" ELSE "close")
  BY <1>3, <1>4
<1>6. Shape'
  BY <1>1, <1>5 DEF Shape, ShapeOf
<1>7. Numbers'
  BY <1>1, <1>5 DEF CommandExit, Numbers, NumbersOf
<1>8. State'
  BY <1>1, <1>2
     DEF CommandExit, State, Stages, Leaving, Results, Orders, Serving, Settled, Flags,
         Clean, Quiet, Rest, None, Begun, Building
<1> QED
  BY <1>6, <1>7, <1>8

LEMMA ExitKept ==
    ASSUME TypeOK, Inv, Sound', Sound, Exit
    PROVE  Inv'
<1> USE DEF Inv, Labels, Waiting, AboveClose, Asking, Chosen, window, events, thread, calls, history
<1>1. stack # <<>> /\ Top.at = "exit" /\ Go("waitExit")
  BY AtFacts DEF Exit
<1>2. /\ Jobs = LowJobs \cup {"exit"} /\ LowJobs \subseteq Waiting
      /\ "waitClose" \in LowJobs => "exit" \in AboveClose
      /\ "purge" \in LowJobs => "exit" \in {"open", "close"}
  BY <1>1, Running
<1>3. stack' # <<>> /\ Top'.at = "waitExit" /\ Jobs' = LowJobs \cup {"waitExit"}
  BY <1>1, GoStack
<1>4. Shape'
  BY <1>1, <1>2, GoShape
<1>5. Numbers'
  BY <1>1, GoNumbers DEF Exit
<1>6. State'
  BY <1>1, <1>2, <1>3
     DEF Exit, State, Stages, Leaving, Results, Orders, Serving, Settled, Flags, Clean,
         Quiet, Rest, None, Begun, Building
<1> QED
  BY <1>4, <1>5, <1>6

LEMMA ExitedKept ==
    ASSUME TypeOK, Inv, Sound', Sound, Exited
    PROVE  Inv'
<1> USE DEF Inv, Labels, Waiting, AboveClose, Asking, Chosen, window, events, thread, calls, history
<1>1. stack # <<>> /\ Top.at = "waitExit" /\ Go("exited")
  BY AtFacts DEF Exited
<1>2. /\ Jobs = LowJobs \cup {"waitExit"} /\ LowJobs \subseteq Waiting
      /\ "waitClose" \in LowJobs => "waitExit" \in AboveClose
      /\ "purge" \in LowJobs => "waitExit" \in {"open", "close"}
  BY <1>1, Running
<1>3. stack' # <<>> /\ Top'.at = "exited" /\ Jobs' = LowJobs \cup {"exited"}
  BY <1>1, GoStack
<1>4. Shape'
  BY <1>1, <1>2, GoShape
<1>5. Numbers'
  BY <1>1, GoNumbers DEF Exited
<1>6. State'
  BY <1>1, <1>2, <1>3
     DEF Exited, State, Stages, Leaving, Results, Orders, Serving, Settled, Flags, Clean,
         Quiet, Rest, None, Begun, Building
<1> QED
  BY <1>4, <1>5, <1>6

LEMMA OpenTimedOutKept ==
    ASSUME TypeOK, Inv, Sound', Sound, OpenTimedOut
    PROVE  Inv'
<1> USE DEF Inv, Labels, Waiting, AboveClose, Asking, Chosen, window, events, thread, calls, history
<1>1. stack # <<>> /\ Top.at = "waitOpen" /\ Go("purge")
  BY AtFacts DEF OpenTimedOut
<1>2. /\ Jobs = LowJobs \cup {"waitOpen"} /\ LowJobs \subseteq Waiting
      /\ "waitClose" \in LowJobs => "waitOpen" \in AboveClose
      /\ "purge" \in LowJobs => "waitOpen" \in {"open", "close"}
  BY <1>1, Running
<1>3. stack' # <<>> /\ Top'.at = "purge" /\ Jobs' = LowJobs \cup {"purge"}
  BY <1>1, GoStack
<1>4. Shape'
  BY <1>1, <1>2, GoShape
<1>5. Numbers'
  BY <1>1, GoNumbers DEF OpenTimedOut
<1>6. State'
  BY <1>1, <1>2, <1>3
     DEF OpenTimedOut, State, Stages, Leaving, Results, Orders, Serving, Settled, Flags,
         Clean, Quiet, Rest, None, Begun, Building
<1> QED
  BY <1>4, <1>5, <1>6

LEMMA PurgeResultsKept ==
    ASSUME TypeOK, Inv, Sound', Sound, PurgeResults
    PROVE  Inv'
<1> USE DEF Inv, Labels, Waiting, AboveClose, Asking, Chosen, window, events, thread, calls, history
<1>1. stack # <<>> /\ Top.at = "purge" /\ Go("stop")
  BY AtFacts DEF PurgeResults
<1>2. /\ Jobs = LowJobs \cup {"purge"} /\ LowJobs \subseteq Waiting
      /\ "waitClose" \in LowJobs => "purge" \in AboveClose
      /\ "purge" \in LowJobs => "purge" \in {"open", "close"}
  BY <1>1, Running
<1>3. stack' # <<>> /\ Top'.at = "stop" /\ Jobs' = LowJobs \cup {"stop"}
  BY <1>1, GoStack
<1>4. Shape'
  BY <1>1, <1>2, GoShape
<1>5. Numbers'
  BY <1>1, GoNumbers DEF PurgeResults
<1>7. posted' = <<>>
  BY PurgedAll DEF State
<1>6. State'
  BY <1>1, <1>2, <1>3, <1>7
     DEF PurgeResults, State, Stages, Leaving, Results, Orders, Serving, Settled, Flags,
         Clean, Quiet, Rest, None, Begun, Building
<1> QED
  BY <1>4, <1>5, <1>6

LEMMA PostOpenKept ==
    ASSUME TypeOK, Inv, Sound', Sound, PostOpen
    PROVE  Inv'
<1> USE DEF Inv, Labels, Waiting, AboveClose, Asking, Chosen, window, events, thread, calls, history
<1>1. stack # <<>> /\ Top.at = "postOpen" /\ Go("setFlag")
  BY AtFacts DEF PostOpen
<1>2. /\ Jobs = LowJobs \cup {"postOpen"} /\ LowJobs \subseteq Waiting
      /\ "waitClose" \in LowJobs => "postOpen" \in AboveClose
      /\ "purge" \in LowJobs => "postOpen" \in {"open", "close"}
  BY <1>1, Running
<1>3. stack' # <<>> /\ Top'.at = "setFlag" /\ Jobs' = LowJobs \cup {"setFlag"}
  BY <1>1, GoStack
<1>4. Shape'
  BY <1>1, <1>2, GoShape
<1>5. Numbers'
  BY <1>1, GoNumbers DEF PostOpen
<1>7. /\ Len(inbox') = 1 /\ inbox'[1].msg = "OPEN" /\ inbox'[1].id = Top.id
      /\ gt.at # "gone" /\ Top.id = current /\ \A i \in 1..1 : i = 1
  <2>1. Clean
    BY <1>1, <1>2 DEF State, Settled, None, Quiet, Rest
  <2>2. inbox' = Append(inbox, [msg |-> "OPEN", id |-> Top.id])
    BY DEF PostOpen
  <2>3. Len(inbox') = 1 /\ inbox'[1] = [msg |-> "OPEN", id |-> Top.id] /\ gt.at # "gone"
    BY <1>1, <2>1, <2>2, InboxAlone DEF State
  <2> QED
    BY <1>1, <2>3, NumbersBelow DEF Numbers
<1>6. State'
  BY <1>1, <1>2, <1>3, <1>7
     DEF PostOpen, State, Stages, Leaving, Results, Orders, Serving, Settled, Flags,
         Clean, Quiet, Rest, None, Begun, Building
<1> QED
  BY <1>4, <1>5, <1>6

LEMMA PostCloseKept ==
    ASSUME TypeOK, Inv, Sound', Sound, PostClose
    PROVE  Inv'
<1> USE DEF Inv, Labels, Waiting, AboveClose, Asking, Chosen, window, events, thread, calls, history
<1>1. stack # <<>> /\ Top.at = "destroy" /\ Go("waitClose")
  BY AtFacts DEF PostClose
<1>2. /\ Jobs = LowJobs \cup {"destroy"} /\ LowJobs \subseteq Waiting
      /\ "waitClose" \in LowJobs => "destroy" \in AboveClose
      /\ "purge" \in LowJobs => "destroy" \in {"open", "close"}
  BY <1>1, Running
<1>3. stack' # <<>> /\ Top'.at = "waitClose" /\ Jobs' = LowJobs \cup {"waitClose"}
  BY <1>1, GoStack
<1>4. Shape'
  BY <1>1, <1>2, GoShape
<1>5. Numbers'
  BY <1>1, GoNumbers DEF PostClose
<1>7. /\ Len(inbox') = 1 /\ inbox'[1].msg = "CLOSE" /\ inbox'[1].id = NoMedium
      /\ gt.at # "gone" /\ \A i \in 1..1 : i = 1
  <2>1. Clean
    BY <1>1, <1>2 DEF State, Settled, None, Quiet, Rest
  <2>2. inbox' = Append(inbox, [msg |-> "CLOSE", id |-> NoMedium])
    BY DEF PostClose
  <2>3. Len(inbox') = 1 /\ inbox'[1] = [msg |-> "CLOSE", id |-> NoMedium] /\ gt.at # "gone"
    BY <1>1, <2>1, <2>2, InboxAlone DEF State
  <2> QED
    BY <1>1, <2>3, NumbersBelow DEF Numbers
<1>6. State'
  BY <1>1, <1>2, <1>3, <1>7
     DEF PostClose, State, Stages, Leaving, Results, Orders, Serving, Settled, Flags,
         Clean, Quiet, Rest, None, Begun, Building
<1> QED
  BY <1>4, <1>5, <1>6

LEMMA OpenMediaKept ==
    ASSUME TypeOK, Inv, Sound', Sound, OpenMedia
    PROVE  Inv'
<1> USE DEF Inv, Labels, Waiting, AboveClose, Asking, Chosen, window, events, thread, calls, history
<1>1. stack # <<>> /\ Top.at = "open"
  BY AtFacts DEF OpenMedia
<1>2. Jobs = LowJobs \cup {"open"} /\ LowJobs \subseteq Waiting
  BY <1>1, Running
<1>3. UNCHANGED <<current, opens>>
  BY DEF OpenMedia
<1>4. CASE load = "LOADED" /\ Return
  <2>1. "purge" \notin LowJobs
    BY <1>2, <1>4 DEF State, Stages, None
  <2>2. /\ Shape' /\ Jobs' = LowJobs
        /\ stack' = <<>> => LowJobs = {}
        /\ stack' # <<>> => Top'.at \in LowJobs
    BY <1>1, <1>4, <2>1, ReturnShape
  <2>3. Numbers'
    BY <1>1, <1>3, <1>4, ReturnNumbers
  <2>4. State'
    BY <1>1, <1>2, <1>4, <2>1, <2>2
       DEF OpenMedia, State, Stages, Leaving, Results, Orders, Serving, Settled, Flags,
           Clean, Quiet, Rest, None, Begun, Building
  <2> QED
    BY <2>2, <2>3, <2>4
<1>5. CASE load # "CLOSED" /\ Call("load", CloseFrame(TRUE))
  <2> DEFINE f == CloseFrame(TRUE)
  <2>1. f \in Frames /\ f.at = "close" /\ Call("load", f)
    BY <1>5, CloseType
  <2> HIDE DEF f
  <2>2. stack' # <<>> /\ Top'.at = "close" /\ Jobs' = LowJobs \cup {"load", "close"}
    BY <1>1, <2>1, CallStack
  <2>3. Shape'
    BY <1>1, <1>5, <2>1, CallShape
  <2>4. Numbers'
    BY <1>1, <1>3, <1>5, <2>1, CallNumbers
  <2>5. State'
    BY <1>1, <1>2, <1>5, <2>2
       DEF OpenMedia, State, Stages, Leaving, Results, Orders, Serving, Settled, Flags,
           Clean, Quiet, Rest, None, Begun, Building
  <2> QED
    BY <2>3, <2>4, <2>5
<1>6. CASE load = "CLOSED" /\ Go("load")
  <2>1. "waitClose" \notin LowJobs /\ "purge" \notin LowJobs
    BY <1>2, <1>6 DEF State, Stages, None
  <2>2. stack' # <<>> /\ Top'.at = "load" /\ Jobs' = LowJobs \cup {"load"}
    BY <1>1, <1>6, GoStack
  <2>3. Shape'
    BY <1>1, <1>6, <2>1, GoShape
  <2>4. Numbers'
    BY <1>1, <1>3, <1>6, GoNumbers
  <2>5. State'
    BY <1>1, <1>2, <1>6, <2>2
       DEF OpenMedia, State, Stages, Leaving, Results, Orders, Serving, Settled, Flags,
           Clean, Quiet, Rest, None, Begun, Building
  <2> QED
    BY <2>3, <2>4, <2>5
<1> QED
  BY <1>4, <1>5, <1>6 DEF OpenMedia

LEMMA SetThroughThreadKept ==
    ASSUME TypeOK, Inv, Sound', Sound, NEW value \in BOOLEAN, SetThroughThread(value)
    PROVE  Inv'
<1> USE DEF Inv, Labels, Waiting, AboveClose, Asking, Chosen, window, events, thread, calls, history
<1>1. /\ stack # <<>> /\ Return
      /\ (value /\ Top.at = "setFlag") \/ (~value /\ Top.at = "clearFlag")
  BY AtFacts DEF SetThroughThread
<1>2. value = onThread
  BY DEF SetThroughThread, Sound
<1>3. /\ Jobs = LowJobs \cup {Top.at} /\ LowJobs \subseteq Waiting
      /\ "waitClose" \notin LowJobs /\ "purge" \notin LowJobs
  BY <1>1, Running
<1>4. /\ Shape' /\ Jobs' = LowJobs
      /\ stack' = <<>> => LowJobs = {}
      /\ stack' # <<>> => Top'.at \in LowJobs
  BY <1>1, <1>3, ReturnShape
<1>5. Numbers'
  BY <1>1, ReturnNumbers DEF SetThroughThread
<1>6. State'
  BY <1>1, <1>2, <1>3, <1>4
     DEF SetThroughThread, State, Stages, Leaving, Results, Orders, Serving, Settled,
         Flags, Clean, Quiet, Rest, None, Begun, Building
<1> QED
  BY <1>4, <1>5, <1>6

LEMMA CloseMediaKept ==
    ASSUME TypeOK, Inv, Sound', Sound, CloseMedia
    PROVE  Inv'
<1> USE DEF Inv, Labels, Waiting, AboveClose, Asking, Chosen, window, events, thread, calls, history
<1>1. stack # <<>> /\ Top.at = "close"
  BY AtFacts DEF CloseMedia
<1>2. Jobs = LowJobs \cup {"close"} /\ LowJobs \subseteq Waiting
  BY <1>1, Running
<1>3. UNCHANGED <<current, opens>>
  BY DEF CloseMedia
<1>4. CASE load \in {"CLOSING", "CLOSED"} /\ Return /\ UNCHANGED <<aborted, faults>>
  <2>1. "purge" \notin LowJobs
    BY <1>2, <1>4 DEF State, Stages, None
  <2>2. /\ Shape' /\ Jobs' = LowJobs
        /\ stack' = <<>> => LowJobs = {}
        /\ stack' # <<>> => Top'.at \in LowJobs
    BY <1>1, <1>4, <2>1, ReturnShape
  <2>3. Numbers'
    BY <1>1, <1>3, <1>4, ReturnNumbers
  <2>4. State'
    BY <1>1, <1>2, <1>4, <2>1, <2>2
       DEF CloseMedia, State, Stages, Leaving, Results, Orders, Serving, Settled, Flags,
           Clean, Quiet, Rest, None, Begun, Building
  <2> QED
    BY <2>2, <2>3, <2>4
<1>5. ASSUME NEW label \in {"waitOpen", "stop"}, Go(label), load \in {"LOADING", "LOADED", "FAILING"},
             load = "LOADING" <=> label = "waitOpen"
      PROVE  Inv'
  <2>1. "waitClose" \notin LowJobs /\ "purge" \notin LowJobs
    <3>1. "waitClose" \notin LowJobs
      BY <1>2, <1>5 DEF State, Stages, None
    <3>2. CASE load = "LOADING"
      <4>1. ~Suspended("purge")
        BY <3>2 DEF CloseMedia, Sound
      <4>2. "purge" \notin Jobs
        BY <4>1, SuspendedJobs
      <4> QED
        BY <1>2, <3>1, <4>2
    <3>3. CASE load # "LOADING"
      <4>1. "purge" \notin Jobs
        BY <3>3 DEF State, Stages, None
      <4> QED
        BY <1>2, <3>1, <4>1
    <3> QED
      BY <3>1, <3>2, <3>3
  <2>2. stack' # <<>> /\ Top'.at = label /\ Jobs' = LowJobs \cup {label}
    BY <1>1, <1>5, GoStack
  <2>3. Shape'
    BY <1>1, <1>5, <2>1, GoShape
  <2>4. Numbers'
    BY <1>1, <1>3, <1>5, GoNumbers
  <2>5. State'
    BY <1>1, <1>2, <1>5, <2>1, <2>2
       DEF CloseMedia, State, Stages, Leaving, Results, Orders, Serving, Settled, Flags,
           Clean, Quiet, Rest, None, Begun, Building
  <2> QED
    BY <2>3, <2>4, <2>5
<1> QED
  BY <1>4, <1>5 DEF CloseMedia

LEMMA OpenPrivateKept ==
    ASSUME TypeOK, Inv, Sound', Sound, NEW ok \in BOOLEAN, OpenPrivate(ok)
    PROVE  Inv'
<1> USE DEF Inv, Labels, Waiting, AboveClose, Asking, Chosen, window, events, thread, calls, history
<1>1. stack # <<>> /\ Top.at = "private" /\ Top.id = current
  BY AtFacts, NumbersBelow DEF OpenPrivate, Numbers
<1>2. /\ Jobs = LowJobs \cup {"private"} /\ LowJobs \subseteq Waiting
      /\ "waitClose" \notin LowJobs /\ "purge" \notin LowJobs
  BY <1>1, Running
<1>3. UNCHANGED <<current, opens>> /\ current \in Ids
  BY DEF OpenPrivate, TypeOK
<1>4. /\ posted = <<>> /\ graph = NoMedium /\ load = "LOADING" /\ Quiet
      /\ graph' \in {NoMedium, current} /\ (ok => graph' = current)
  BY <1>1, <1>2 DEF OpenPrivate, State, Stages, Results, Settled, None, Begun
<1>5. CASE Go("clearFlag")
  <2>1. stack' # <<>> /\ Top'.at = "clearFlag" /\ Jobs' = LowJobs \cup {"clearFlag"}
    BY <1>1, <1>5, GoStack
  <2>2. Shape'
    BY <1>1, <1>2, <1>5, GoShape
  <2>3. Numbers'
    BY <1>1, <1>3, <1>5, GoNumbers
  <2>4. posted' = <<>> \/ (Len(posted') = 1 /\ posted'[1].id = current /\ (posted'[1].msg = "POSTOPEN" => ok))
    <3>1. CASE UNCHANGED posted
      BY <1>4, <3>1
    <3>2. CASE Post(IF ok THEN "POSTOPEN" ELSE "OPENFAILED", current)
      <4> DEFINE r == [msg |-> IF ok THEN "POSTOPEN" ELSE "OPENFAILED", id |-> current]
      <4>1. posted' = Append(<<>>, r) /\ r.id = current /\ (r.msg = "POSTOPEN" => ok)
        BY <1>4, <3>2 DEF Post
      <4> HIDE DEF r
      <4> QED
        BY <4>1
    <3> QED
      BY <1>1, <3>1, <3>2 DEF OpenPrivate
  <2>5. State'
    BY <1>1, <1>2, <1>3, <1>4, <2>1, <2>4
       DEF OpenPrivate, State, Stages, Leaving, Results, Orders, Serving, Settled, Flags,
           Clean, Quiet, Rest, None, Begun, Building
  <2> QED
    BY <2>2, <2>3, <2>5
<1>6. ASSUME NEW f \in Frames, f.at = (IF ok THEN "opened" ELSE "failed"), f.id = current,
             Call("clearFlag", f), ~throughThread, UNCHANGED posted
      PROVE  Inv'
  <2>1. stack' # <<>> /\ Top'.at = f.at /\ Jobs' = LowJobs \cup {"clearFlag", f.at}
    BY <1>1, <1>6, CallStack
  <2>2. Shape'
    BY <1>1, <1>2, <1>6, CallShape
  <2>3. Numbers'
    BY <1>1, <1>3, <1>6, CallNumbers
  <2>4. f.at \in {"opened", "failed"} /\ (f.at = "opened" => graph' = current)
    <3>1. CASE ok
      BY <1>4, <1>6, <3>1
    <3>2. CASE ~ok
      BY <1>6, <3>2
    <3> QED
      BY <3>1, <3>2
  <2>5. State'
    <3>1. throughThread = onThread
      BY <1>1, <1>2, <1>6 DEF State, Flags, TypeOK
    <3>2. Flags'
      BY <1>1, <1>2, <1>6, <2>1, <2>4, <3>1 DEF OpenPrivate, Flags, None
    <3>3. Stages' /\ Leaving' /\ Results' /\ Orders' /\ Serving' /\ Settled'
      BY <1>1, <1>2, <1>3, <1>4, <1>6, <2>1, <2>4
         DEF OpenPrivate, State, Stages, Leaving, Results, Orders, Serving, Settled,
             Flags, Clean, Quiet, Rest, None, Begun, Building
    <3> QED
      BY <3>2, <3>3 DEF State
  <2> QED
    BY <2>2, <2>3, <2>5
<1>7. CASE /\ ~throughThread /\ UNCHANGED posted
           /\ Call("clearFlag", Frame(IF ok THEN "opened" ELSE "failed", Top.id, FALSE))
  <2> DEFINE f == Frame(IF ok THEN "opened" ELSE "failed", Top.id, FALSE)
  <2>1. f \in Frames /\ f.at = (IF ok THEN "opened" ELSE "failed") /\ f.id = current
    <3> DEFINE at == IF ok THEN "opened" ELSE "failed"
    <3>1. f = [at |-> at, id |-> Top.id, next |-> FALSE] /\ at \in Labels
      BY DEF Frame
    <3> HIDE DEF at, f
    <3>2. f \in Frames /\ f.at = at /\ f.id = current
      BY <1>1, <1>3, <3>1 DEF Frames
    <3> QED
      BY <3>2 DEF at
  <2>2. Call("clearFlag", f)
    BY <1>7
  <2> HIDE DEF f
  <2> QED
    BY <1>6, <1>7, <2>1, <2>2
<1> QED
  BY <1>5, <1>7 DEF OpenPrivate

LEMMA OnOpenMediaFailedKept ==
    ASSUME TypeOK, Inv, Sound', Sound, NEW next \in BOOLEAN, OnOpenMediaFailed(next)
    PROVE  Inv'
<1> USE DEF Inv, Labels, Waiting, AboveClose, Asking, Chosen, window, events, thread, calls, history
<1> DEFINE label == IF next THEN "openNext" ELSE "return"
           f == CloseFrame(next)
<1>1. stack # <<>> /\ Top.at = "failed" /\ Top.id = current /\ Call(label, f)
  BY AtFacts, NumbersBelow DEF OnOpenMediaFailed, Numbers
<1>2. /\ Jobs = LowJobs \cup {"failed"} /\ LowJobs \subseteq Waiting
      /\ "waitClose" \notin LowJobs /\ "purge" \notin LowJobs
  BY <1>1, Running
<1>3. f \in Frames /\ f.at = "close" /\ label \in {"openNext", "return"}
  BY CloseType
<1> HIDE DEF f, label
<1>4. stack' # <<>> /\ Top'.at = "close" /\ Jobs' = LowJobs \cup {label, "close"}
  BY <1>1, <1>3, CallStack
<1>5. Shape'
  BY <1>1, <1>2, <1>3, CallShape
<1>6. Numbers'
  BY <1>1, <1>3, CallNumbers DEF OnOpenMediaFailed
<1>7. State'
  BY <1>1, <1>2, <1>3, <1>4
     DEF OnOpenMediaFailed, State, Stages, Leaving, Results, Orders, Serving, Settled,
         Flags, Clean, Quiet, Rest, None, Begun, Building
<1> QED
  BY <1>5, <1>6, <1>7

LEMMA OpenNextKept ==
    ASSUME TypeOK, Inv, Sound', Sound, OpenNext
    PROVE  Inv'
<1> USE DEF Inv, Labels, Waiting, AboveClose, Asking, Chosen, window, events, thread, calls, history
<1>1. stack # <<>> /\ Top.at \in {"openNext", "return"}
  BY AtFacts DEF OpenNext
<1>2. /\ Jobs = LowJobs \cup {Top.at} /\ LowJobs \subseteq Waiting
      /\ "waitClose" \notin LowJobs /\ "purge" \notin LowJobs
  BY <1>1, Running
<1>3. CASE Return /\ UNCHANGED opens
  <2>1. /\ Shape' /\ Jobs' = LowJobs
        /\ stack' = <<>> => LowJobs = {}
        /\ stack' # <<>> => Top'.at \in LowJobs
    BY <1>1, <1>2, <1>3, ReturnShape
  <2>2. Numbers'
    BY <1>1, <1>3, ReturnNumbers DEF OpenNext
  <2>3. State'
    BY <1>1, <1>2, <2>1
       DEF OpenNext, State, Stages, Leaving, Results, Orders, Serving, Settled, Flags,
           Clean, Quiet, Rest, None, Begun, Building
  <2> QED
    BY <2>1, <2>2, <2>3
<1>4. CASE opens < MaxOpens /\ opens' = opens + 1 /\ stack' = Append(Below, OpenFrame(opens + 1))
  <2> DEFINE f == OpenFrame(opens + 1)
  <2>1. f \in Frames /\ f.at = "open" /\ stack' = Append(Below, f)
    BY <1>4, NextMedium
  <2>2. Numbers'
    BY <1>1, <1>4, NumbersBelow, TopFacts, OpenNumbers DEF OpenNext, Numbers
  <2> HIDE DEF f
  <2>3. stack' # <<>> /\ Top'.at = "open" /\ Jobs' = LowJobs \cup {"open"}
    BY <1>1, <2>1, ReplaceStack
  <2>4. Shape'
    BY <1>1, <1>2, <2>1, ReplaceShape
  <2>5. State'
    BY <1>1, <1>2, <2>3
       DEF OpenNext, State, Stages, Leaving, Results, Orders, Serving, Settled, Flags,
           Clean, Quiet, Rest, None, Begun, Building
  <2> QED
    BY <2>2, <2>4, <2>5
<1> QED
  BY <1>3, <1>4 DEF OpenNext

LEMMA TakeResultKept ==
    ASSUME TypeOK, Inv, Sound', Sound, TakeResult
    PROVE  Inv'
<1> USE DEF Inv, Labels, Waiting, AboveClose, Asking, Chosen, window, events, thread, calls, history
<1>1. stack # <<>> => Top.at = "askDrive"
  BY AtFacts DEF TakeResult, InLoop
<1> DEFINE m == Head(posted)
           f == Frame(IF m.msg = "POSTOPEN" THEN "opened" ELSE "failed", m.id, FALSE)
<1>2. /\ load = "LOADING" /\ Len(posted) = 1 /\ m.id = current
      /\ m.msg = "POSTOPEN" => graph = current
      /\ Rest /\ None(Begun)
  BY HeadPosted DEF State, Results, TakeResult
<1>3. posted' = <<>>
  BY <1>2, HeadPosted DEF TakeResult
<1>4. /\ f \in Frames /\ f.at = (IF m.msg = "POSTOPEN" THEN "opened" ELSE "failed")
      /\ f.id = current
  <2> DEFINE at == IF m.msg = "POSTOPEN" THEN "opened" ELSE "failed"
  <2>1. at \in Labels /\ m.id \in Ids /\ FALSE \in BOOLEAN
    BY HeadPosted DEF TakeResult
  <2>2. f = [at |-> at, id |-> m.id, next |-> FALSE]
    BY DEF Frame
  <2> HIDE DEF at, f, m
  <2>3. f \in Frames /\ f.at = at /\ f.id = m.id
    BY <2>1, <2>2 DEF Frames
  <2> QED
    BY <1>2, <2>3 DEF at
<1>5. stack' = Append(stack, f)
  BY DEF TakeResult
<1> HIDE DEF f, m
<1>6. (f.at = "opened" /\ graph = current) \/ f.at = "failed"
  BY <1>2, <1>4
<1>7. stack' # <<>> /\ Top'.at = f.at /\ Jobs' = Jobs \cup {f.at}
  BY <1>4, <1>5, PushStack
<1>8. "waitClose" \notin Jobs /\ "purge" \notin Jobs
  <2>1. CASE stack = <<>>
    BY <2>1, Idle
  <2>2. CASE stack # <<>>
    <3>1. "waitClose" \notin Jobs
      BY <1>2 DEF State, Stages, None
    <3>2. "purge" \notin Jobs
      BY <1>1, <2>2, Running
    <3> QED
      BY <3>1, <3>2
  <2> QED
    BY <2>1, <2>2
<1>9. Shape'
  BY <1>1, <1>4, <1>5, <1>8, PushShape
<1>10. Numbers'
  BY <1>4, <1>5, <1>6, PushNumbers DEF TakeResult
<1>11. State'
  BY <1>1, <1>2, <1>3, <1>6, <1>7, <1>8
     DEF TakeResult, State, Stages, Leaving, Results, Orders, Serving, Settled, Flags,
         Clean, Quiet, Rest, None, Begun, Building
<1> QED
  BY <1>9, <1>10, <1>11

LEMMA SameStack ==
    ASSUME Inv, UNCHANGED <<stack, current, opens>>
    PROVE  /\ Shape' /\ Numbers' /\ Jobs' = Jobs
           /\ stack # <<>> => Top' = Top
  BY DEF Inv, Shape, Numbers, Jobs, Top

LEMMA GtTakeKept ==
    ASSUME TypeOK, Inv, Sound', Sound, GtTake
    PROVE  Inv'
<1> USE DEF Inv, Labels, Waiting, AboveClose, Asking, Chosen, window, events, thread, calls, history
<1>1. Shape' /\ Numbers' /\ Jobs' = Jobs /\ (stack # <<>> => Top' = Top)
  BY SameStack DEF GtTake
<1>2. /\ gt.at = "idle" /\ inbox # <<>> /\ inbox' = Tail(inbox)
      /\ \A i \in 1..Len(inbox') : inbox'[i] = inbox[i + 1] /\ i + 1 \in 1..Len(inbox) /\ i + 1 # 1
      /\ 1 \in 1..Len(inbox) /\ Head(inbox) = inbox[1]
      /\ inbox[1].msg \in {"OPEN", "CLOSE", "EXIT"} /\ inbox[1].id \in Ids
  BY HeadInbox DEF GtTake, GtAt
<1>3. \A i \in 1..Len(inbox') : inbox'[i].msg = "EXIT"
  BY <1>2 DEF State, Orders
<1>4. CASE inbox[1].msg = "OPEN"
  <2>1. /\ load = "LOADING" /\ inbox[1].id = current /\ onThread /\ ~evOpen /\ graph = NoMedium
        /\ posted = <<>> /\ None(Begun) /\ "purge" \notin Jobs
    BY <1>2, <1>4 DEF State, Orders
  <2>2. gt' = [at |-> "build", id |-> current]
    BY <1>2, <1>4, <2>1 DEF GtTake
  <2>3. gt'.at = "build" /\ gt'.id = current
    BY <2>2
  <2> QED
    BY <1>1, <1>2, <1>3, <2>1, <2>3
       DEF GtTake, State, Stages, Leaving, Results, Orders, Serving, Settled, Flags,
           Clean, Quiet, Rest, None, Begun, Building
<1>5. CASE inbox[1].msg = "CLOSE"
  <2>1. "waitClose" \in Jobs /\ ~evClose /\ load = "CLOSING"
    BY <1>2, <1>5 DEF State, Orders, Stages, None
  <2>2. gt' = [at |-> "close", id |-> inbox[1].id]
    BY <1>2, <1>5, <2>1 DEF GtTake
  <2>3. gt'.at = "close"
    BY <2>2
  <2> QED
    BY <1>1, <1>2, <1>3, <1>5, <2>1, <2>3
       DEF GtTake, State, Stages, Leaving, Results, Orders, Serving, Settled, Flags,
           Clean, Quiet, Rest, None, Begun, Building
<1>6. CASE inbox[1].msg = "EXIT"
  <2>1. gt' = [at |-> "gone", id |-> inbox[1].id]
    BY <1>2, <1>6 DEF GtTake
  <2>2. gt'.at = "gone"
    BY <2>1
  <2>3. stack # <<>> /\ Top.at \in {"waitExit", "exited"}
    BY <1>2, <1>6 DEF State, Leaving
  <2> QED
    BY <1>1, <1>2, <1>3, <1>6, <2>2, <2>3
       DEF GtTake, State, Stages, Leaving, Results, Orders, Serving, Settled, Flags,
           Clean, Quiet, Rest, None, Begun, Building
<1>7. State'
  BY <1>2, <1>4, <1>5, <1>6
<1> QED
  BY <1>1, <1>7

LEMMA GtCreateKept ==
    ASSUME TypeOK, Inv, Sound', Sound, GtCreate
    PROVE  Inv'
<1> USE DEF Inv, Labels, Waiting, AboveClose, Asking, Chosen, window, events, thread, calls, history
<1>1. Shape' /\ Numbers' /\ Jobs' = Jobs /\ (stack # <<>> => Top' = Top)
  BY SameStack DEF GtCreate
<1>2. gt'.at \in {"title", "refused"} /\ gt'.id = gt.id
  BY GtGoType DEF GtCreate, GtLabels
<1>3. graph = NoMedium /\ graph' \in {NoMedium, gt.id} /\ (gt'.at = "title" => graph' = gt.id)
  BY GtGoType DEF GtCreate, GtAt, State, Serving, Building, GtLabels
<1>4. State'
  BY <1>1, <1>2, <1>3
     DEF GtCreate, GtAt, State, Stages, Leaving, Results, Orders, Serving, Settled, Flags,
         Clean, Quiet, Rest, None, Begun, Building
<1> QED
  BY <1>1, <1>4

LEMMA GtTitleKept ==
    ASSUME TypeOK, Inv, Sound', Sound, GtTitle
    PROVE  Inv'
<1> USE DEF Inv, Labels, Waiting, AboveClose, Asking, Chosen, window, events, thread, calls, history
<1>1. Shape' /\ Numbers' /\ Jobs' = Jobs /\ (stack # <<>> => Top' = Top)
  BY SameStack DEF GtTitle
<1>2. gt'.at \in {"titled", "refused"} /\ gt'.id = gt.id
  BY GtGoType DEF GtTitle, GtLabels
<1>3. State'
  BY <1>1, <1>2
     DEF GtTitle, GtAt, State, Stages, Leaving, Results, Orders, Serving, Settled, Flags,
         Clean, Quiet, Rest, None, Begun, Building
<1> QED
  BY <1>1, <1>3

LEMMA GtFinishKept ==
    ASSUME TypeOK, Inv, Sound', Sound, GtFinish
    PROVE  Inv'
<1> USE DEF Inv, Labels, Waiting, AboveClose, Asking, Chosen, window, events, thread, calls, history
<1>1. Shape' /\ Numbers' /\ Jobs' = Jobs /\ (stack # <<>> => Top' = Top)
  BY SameStack DEF GtFinish
<1>2. gt'.at \in {"built", "refused"} /\ gt'.id = gt.id
  BY GtGoType DEF GtFinish, GtLabels
<1>3. State'
  BY <1>1, <1>2
     DEF GtFinish, GtAt, State, Stages, Leaving, Results, Orders, Serving, Settled, Flags,
         Clean, Quiet, Rest, None, Begun, Building
<1> QED
  BY <1>1, <1>3

LEMMA GtCloseKept ==
    ASSUME TypeOK, Inv, Sound', Sound, GtClose
    PROVE  Inv'
<1> USE DEF Inv, Labels, Waiting, AboveClose, Asking, Chosen, window, events, thread, calls, history
<1>1. Shape' /\ Numbers' /\ Jobs' = Jobs /\ (stack # <<>> => Top' = Top)
  BY SameStack DEF GtClose
<1>2. gt'.at = "setClose" /\ gt'.id = gt.id
  BY GtGoType DEF GtClose, GtLabels
<1>3. State'
  BY <1>1, <1>2
     DEF GtClose, GtAt, State, Stages, Leaving, Results, Orders, Serving, Settled, Flags,
         Clean, Quiet, Rest, None, Begun, Building
<1> QED
  BY <1>1, <1>3

LEMMA GtSignalKept ==
    ASSUME TypeOK, Inv, Sound', Sound, GtSignal
    PROVE  Inv'
<1> USE DEF Inv, Labels, Waiting, AboveClose, Asking, Chosen, window, events, thread, calls, history
<1>1. Shape' /\ Numbers' /\ Jobs' = Jobs /\ (stack # <<>> => Top' = Top)
  BY SameStack DEF GtSignal
<1>2. /\ gt'.at = "idle" /\ UNCHANGED <<load, graph, posted, inbox, lastOMD, stack>>
      /\ UNCHANGED <<current, onThread, throughThread>>
  BY DEF GtSignal
<1>3. \A i \in 1..Len(inbox) : inbox[i].msg \in {"OPEN", "CLOSE", "EXIT"}
  <2>1. inbox \in Seq(Messages)
    BY DEF TypeOK, Messages
  <2>2. \A i \in 1..Len(inbox) : inbox[i] \in Messages
    BY <2>1
  <2>3. \A m \in Messages : m.msg \in {"OPEN", "CLOSE", "EXIT"}
    BY DEF Messages
  <2> QED
    BY <2>2, <2>3
<1>4. ASSUME gt.at = "setOpen" PROVE State'
  <2>1. evOpen' /\ (evClose' <=> evClose)
    BY <1>4 DEF GtSignal
  <2>2. load = "LOADING" => Clean
    BY <1>3, <1>4 DEF State, Orders, Stages, None, Clean
  <2>3. \A i \in 1..Len(inbox) : inbox[i].msg # "OPEN"
    BY <1>4 DEF State, Orders
  <2> QED
    BY <1>1, <1>2, <1>4, <2>1, <2>2, <2>3
       DEF State, Stages, Leaving, Results, Orders, Serving, Settled, Flags, Clean, Quiet,
           Rest, None, Begun, Building
<1>5. ASSUME gt.at = "setClose" PROVE State'
  <2>1. evClose' /\ (evOpen' <=> evOpen)
    BY <1>5 DEF GtSignal
  <2>2. Clean /\ graph = NoMedium
    BY <1>5 DEF State, Serving
  <2> QED
    BY <1>1, <1>2, <1>5, <2>1, <2>2
       DEF State, Stages, Leaving, Results, Orders, Serving, Settled, Flags, Clean, Quiet,
           Rest, None, Begun, Building
<1>6. State'
  BY <1>4, <1>5 DEF GtSignal, GtAt
<1> QED
  BY <1>1, <1>6

LEMMA GtResultKept ==
    ASSUME TypeOK, Inv, Sound', Sound, GtResult
    PROVE  Inv'
<1> USE DEF Inv, Labels, Waiting, AboveClose, Asking, Chosen, window, events, thread, calls, history
<1>1. Shape' /\ Numbers' /\ Jobs' = Jobs /\ (stack # <<>> => Top' = Top)
  BY SameStack DEF GtResult
<1>2. /\ gt.at \in {"built", "refused"} /\ load = "LOADING" /\ gt.id = current /\ Clean
      /\ posted = <<>> /\ None(Begun) /\ onThread /\ "purge" \notin Jobs
      /\ gt.at = "built" => graph = current
  BY DEF GtResult, GtAt, State, Serving, Building
<1>3. gt'.at = "setOpen" /\ gt'.id = gt.id
  <2>1. faults' = {}
    BY DEF Sound
  <2>2. GtGo("setOpen")
    BY <2>1 DEF GtResult
  <2>3. "setOpen" \in GtLabels
    BY DEF GtLabels
  <2> QED
    BY <2>2, <2>3, GtGoType
<1>4. \/ posted' = <<>>
      \/ /\ Len(posted') = 1 /\ posted'[1].id = current
         /\ posted'[1].msg = "POSTOPEN" => gt.at = "built"
  <2>1. CASE UNCHANGED posted
    BY <1>2, <2>1
  <2>2. CASE Post(IF gt.at = "built" THEN "POSTOPEN" ELSE "OPENFAILED", gt.id)
    <3> DEFINE r == [msg |-> IF gt.at = "built" THEN "POSTOPEN" ELSE "OPENFAILED", id |-> gt.id]
    <3>1. posted' = Append(<<>>, r) /\ r.id = current /\ (r.msg = "POSTOPEN" => gt.at = "built")
      BY <1>2, <2>2 DEF Post
    <3> HIDE DEF r
    <3> QED
      BY <3>1
  <2> QED
    BY <2>1, <2>2 DEF GtResult
<1>5. State'
  BY <1>1, <1>2, <1>3, <1>4
     DEF GtResult, State, Stages, Leaving, Results, Orders, Serving, Settled, Flags,
         Clean, Quiet, Rest, None, Begun, Building
<1> QED
  BY <1>1, <1>5

-----------------------------------------------------------------------------
(* All steps together. *)

LEMMA FaultsGrow ==
    ASSUME [Next]_vars, Sound'
    PROVE  Sound
<1> USE DEF history
<1>1. ASSUME CommandOpen PROVE faults \subseteq faults'
  BY <1>1 DEF CommandOpen
<1>2. ASSUME CommandClose PROVE faults \subseteq faults'
  BY <1>2 DEF CommandClose
<1>3. ASSUME SentCall PROVE faults \subseteq faults'
  BY <1>3 DEF SentCall
<1>4. ASSUME CommandExit PROVE faults \subseteq faults'
  BY <1>4 DEF CommandExit
<1>5. ASSUME OpenMedia PROVE faults \subseteq faults'
  BY <1>5 DEF OpenMedia
<1>6. ASSUME AskDrive PROVE faults \subseteq faults'
  BY <1>6 DEF AskDrive
<1>7. ASSUME DriveRefused PROVE faults \subseteq faults'
  BY <1>7 DEF DriveRefused
<1>8. ASSUME NEW b \in BOOLEAN, SetLoading(b) PROVE faults \subseteq faults'
  BY <1>8 DEF SetLoading
<1>9. ASSUME NEW b \in BOOLEAN, SetThroughThread(b) PROVE faults \subseteq faults'
  BY <1>9 DEF SetThroughThread
<1>10. ASSUME PostOpen PROVE faults \subseteq faults'
  BY <1>10 DEF PostOpen
<1>11. ASSUME NEW b \in BOOLEAN, OpenPrivate(b) PROVE faults \subseteq faults'
  BY <1>11 DEF OpenPrivate
<1>12. ASSUME OnFilePostOpenmedia PROVE faults \subseteq faults'
  BY <1>12 DEF OnFilePostOpenmedia
<1>13. ASSUME NEW b \in BOOLEAN, OnOpenMediaFailed(b) PROVE faults \subseteq faults'
  BY <1>13 DEF OnOpenMediaFailed
<1>14. ASSUME OpenNext PROVE faults \subseteq faults'
  BY <1>14 DEF OpenNext
<1>15. ASSUME TakeResult PROVE faults \subseteq faults'
  BY <1>15 DEF TakeResult
<1>16. ASSUME CloseMedia PROVE faults \subseteq faults'
  BY <1>16 DEF CloseMedia
<1>17. ASSUME OpenFinished PROVE faults \subseteq faults'
  BY <1>17 DEF OpenFinished
<1>18. ASSUME OpenTimedOut PROVE faults \subseteq faults'
  BY <1>18 DEF OpenTimedOut
<1>19. ASSUME PurgeResults PROVE faults \subseteq faults'
  BY <1>19 DEF PurgeResults
<1>20. ASSUME StopGraph PROVE faults \subseteq faults'
  BY <1>20 DEF StopGraph
<1>21. ASSUME PostClose PROVE faults \subseteq faults'
  BY <1>21 DEF PostClose
<1>22. ASSUME ClosePrivate PROVE faults \subseteq faults'
  BY <1>22 DEF ClosePrivate
<1>23. ASSUME CloseFinished PROVE faults \subseteq faults'
  BY <1>23 DEF CloseFinished
<1>24. ASSUME OnFilePostClosemedia PROVE faults \subseteq faults'
  BY <1>24 DEF OnFilePostClosemedia
<1>25. ASSUME Exit PROVE faults \subseteq faults'
  BY <1>25 DEF Exit
<1>26. ASSUME Exited PROVE faults \subseteq faults'
  BY <1>26 DEF Exited
<1>27. ASSUME GtCreate PROVE faults \subseteq faults'
  BY <1>27 DEF GtCreate
<1>28. ASSUME GtTitle PROVE faults \subseteq faults'
  BY <1>28 DEF GtTitle
<1>29. ASSUME GtFinish PROVE faults \subseteq faults'
  BY <1>29 DEF GtFinish
<1>30. ASSUME GtTake PROVE faults \subseteq faults'
  BY <1>30 DEF GtTake
<1>31. ASSUME GtResult PROVE faults \subseteq faults'
  BY <1>31 DEF GtResult
<1>32. ASSUME GtClose PROVE faults \subseteq faults'
  BY <1>32 DEF GtClose
<1>33. ASSUME GtSignal PROVE faults \subseteq faults'
  BY <1>33 DEF GtSignal
<1>34. CASE UNCHANGED vars
  BY <1>34 DEF vars, Sound
<1>35. faults \subseteq faults' => Sound
  BY DEF Sound
<1> QED
  BY <1>1, <1>2, <1>3, <1>4, <1>5, <1>6, <1>7, <1>8, <1>9, <1>10, <1>11, <1>12, <1>13, <1>14,
     <1>15, <1>16, <1>17, <1>18, <1>19, <1>20, <1>21, <1>22, <1>23, <1>24, <1>25, <1>26,
     <1>27, <1>28, <1>29, <1>30, <1>31, <1>32, <1>33, <1>34, <1>35
     DEF Next, Outside, OpenStep, CloseStep, GtBuild, GtServe

LEMMA InvKept ==
    ASSUME TypeOK, Inv, Sound', Sound, [Next]_vars
    PROVE  Inv'
<1>1. CASE Outside
  BY <1>1, CommandOpenKept, CommandCloseKept, SentCallKept, CommandExitKept DEF Outside
<1>2. CASE OpenStep
  BY <1>2, OpenMediaKept, AskDriveKept, DriveRefusedKept, SetLoadingKept, SetThroughThreadKept,
     PostOpenKept, OpenPrivateKept, OnFilePostOpenmediaKept, OnOpenMediaFailedKept, OpenNextKept,
     TakeResultKept DEF OpenStep
<1>3. CASE CloseStep
  BY <1>3, CloseMediaKept, OpenFinishedKept, OpenTimedOutKept, PurgeResultsKept, StopGraphKept,
     PostCloseKept, ClosePrivateKept, CloseFinishedKept, OnFilePostClosemediaKept, ExitKept,
     ExitedKept DEF CloseStep
<1>4. CASE GtBuild \/ GtServe
  BY <1>4, GtCreateKept, GtTitleKept, GtFinishKept, GtTakeKept, GtResultKept, GtCloseKept,
     GtSignalKept DEF GtBuild, GtServe
<1>5. CASE UNCHANGED vars
  <2>1. /\ UNCHANGED <<stack, current, opens>> /\ UNCHANGED <<load, posted, graph, inbox, gt>>
        /\ UNCHANGED <<onThread, evOpen, evClose, lastOMD, throughThread>>
    BY <1>5 DEF vars, window, events, thread, calls, history
  <2>2. Shape' /\ Numbers' /\ Jobs' = Jobs
    BY <2>1, SameStack
  <2>3. Top' = Top
    BY <2>1 DEF Top
  <2>4. State'
    BY <2>1, <2>2, <2>3
       DEF Inv, State, Stages, Leaving, Results, Orders, Serving, Settled, Flags,
       Clean, Quiet, Rest, None, Begun, Building
  <2> QED
    BY <2>2, <2>4 DEF Inv
<1> QED
  BY <1>1, <1>2, <1>3, <1>4, <1>5 DEF Next

LEMMA Start ==
    ASSUME Init
    PROVE  IInv
<1> USE DEF Init
<1>1. TypeOK
  <2>1. \A S : <<>> \in Seq(S)
    OBVIOUS
  <2>2. [at |-> "idle", id |-> NoMedium] \in [at : GtLabels, id : Ids]
    BY NoMediumId DEF GtLabels
  <2>3. opens \in 0..MaxOpens /\ sent \in 0..MaxSent
    BY BoundAssumption
  <2>4. load \in LoadStates /\ faults \subseteq Faults
    BY DEF LoadStates
  <2>5. /\ stack \in Seq([at : Labels, id : Ids, next : BOOLEAN])
        /\ posted \in Seq([msg : {"POSTOPEN", "OPENFAILED"}, id : Ids])
        /\ inbox \in Seq([msg : {"OPEN", "CLOSE", "EXIT"}, id : Ids])
    BY <2>1
  <2> QED
    BY <2>2, <2>3, <2>4, <2>5, NoMediumId DEF TypeOK
<1>2. stack = <<>> /\ Len(stack) = 0 /\ Jobs = {}
  BY Idle
<1>3. Shape /\ Numbers
  BY <1>2 DEF Shape, Numbers, ShapeOf, NumbersOf, NoMedium
<1>4. State
  <2>1. gt.at = "idle" /\ Len(inbox) = 0
    OBVIOUS
  <2>2. Clean /\ Quiet /\ Rest /\ Leaving /\ Orders
    BY <2>1 DEF Clean, Quiet, Rest, Leaving, Orders
  <2>3. Results /\ Serving /\ Stages
    BY <1>2, <2>1 DEF Results, Serving, Building, Stages, None
  <2>4. throughThread = onThread
    OBVIOUS
  <2>5. Settled /\ Flags
    BY <1>2, <2>2, <2>4 DEF Settled, Flags, None
  <2> QED
    BY <2>2, <2>3, <2>5 DEF State
<1> QED
  BY <1>1, <1>3, <1>4 DEF IInv

LEMMA IInvKept ==
    ASSUME IInv, [Next]_vars
    PROVE  IInv'
<1>1. TypeOK'
  BY TypesKept DEF IInv
<1>2. ASSUME Sound' PROVE Inv'
  BY <1>2, FaultsGrow, InvKept DEF IInv, Inv
<1> QED
  BY <1>1, <1>2 DEF IInv, Inv

LEMMA Inductive == Spec => []IInv
<1>1. IInv /\ [Next]_vars => IInv'
  BY IInvKept
<1> QED
  BY <1>1, Start, PTL DEF Spec

-----------------------------------------------------------------------------

\* Every variable of the two threads keeps its type.
THEOREM TypeCorrect == Spec => []TypeOK
<1>1. IInv => TypeOK
  BY DEF IInv
<1> QED
  BY <1>1, Inductive, PTL

\* However the calls to open and close are nested, whenever the opening is
\* aborted and whichever thread does the work: a result that waits in the
\* queue of the window is the only one, and that of the medium being loaded.
THEOREM ResultsOfCurrent == Spec => []ResultsCurrent
<1>1. IInv => ResultsCurrent
  <2>1. ASSUME IInv, Sound PROVE ResultsCurrent
    <3>1. Results /\ (load = "LOADED" => lastOMD = current)
      BY <2>1 DEF IInv, State, Settled
    <3>2. \A i \in DOMAIN posted : posted # <<>> /\ i \in 1..Len(posted)
      BY <2>1 DEF IInv, TypeOK
    <3> QED
      BY <3>1, <3>2 DEF ResultsCurrent, Results
  <2> QED
    BY <2>1 DEF ResultsCurrent
<1> QED
  BY <1>1, Inductive, PTL

LEMMA SameLife ==
    ASSUME UNCHANGED <<load, current, graph>>
    PROVE  UNCHANGED Life!lifeVars
  BY DEF Life!lifeVars, Phase

\* The steps that the life of a medium sees.
LEMMA LifeStep ==
    ASSUME TypeOK, Inv, Sound', Sound, [Next]_vars
    PROVE  Life!LifeNext \/ UNCHANGED Life!lifeVars
<1> USE DEF Inv, window, events, thread, calls, history
<1>1. ASSUME CommandOpen \/ CommandClose \/ SentCall \/ CommandExit \/ OpenMedia \/ AskDrive
             \/ DriveRefused \/ PostOpen \/ OpenNext \/ TakeResult \/ CloseMedia \/ OpenFinished
             \/ OpenTimedOut \/ PurgeResults \/ PostClose \/ CloseFinished
             \/ Exit \/ Exited \/ GtTitle \/ GtFinish \/ GtTake \/ GtResult \/ GtSignal
             \/ (\E b \in BOOLEAN : SetThroughThread(b))
      PROVE  UNCHANGED Life!lifeVars
  <2>1. UNCHANGED <<load, current, graph>>
    BY <1>1
       DEF CommandOpen, CommandClose, SentCall, CommandExit, OpenMedia, AskDrive,
           DriveRefused, PostOpen, OpenNext, TakeResult, CloseMedia, OpenFinished,
           OpenTimedOut, PurgeResults, PostClose, CloseFinished, Exit, Exited, GtTitle,
           GtFinish, GtTake, GtResult, GtSignal, SetThroughThread
  <2> QED
    BY <2>1, SameLife
<1>2. ASSUME NEW b \in BOOLEAN, SetLoading(b)
      PROVE  Life!LifeNext \/ UNCHANGED Life!lifeVars
  <2>1. stack # <<>> /\ Top.at \in {"load", "askDrive"}
    BY <1>2, AtFacts DEF SetLoading
  <2>2. load = "CLOSED"
    BY <1>2 DEF SetLoading, Sound
  <2>3. Top.id \in 1..opens /\ Top.id # current
    BY <2>1, NumbersBelow DEF Numbers, Asking
  <2>4. Top.id \in Media
    BY <2>3, BoundAssumption DEF TypeOK, Media
  <2>5. Life!Begin(Top.id)
    BY <1>2, <2>2, <2>3 DEF SetLoading, Life!Begin, Phase
  <2> QED
    BY <2>4, <2>5 DEF Life!LifeNext
<1>3. ASSUME NEW b \in BOOLEAN, OpenPrivate(b)
      PROVE  Life!LifeNext \/ UNCHANGED Life!lifeVars
  <2>1. stack # <<>> /\ Top.at = "private" /\ Top.id = current
    BY <1>3, AtFacts, NumbersBelow DEF OpenPrivate, Numbers, Chosen
  <2>2. "private" \in Jobs
    BY <2>1, TopFacts
  <2>3. load = "LOADING" /\ graph = NoMedium
    BY <2>2 DEF State, Stages, Settled, None
  <2>4. UNCHANGED <<load, current>> /\ graph' \in {NoMedium, current}
    BY <1>3, <2>1, <2>3 DEF OpenPrivate
  <2>5. Life!Build \/ UNCHANGED <<load, current, graph>>
    BY <2>3, <2>4 DEF Life!Build, Phase
  <2> QED
    BY <2>5, SameLife DEF Life!LifeNext
<1>4. ASSUME OnFilePostOpenmedia
      PROVE  Life!LifeNext \/ UNCHANGED Life!lifeVars
  <2>1. stack # <<>> /\ Top.at = "opened"
    BY <1>4, AtFacts DEF OnFilePostOpenmedia
  <2>2. "opened" \in Jobs
    BY <2>1, TopFacts
  <2>3. load = "LOADING" /\ graph = current
    BY <2>2 DEF State, Stages, Settled, None
  <2>4. Life!Ready
    BY <1>4, <2>3 DEF OnFilePostOpenmedia, Life!Ready, Phase
  <2> QED
    BY <2>4 DEF Life!LifeNext
<1>5. ASSUME NEW b \in BOOLEAN, OnOpenMediaFailed(b)
      PROVE  Life!LifeNext \/ UNCHANGED Life!lifeVars
  <2>1. stack # <<>> /\ Top.at = "failed"
    BY <1>5, AtFacts DEF OnOpenMediaFailed
  <2>2. "failed" \in Jobs
    BY <2>1, TopFacts
  <2>3. load = "LOADING"
    BY <2>2 DEF State, Stages, None
  <2>4. Life!GiveUp
    BY <1>5, <2>3 DEF OnOpenMediaFailed, Life!GiveUp, Phase
  <2> QED
    BY <2>4 DEF Life!LifeNext
<1>6. ASSUME StopGraph
      PROVE  Life!LifeNext \/ UNCHANGED Life!lifeVars
  <2>1. stack # <<>> /\ Top.at = "stop"
    BY <1>6, AtFacts DEF StopGraph
  <2>2. "stop" \in Jobs
    BY <2>1, TopFacts
  <2>3. load \in {"LOADING", "LOADED", "FAILING"}
    BY <2>2 DEF State, Stages
  <2>4. Life!GiveUp \/ UNCHANGED Life!lifeVars
    BY <1>6, <2>3 DEF StopGraph, Life!GiveUp, Life!lifeVars, Phase
  <2> QED
    BY <2>4 DEF Life!LifeNext
<1>7. ASSUME ClosePrivate
      PROVE  Life!LifeNext \/ UNCHANGED Life!lifeVars
  <2>1. stack # <<>> /\ Top.at = "destroy"
    BY <1>7, AtFacts DEF ClosePrivate
  <2>2. "destroy" \in Jobs
    BY <2>1, TopFacts
  <2>3. load = "CLOSING"
    BY <2>2 DEF State, Stages, None
  <2>4. Life!Destroy
    BY <1>7, <2>3 DEF ClosePrivate, Life!Destroy, Phase
  <2> QED
    BY <2>4 DEF Life!LifeNext
<1>8. ASSUME OnFilePostClosemedia
      PROVE  Life!LifeNext \/ UNCHANGED Life!lifeVars
  <2>1. stack # <<>> /\ Top.at = "closed"
    BY <1>8, AtFacts DEF OnFilePostClosemedia
  <2>2. "closed" \in Jobs
    BY <2>1, TopFacts
  <2>3. load = "CLOSING" /\ graph = NoMedium
    BY <2>2 DEF State, Stages, Settled, None
  <2>4. Life!Close
    BY <1>8, <2>3 DEF OnFilePostClosemedia, Life!Close, Phase
  <2> QED
    BY <2>4 DEF Life!LifeNext
<1>9. ASSUME GtCreate
      PROVE  Life!LifeNext \/ UNCHANGED Life!lifeVars
  <2>1. load = "LOADING" /\ gt.id = current /\ graph = NoMedium
    BY <1>9 DEF GtCreate, GtAt, State, Serving, Building
  <2>2. UNCHANGED <<load, current>> /\ graph' \in {NoMedium, current}
    BY <1>9, <2>1 DEF GtCreate
  <2>3. Life!Build \/ UNCHANGED <<load, current, graph>>
    BY <2>1, <2>2 DEF Life!Build, Phase
  <2> QED
    BY <2>3, SameLife DEF Life!LifeNext
<1>10. ASSUME GtClose
      PROVE  Life!LifeNext \/ UNCHANGED Life!lifeVars
  <2>1. load = "CLOSING"
    BY <1>10 DEF GtClose, GtAt, State, Serving, Stages, None
  <2>2. Life!Destroy
    BY <1>10, <2>1 DEF GtClose, Life!Destroy, Phase
  <2> QED
    BY <2>2 DEF Life!LifeNext
<1>11. CASE UNCHANGED vars
  <2>1. UNCHANGED <<load, current, graph>>
    BY <1>11 DEF vars
  <2> QED
    BY <2>1, SameLife
<1> QED
  BY <1>1, <1>2, <1>3, <1>4, <1>5, <1>6, <1>7, <1>8, <1>9, <1>10, <1>11
     DEF Next, Outside, OpenStep, CloseStep, GtBuild, GtServe

\* The two threads implement the life of a medium: its graph is built once,
\* while it is being loaded and nothing else is there, by whichever thread;
\* it is open with its own graph only, and closed when the graph is gone.
THEOREM Implements == Spec => KeepsLife
<1>1. Init => Life!LifeInit
  BY DEF Init, Life!LifeInit, Phase
<1>2. ASSUME IInv, [Next]_vars
      PROVE  [Life!LifeNext \/ faults' # {}]_(Life!lifeVars)
  <2>1. CASE Sound'
    <3>1. Sound /\ TypeOK /\ Inv
      BY <1>2, <2>1, FaultsGrow DEF IInv, Inv
    <3> QED
      BY <1>2, <2>1, <3>1, LifeStep
  <2>2. CASE ~Sound'
    BY <2>2 DEF Sound
  <2> QED
    BY <2>1, <2>2
<1>3. IInv /\ [Next]_vars => [Life!LifeNext \/ faults' # {}]_(Life!lifeVars)
  BY <1>2
<1> QED
  BY <1>1, <1>3, Inductive, PTL DEF Spec, KeepsLife
=============================================================================
