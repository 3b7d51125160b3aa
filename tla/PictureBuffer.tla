--------------------------- MODULE PictureBuffer ---------------------------
(***************************************************************************)
(* What the queue of subtitle pictures promises to those who share it: a   *)
(* bounded buffer of end times, in time order.  It grows by one picture    *)
(* that ends after all of them, shrinks from the front when pictures are   *)
(* shown or skipped, and is cut at a time when they are invalidated.       *)
(***************************************************************************)
EXTENDS Integers, Sequences

CONSTANT Capacity

VARIABLE stops

Put(t) ==
    /\ Len(stops) < Capacity
    /\ \A i \in 1 .. Len(stops) : stops[i] < t
    /\ stops' = Append(stops, t)

TakeFront(n) ==
    /\ n \in 0 .. Len(stops)
    /\ stops' = SubSeq(stops, n + 1, Len(stops))

\* Exactly the pictures that end by t stay.
CutAt(t) ==
    \E n \in 0 .. Len(stops) :
        /\ \A i \in 1 .. Len(stops) : stops[i] <= t <=> i <= n
        /\ stops' = SubSeq(stops, 1, n)

Init == stops = <<>>

\* The times are bound by what the step does to the buffer.
Next ==
    \/ Len(stops') > 0 /\ Put(stops'[Len(stops')])
    \/ \E n \in 0 .. Len(stops) : TakeFront(n)
    \/ \E t \in {-1} \cup {stops[i] : i \in 1 .. Len(stops)} : CutAt(t)

Spec == Init /\ [][Next]_stops
=============================================================================
