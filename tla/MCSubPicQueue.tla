--------------------------- MODULE MCSubPicQueue ---------------------------
(***************************************************************************)
(* Small instances of SubPicQueue.  A frame lasts 4 units, so that a       *)
(* quarter of a sub-frame is one unit.                                     *)
(***************************************************************************)
EXTENDS SubPicQueue

Plain(a, b) == [start |-> a, stop |-> b, anim |-> FALSE]
Moving(a, b) == [start |-> a, stop |-> b, anim |-> TRUE]

\* Lines, an animated line, and a line of unknown end.
TwoLines == <<Plain(0, 4), Plain(6, 10)>>
Karaoke == <<Plain(0, 4), Moving(4, 10)>>
OpenEnded == <<Plain(0, 4), Plain(5, UnknownTime)>>

CoreTimelines == {Karaoke, OpenEnded}
EditTimelines == {TwoLines, Karaoke}
KaraokeOnly == {Karaoke}
FilmRate == {[frame |-> 4, sub |-> 4]}
TwoRates == FilmRate \cup {[frame |-> 2, sub |-> 3]}
=============================================================================
