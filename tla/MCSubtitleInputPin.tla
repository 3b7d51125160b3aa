------------------------- MODULE MCSubtitleInputPin -------------------------
(***************************************************************************)
(* A small instance of SubtitleInputPin.                                   *)
(***************************************************************************)
EXTENDS SubtitleInputPin

TwoTimes == {1, 2}
=============================================================================
