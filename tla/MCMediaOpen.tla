----------------------------- MODULE MCMediaOpen -----------------------------
(***************************************************************************)
(* Small instances of MediaOpen.  The configurations give the numbers of   *)
(* media and of calls made from within another call.                       *)
(***************************************************************************)
EXTENDS MediaOpen
=============================================================================
