----------------------------- MODULE MCSplitter -----------------------------
(***************************************************************************)
(* Small instances of Splitter.  The configurations give the numbers of    *)
(* pins, packets, starts, seeks and stops.                                 *)
(***************************************************************************)
EXTENDS Splitter
=============================================================================
