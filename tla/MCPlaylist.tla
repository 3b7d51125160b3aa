------------------------------ MODULE MCPlaylist ------------------------------
(***************************************************************************)
(* A small instance of Playlist.  POSITIONs are interchangeable.           *)
(***************************************************************************)
EXTENDS Playlist, TLC
NodeSymmetry == Permutations(Nodes)
=============================================================================
