----------------------------- MODULE MCBaseMuxer -----------------------------
(***************************************************************************)
(* Small instances of BaseMuxer: samples of the times 0 and 1, of which    *)
(* one without a time stands for all of those, which are given out at once *)
(* whether they are sync points or not.                                    *)
(***************************************************************************)
EXTENDS BaseMuxer

MCTimes == 0..1
MCSamples ==
    {[sync |-> TRUE, time |-> t] : t \in MCTimes \cup {NoTime}}
=============================================================================
