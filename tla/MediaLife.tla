------------------------------ MODULE MediaLife ------------------------------
(***************************************************************************)
(* What the player promises of a medium, whatever threads do the work: it  *)
(* is opened only when nothing is, its graph is built once while it is     *)
(* being opened, it is open only with its own graph, and the graph is gone *)
(* before the next medium is opened.                                       *)
(***************************************************************************)
EXTENDS Integers

CONSTANTS
    Media,   \* the media that can be opened
    NoMedium \* no medium, which is none of them

VARIABLES
    phase,  \* "closed", "opening", "open" or "closing"
    medium, \* the last medium opened
    graph   \* the medium a graph exists for

lifeVars == <<phase, medium, graph>>

LifeInit == phase = "closed" /\ medium = NoMedium /\ graph = NoMedium

Begin(m) ==
    /\ phase = "closed" /\ m # medium
    /\ phase' = "opening" /\ medium' = m
    /\ UNCHANGED graph

Build ==
    /\ phase = "opening" /\ graph = NoMedium
    /\ graph' = medium
    /\ UNCHANGED <<phase, medium>>

Ready ==
    /\ phase = "opening" /\ graph = medium
    /\ phase' = "open"
    /\ UNCHANGED <<medium, graph>>

\* The opening failed or was aborted, or the open medium is closed.
GiveUp ==
    /\ phase \in {"opening", "open"}
    /\ phase' = "closing"
    /\ UNCHANGED <<medium, graph>>

Destroy ==
    /\ phase = "closing"
    /\ graph' = NoMedium
    /\ UNCHANGED <<phase, medium>>

Close ==
    /\ phase = "closing" /\ graph = NoMedium
    /\ phase' = "closed"
    /\ UNCHANGED <<medium, graph>>

LifeNext ==
    (\E m \in Media : Begin(m)) \/ Build \/ Ready \/ GiveUp \/ Destroy \/ Close

LifeSpec == LifeInit /\ [][LifeNext]_lifeVars
=============================================================================
