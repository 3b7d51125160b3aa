------------------------------- MODULE Playlist -------------------------------
(***************************************************************************)
(* The playlist, src/src/mpc-hc/Playlist.cpp (CPlaylist), and how its      *)
(* window moves through it, src/src/mpc-hc/PlayerPlaylistBar.cpp.          *)
(*                                                                         *)
(* CPlaylist is a linked list whose nodes, the POSITIONs, are allocated    *)
(* and freed as items come and go.  When shuffle is on, a second chain of  *)
(* POSITIONs runs through the items.  It is not kept up to date when items *)
(* are added: that the numbers of items differ tells the next use of the   *)
(* chain that it has to be made anew.                                      *)
(*                                                                         *)
(* Everything runs on the thread of the main window, one call after the    *)
(* other.  An item is its POSITION; all there is to an item is whether it  *)
(* is marked as invalid, that is, could not be opened.                     *)
(***************************************************************************)
EXTENDS Integers, Sequences, FiniteSets, Functions

CONSTANTS
    Nodes,  \* POSITIONs
    Null,   \* nullptr
    MaxLen  \* bound: items in the list

ASSUME NodesAssumption == IsFiniteSet(Nodes) /\ Null \notin Nodes
ASSUME BoundAssumption == MaxLen \in Nat

VARIABLES
    order,     \* the list
    chain,     \* the shuffled order: next and previous item of each, head, tail
               \* and the number of items it was made for
    m_bShuffle,
    m_pos,     \* the current item
    invalid,   \* the items marked as invalid
    pending,   \* history: items came since the chain was made
    lost       \* history: a call used a POSITION that is not in the list

vars == <<order, chain, m_bShuffle, m_pos, invalid, pending, lost>>

Items == Range(order)
Count == Len(order)
Links == [Nodes -> Nodes \cup {Null}]
Chains == [next : Links, prev : Links, head : Nodes \cup {Null},
           tail : Nodes \cup {Null}, size : 0..MaxLen]

\* The lists that consist of the same items.
Orders(s) == {o \in [DOMAIN s -> Range(s)] : Range(o) = Range(s)}

\* The links left in the items are never read again.
NoChain == [next |-> [p \in Nodes |-> Null], prev |-> [p \in Nodes |-> Null],
            head |-> Null, tail |-> Null, size |-> 0]

-----------------------------------------------------------------------------
(* The chain. *)

\* SetShuffle(true): link the items in a random order.
Linked(o, c) ==
    LET at(p) == CHOOSE i \in 1..Len(o) : o[i] = p
    IN  [next |-> [p \in Nodes |->
                     IF p \notin Range(o) THEN c.next[p]
                     ELSE IF at(p) = Len(o) THEN Null ELSE o[at(p) + 1]],
         prev |-> [p \in Nodes |->
                     IF p \notin Range(o) THEN c.prev[p]
                     ELSE IF at(p) = 1 THEN Null ELSE o[at(p) - 1]],
         head |-> o[1], tail |-> o[Len(o)], size |-> Len(o)]

Fresh == chain.size = Count

\* ReshuffleIfNeeded: the chain and whether items are missing from it.
Reshuffles == IF m_bShuffle /\ ~Fresh THEN Orders(order) ELSE {order}
Refreshed(o) ==
    IF m_bShuffle /\ ~Fresh
    THEN IF order = <<>> THEN NoChain ELSE Linked(o, chain)
    ELSE chain
ReshuffleIfNeeded(o) ==
    /\ chain' = Refreshed(o)
    /\ pending' = (pending /\ ~(m_bShuffle /\ ~Fresh))

-----------------------------------------------------------------------------
(* Moving through the list. *)

IndexOf(p) == CHOOSE i \in 1..Count : order[i] = p

\* Mutant of NextWrap: the end of the chain leads to the head of the list.
NextHead(c, p) ==
    IF m_bShuffle THEN IF c.next[p] = Null THEN order[1] ELSE c.next[p]
    ELSE order[(IndexOf(p) % Count) + 1]

\* GetNextWrap and GetPrevWrap, with the chain c.
NextWrap(c, p) ==
    IF m_bShuffle THEN IF c.next[p] = Null THEN c.head ELSE c.next[p]
    ELSE order[(IndexOf(p) % Count) + 1]
PrevWrap(c, p) ==
    IF m_bShuffle THEN IF c.prev[p] = Null THEN c.tail ELSE c.prev[p]
    ELSE order[((IndexOf(p) + Count - 2) % Count) + 1]

\* The items that a loop of calls of GetNextWrap ("next") or GetPrevWrap passes;
\* Null once it has left the list.
Walk(way, c, org) ==
    LET walk[n \in 0..Cardinality(Nodes) + 1] ==
            IF n = 0 THEN org
            ELSE IF walk[n - 1] \notin Items THEN Null
            ELSE IF way = "next" THEN NextWrap(c, walk[n - 1])
            ELSE PrevWrap(c, walk[n - 1])
    IN  walk

\* The loop ends at the first item that is not invalid or that it began with.
Ends(walk, org) ==
    {n \in 1..Cardinality(Nodes) + 1 :
        walk[n] \notin Items \/ walk[n] \notin invalid \/ walk[n] = org}
Stop(walk, org) ==
    IF Ends(walk, org) = {} THEN Null
    ELSE walk[CHOOSE n \in Ends(walk, org) :
                  \A m \in Ends(walk, org) : n <= m]

\* A loop that has left the list, or never ends, is the end of what is modelled.
Go(pos) ==
    IF pos \in Items THEN m_pos' = pos /\ UNCHANGED lost
    ELSE lost' = TRUE /\ UNCHANGED m_pos

\* Where a move begins, with the chain c.
Origin(from, c) ==
    CASE from = "current"      -> m_pos
      [] from = "first"        -> order[1]
      [] from = "last"         -> order[Count]
      [] from = "last in play" -> IF m_bShuffle THEN c.tail ELSE order[Count]

Move(way, from) ==
    /\ order # <<>>
    /\ \E o \in Reshuffles :
          /\ ReshuffleIfNeeded(o)
          /\ LET org == Origin(from, Refreshed(o))
             IN  Go(Stop(Walk(way, Refreshed(o), org), org))
    /\ UNCHANGED <<order, m_bShuffle, invalid>>

\* The callers have an item that is current.
SetNext == m_pos # Null /\ Move("next", "current")
SetPrev == m_pos # Null /\ Move("previous", "current")
SetFirst == Move("next", "last")
SetLast == Move("previous", "first")

\* Without a selection the window begins with the first item in play order.
SetFirstSelected == Move("next", "last in play")

\* IsAtEnd makes the chain anew like every use of it.
IsAtEnd ==
    /\ \E o \in Reshuffles : ReshuffleIfNeeded(o)
    /\ UNCHANGED <<order, m_bShuffle, m_pos, invalid, lost>>

-----------------------------------------------------------------------------
(* Changes of the list. *)

\* AddTail, AddHead, InsertBefore and InsertAfter: a new item goes anywhere.
Insert(p, i) ==
    /\ Count < MaxLen
    /\ p \notin Items /\ i \in 0..Count
    /\ order' = SubSeq(order, 1, i) \o <<p>> \o SubSeq(order, i + 1, Count)
    /\ chain' = [chain EXCEPT !.next[p] = Null, !.prev[p] = Null]
    /\ pending' = TRUE
    /\ UNCHANGED <<m_bShuffle, m_pos, invalid, lost>>

\* CList::RemoveAt: the k-th item goes.
Without(o, k) == SubSeq(o, 1, k - 1) \o SubSeq(o, k + 1, Len(o))

\* What RemoveAt writes when it unlinks an item, Null standing for a write
\* through nullptr or into a freed node.
Written(p) ==
    (IF p = chain.head THEN {} ELSE {chain.prev[p]})
        \cup (IF p = chain.tail THEN {} ELSE {chain.next[p]})

\* Mutant of Unlinked: the tail stays.
UnlinkedNotTail(p) ==
    LET n == chain.next[p]
        q == chain.prev[p]
    IN  [next |-> IF p = chain.head THEN chain.next ELSE [chain.next EXCEPT ![q] = n],
         prev |-> IF p = chain.tail THEN chain.prev ELSE [chain.prev EXCEPT ![n] = q],
         head |-> IF p = chain.head THEN n ELSE chain.head,
         tail |-> chain.tail,
         size |-> chain.size - 1]

Unlinked(p) ==
    LET n == chain.next[p]
        q == chain.prev[p]
    IN  [next |-> IF p = chain.head THEN chain.next ELSE [chain.next EXCEPT ![q] = n],
         prev |-> IF p = chain.tail THEN chain.prev ELSE [chain.prev EXCEPT ![n] = q],
         head |-> IF p = chain.head THEN n ELSE chain.head,
         tail |-> IF p = chain.tail THEN q ELSE chain.tail,
         size |-> chain.size - 1]

\* Mutant of RemoveAt: the removed item stays the current one.
RemoveButCurrent(p) ==
    /\ p \in Items
    /\ order' = Without(order, IndexOf(p))
    /\ chain' = IF m_bShuffle /\ Fresh /\ Written(p) \subseteq Items
                THEN Unlinked(p) ELSE chain
    /\ invalid' = invalid \ {p}
    /\ UNCHANGED <<m_bShuffle, m_pos, pending, lost>>

\* The playlist bar closes the medium when its item is removed.
RemoveAt(p) ==
    /\ p \in Items
    /\ order' = Without(order, IndexOf(p))
    /\ chain' = IF ~(m_bShuffle /\ Fresh) THEN chain
                ELSE IF Written(p) \subseteq Items THEN Unlinked(p)
                ELSE [chain EXCEPT !.size = @ - 1]
    /\ lost' = (m_bShuffle /\ Fresh /\ ~(Written(p) \subseteq Items))
    /\ m_pos' = IF m_pos = p THEN Null ELSE m_pos
    /\ invalid' = invalid \ {p}
    /\ UNCHANGED <<m_bShuffle, pending>>

RemoveAll ==
    /\ order # <<>>
    /\ order' = <<>>
    /\ chain' = NoChain
    /\ m_pos' = Null
    /\ invalid' = {}
    /\ pending' = FALSE
    /\ UNCHANGED <<m_bShuffle, lost>>

\* SortById, SortByName, SortByPath, Randomize and DropItemOnList.
Reorder ==
    /\ order' \in Orders(order)
    /\ UNCHANGED <<chain, m_bShuffle, m_pos, invalid, pending, lost>>

\* Also called to shuffle again.
SetShuffle(enable) ==
    /\ m_bShuffle' = enable
    /\ IF enable /\ order # <<>>
       THEN \E o \in Orders(order) : chain' = Linked(o, chain)
       ELSE chain' = NoChain
    /\ pending' = FALSE
    /\ UNCHANGED <<order, m_pos, invalid, lost>>

\* A double click, a file found in the list, the item of a device.
SetPos(p) ==
    /\ p \in Items
    /\ m_pos' = p
    /\ UNCHANGED <<order, chain, m_bShuffle, invalid, pending, lost>>

\* The medium was opened, or could not be.
SetCurValid(valid) ==
    /\ m_pos # Null
    /\ invalid' = IF valid THEN invalid \ {m_pos} ELSE invalid \cup {m_pos}
    /\ UNCHANGED <<order, chain, m_bShuffle, m_pos, pending, lost>>

-----------------------------------------------------------------------------

Init ==
    /\ order = <<>>
    /\ chain = NoChain
    /\ m_bShuffle \in BOOLEAN
    /\ m_pos = Null
    /\ invalid = {}
    /\ pending = FALSE /\ lost = FALSE

Edit ==
    \/ \E p \in Nodes : (\E i \in 0..MaxLen : Insert(p, i)) \/ RemoveAt(p)
    \/ RemoveAll \/ Reorder
    \/ \E b \in BOOLEAN : SetShuffle(b)

Play ==
    \/ SetNext \/ SetPrev \/ SetFirst \/ SetLast \/ SetFirstSelected \/ IsAtEnd
    \/ \E p \in Nodes : SetPos(p)
    \/ \E b \in BOOLEAN : SetCurValid(b)

Next == ~lost /\ (Edit \/ Play)

Spec == Init /\ [][Next]_vars

-----------------------------------------------------------------------------

TypeOK ==
    /\ order \in Seq(Nodes) /\ Count <= MaxLen
    /\ Cardinality(Items) = Count
    /\ chain \in Chains
    /\ m_bShuffle \in BOOLEAN
    /\ m_pos \in Items \cup {Null}
    /\ invalid \subseteq Items
    /\ pending \in BOOLEAN /\ lost \in BOOLEAN

\* c links the items in the order o.
IsChain(o, c) ==
    /\ c.size = Len(o)
    /\ IF o = <<>> THEN c.head = Null /\ c.tail = Null
       ELSE /\ c.head = o[1] /\ c.tail = o[Len(o)]
            /\ \A i \in DOMAIN o :
                  /\ c.next[o[i]] = IF i = Len(o) THEN Null ELSE o[i + 1]
                  /\ c.prev[o[i]] = IF i = 1 THEN Null ELSE o[i - 1]

\* Items are missing from the chain and nothing tells.
Masked == m_bShuffle /\ pending /\ Fresh

\* Unless items are missing and nothing tells, a chain that counts as up to
\* date runs through every item of the list once and through nothing else, and
\* no call follows a POSITION out of the list: through any sequence of items
\* added, removed, moved and shuffled, with POSITIONs used again.
ChainKept ==
    ~Masked =>
        /\ ~lost
        /\ m_bShuffle /\ Fresh => \E o \in Orders(order) : IsChain(o, chain)

InStep == m_bShuffle => Fresh /\ ~pending
PlayOrder ==
    IF m_bShuffle THEN CHOOSE o \in Orders(order) : IsChain(o, chain) ELSE order

\* The first of the items after the i-th of o, back to it, that can be played.
FirstPlayable(o, i, step) ==
    LET at(k) == o[((i - 1 + k * step) % Len(o)) + 1]
        n == CHOOSE k \in 1..Len(o) :
                /\ at(k) \notin invalid \/ k = Len(o)
                /\ \A j \in 1..k - 1 : at(j) \in invalid
    IN  at(n)

\* Next and previous end, and at the first item that can be played in the
\* order of play or against it; without one, where they began.
NavigationFinds ==
    InStep =>
        \A i \in DOMAIN PlayOrder :
            LET p == PlayOrder[i]
            IN  /\ Stop(Walk("next", chain, p), p) = FirstPlayable(PlayOrder, i, 1)
                /\ Stop(Walk("previous", chain, p), p)
                       = FirstPlayable(PlayOrder, i, Len(PlayOrder) - 1)

\* "Update the shuffled list only if there is no pending reshuffle", which is
\* taken for the sizes being the same: a chain of the same size as the list
\* consists of its items.
SizesTell == m_bShuffle /\ Fresh => \E o \in Orders(order) : IsChain(o, chain)
=============================================================================
