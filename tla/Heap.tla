---------------------------------- MODULE Heap ----------------------------------
(***************************************************************************)
(* Saturn's heap, the intrusive lists it is made of, and the list of       *)
(* memory traps, whose nodes are heap blocks.                              *)
(*                                                                         *)
(* A pool has two lists of elements, available and allocated; an element   *)
(* stands for one block of the pool.  A trap's node lies inside a block.   *)
(* The links of all nodes and the heads of all lists are one record, h, so *)
(* that an operation on a list is a function from h to h.                  *)
(*                                                                         *)
(* An operator whose name starts with Bug is not part of the model: it is  *)
(* the definition after it with a mistake the code could have, and shows   *)
(* that a property would notice.                                           *)
(***************************************************************************)
EXTENDS Integers, FiniteSets, Sequences

CONSTANTS
    NrPools,    \* pool16, pool32, ... pool4k
    HeapSize,   \* _heap_size, blocks the heap is given per pool
    PagePool,   \* _l3_tables, the length of the array behind the last pool
    NodeClass,  \* the smallest pool with room for a list node, pool32
    Traps,      \* MTrap objects
    Region,     \* their regions, [base, size] in bytes
    Addresses   \* guest physical addresses

Pools == 1 .. NrPools
Blocks == {b \in Pools \X (1 .. PagePool) : b[2] <= HeapSize \/ b[1] = NrPools}

ASSUME HeapSizes ==
    /\ NrPools \in Nat \ {0} /\ NodeClass \in Pools
    /\ HeapSize \in Nat \ {0} /\ PagePool \in Nat /\ PagePool >= HeapSize
ASSUME HeapRegions ==
    /\ Addresses \subseteq Nat /\ IsFiniteSet(Traps)
    /\ Region \in [Traps -> [base : Nat, size : Nat]]

\* "TBD: check if trap region to be added overlaps": registered regions do not, and
\* they start and end on doublewords.
Inside(t, a) == Region[t].base <= a /\ a < Region[t].base + Region[t].size
ASSUME HeapConfiguration ==
    \A t \in Traps:
        /\ Region[t].base % 8 = 0 /\ Region[t].size % 8 = 0
        /\ \A u \in Traps \ {t}, a \in Addresses: ~(Inside(t, a) /\ Inside(u, a))

VARIABLES
    h,          \* the lists
    held,       \* blocks that callers of new have and the trap list has not
    fault       \* a null pointer was written through: the hypervisor has stopped

vars == <<h, held, fault>>

Element(b) == [of |-> b, at |-> "element"]  \* in the pool's array
Data(b)    == [of |-> b, at |-> "data"]     \* in the block itself
Nodes      == [of : Blocks, at : {"element", "data"}]
NrNodes    == Cardinality(Nodes)
Null       == [of |-> <<0, 0>>, at |-> "null"]

Available(p) == <<"available", p>>
Allocated(p) == <<"allocated", p>>
TrapList     == <<"traps", 0>>
Lists == {Available(p) : p \in Pools} \union {Allocated(p) : p \in Pools} \union {TrapList}

-----------------------------------------------------------------------------
(* lib::List. *)

\* The nodes from the head on, as the loops over a list see them.
Walk(g, l) ==
    LET at[n \in 0 .. NrNodes] ==
            IF n = 0 THEN g.first[l]
            ELSE IF at[n - 1] = Null THEN Null ELSE g.next[at[n - 1]]
        length == CHOOSE n \in 0 .. NrNodes:
                      (at[n] = Null \/ n = NrNodes) /\ \A m \in 0 .. n - 1: at[m] # Null
    IN [i \in 1 .. length |-> at[i - 1]]

Value(g, e) == IF e.at = "element" THEN e.of ELSE g.trap[e.of]

Find(g, l, v) ==
    LET w == Walk(g, l)
        hits == {i \in DOMAIN w : Value(g, w[i]) = v}
    IN IF hits = {} THEN Null ELSE w[CHOOSE i \in hits: \A j \in hits: i <= j]

PushBack(g, l, e) ==
    LET old == g.last[l]
    IN [next  |-> [n \in Nodes |-> IF n = e THEN Null ELSE IF n = old THEN e ELSE g.next[n]],
        prev  |-> [g.prev EXCEPT ![e] = old],
        first |-> [g.first EXCEPT ![l] = IF @ = Null THEN e ELSE @],
        last  |-> [g.last EXCEPT ![l] = e],
        sz    |-> [g.sz EXCEPT ![l] = @ + 1],
        trap  |-> g.trap]

\* Only called for a list that is not empty; the list does not own its elements.
PopFront(g, l) ==
    LET e == g.first[l]
        n == g.next[e]
    IN [next  |-> [g.next EXCEPT ![e] = Null],
        prev  |-> [m \in Nodes |-> IF m = e THEN Null ELSE IF m = n THEN g.prev[e] ELSE g.prev[m]],
        first |-> [g.first EXCEPT ![l] = n],
        last  |-> [g.last EXCEPT ![l] = IF n = Null THEN Null ELSE @],
        sz    |-> [g.sz EXCEPT ![l] = @ - 1],
        trap  |-> g.trap]

BugUnlinkNoCount(g, l, p, n) ==
    [next  |-> [m \in Nodes |-> IF m = p THEN n ELSE g.next[m]],
     prev  |-> [m \in Nodes |-> IF m = n THEN p ELSE g.prev[m]],
     first |-> [g.first EXCEPT ![l] = IF p = Null THEN n ELSE @],
     last  |-> [g.last EXCEPT ![l] = IF n = Null THEN p ELSE @],
     sz    |-> g.sz,
     trap  |-> g.trap]

BugUnlinkKeepsLast(g, l, p, n) ==
    [next  |-> [m \in Nodes |-> IF m = p THEN n ELSE g.next[m]],
     prev  |-> [m \in Nodes |-> IF m = n THEN p ELSE g.prev[m]],
     first |-> [g.first EXCEPT ![l] = IF p = Null THEN n ELSE @],
     last  |-> g.last,
     sz    |-> [g.sz EXCEPT ![l] = @ - 1],
     trap  |-> g.trap]

\* The end of erase(): closing the gap between two nodes.
Unlink(g, l, p, n) ==
    [next  |-> [m \in Nodes |-> IF m = p THEN n ELSE g.next[m]],
     prev  |-> [m \in Nodes |-> IF m = n THEN p ELSE g.prev[m]],
     first |-> [g.first EXCEPT ![l] = IF p = Null THEN n ELSE @],
     last  |-> [g.last EXCEPT ![l] = IF n = Null THEN p ELSE @],
     sz    |-> [g.sz EXCEPT ![l] = @ - 1],
     trap  |-> g.trap]

\* erase() in a list that does not own its elements.
Erase(g, l, e) ==
    Unlink([g EXCEPT !.next[e] = Null, !.prev[e] = Null], l, g.prev[e], g.next[e])

-----------------------------------------------------------------------------
(* Data_Pool and Heap. *)

Get_Block(g, p) == PushBack(PopFront(g, Available(p)), Allocated(p), g.first[Available(p)])

BugFree_BlockFirst(g, p, b) ==
    LET e == Find(g, Allocated(p), b)
        i == Erase(g, Allocated(p), e)
        f == g.first[Available(p)]
    IN IF f = Null THEN PushBack(i, Available(p), e)
       ELSE [i EXCEPT !.first[Available(p)] = e, !.next[e] = f, !.prev[f] = e,
                      !.sz[Available(p)] = @ + 1]

Free_Block(g, p, b) ==
    LET e == Find(g, Allocated(p), b)
    IN PushBack(Erase(g, Allocated(p), e), Available(p), e)

\* Pools a request of class n may be served from, tried smallest first.
Candidates(g, n) == {p \in Pools : n <= p /\ g.sz[Available(p)] > 0}

FirstCandidate(g, n) == CHOOSE p \in Candidates(g, n): \A q \in Candidates(g, n): p <= q

\* What a freed block holds is nobody's any more: a node that was in it is lost.
Scrub(g, b) == [g EXCEPT !.next[Data(b)] = Null, !.prev[Data(b)] = Null, !.trap[b] = "none"]

\* Heap::Free: a block that no pool has allocated is ignored.
FreeIn(g, b) ==
    LET owners == {p \in Pools : Find(g, Allocated(p), b) # Null}
    IN IF owners = {} THEN g ELSE Scrub(Free_Block(g, CHOOSE p \in owners: TRUE, b), b)

-----------------------------------------------------------------------------
(***************************************************************************)
(* Data_Pools_Init: Pool_Init chains the whole array, and assign() takes   *)
(* the elements up to the one numbered HeapSize and cuts the chain there.  *)
(***************************************************************************)
Length(p) == IF p = NrPools THEN PagePool ELSE HeapSize

Init ==
    /\ h = [next |-> [n \in Nodes |->
                         IF n.at = "element" /\ n.of[2] \notin {HeapSize, Length(n.of[1])}
                         THEN Element(<<n.of[1], n.of[2] + 1>>) ELSE Null],
            prev |-> [n \in Nodes |->
                         IF n.at = "element" /\ n.of[2] > 1
                         THEN Element(<<n.of[1], n.of[2] - 1>>) ELSE Null],
            first |-> [l \in Lists |-> IF l[1] = "available" THEN Element(<<l[2], 1>>) ELSE Null],
            last |-> [l \in Lists |->
                         IF l[1] = "available" THEN Element(<<l[2], HeapSize>>) ELSE Null],
            sz |-> [l \in Lists |-> IF l[1] = "available" THEN HeapSize ELSE 0],
            trap |-> [b \in Blocks |-> "none"]]
    /\ held = {}
    /\ fault = FALSE

\* operator new for anything but a trap's node; a null result is the caller's business.
Alloc(n) ==
    /\ ~fault
    /\ IF Candidates(h, n) = {}
       THEN UNCHANGED vars
       ELSE LET p == FirstCandidate(h, n)
                b == h.first[Available(p)].of
            IN /\ h' = Get_Block(h, p)
               /\ held' = held \union {b}
               /\ UNCHANGED fault

\* operator delete.
Free(b) ==
    /\ ~fault
    /\ b \in held
    /\ h' = FreeIn(h, b)
    /\ held' = held \ {b}
    /\ UNCHANGED fault

Registered(t) == Find(h, TrapList, t) # Null

\* The constructor of MTrap: new Element and push_back, which does not look at the result.
Register_Trap_Region(t) ==
    /\ ~fault
    /\ ~Registered(t)
    /\ UNCHANGED held
    /\ IF Candidates(h, NodeClass) = {}
       THEN fault' = TRUE /\ UNCHANGED h
       ELSE LET p == FirstCandidate(h, NodeClass)
                b == h.first[Available(p)].of
                g == [Get_Block(h, p) EXCEPT !.trap[b] = t]
            IN h' = PushBack(g, TrapList, Data(b)) /\ UNCHANGED fault

BugRemove_Trap_RegionLeaks(t) ==
    /\ ~fault
    /\ Registered(t)
    /\ LET e == Find(h, TrapList, t)
       IN h' = Unlink(h, TrapList, h.prev[e], h.next[e])
    /\ UNCHANGED <<held, fault>>

\* The destructor: the node is deleted first, and its neighbours joined afterwards.
Remove_Trap_Region(t) ==
    /\ ~fault
    /\ Registered(t)
    /\ LET e == Find(h, TrapList, t)
       IN h' = Unlink(FreeIn(h, e.of), TrapList, h.prev[e], h.next[e])
    /\ UNCHANGED <<held, fault>>

Halted == fault /\ UNCHANGED vars

Next ==
    \/ \E n \in Pools: Alloc(n)
    \/ \E b \in Blocks: Free(b)
    \/ \E t \in Traps: Register_Trap_Region(t) \/ Remove_Trap_Region(t)
    \/ Halted

Spec == Init /\ [][Next]_vars

-----------------------------------------------------------------------------
(* The dispatch of a guest's access of 2^sas bytes. *)

Bytes == [sas \in 0 .. 3 |-> <<1, 2, 4, 8>>[sas + 1]]

BugInRangeExclusive(t, a, n) ==
    a >= Region[t].base /\ a + n < Region[t].base + Region[t].size

InRange(t, a, n) == a >= Region[t].base /\ a + n <= Region[t].base + Region[t].size

\* Do_Memory_Trap passes the encoding of the size plus one, not the size.
Find_Trap_Node(list, a, sas) ==
    LET hits == {i \in DOMAIN list : InRange(list[i], a, sas + 1)}
    IN IF hits = {} THEN "none" ELSE list[CHOOSE i \in hits: \A j \in hits: i <= j]

RegisteredTraps ==
    [i \in DOMAIN Walk(h, TrapList) |-> Value(h, Walk(h, TrapList)[i])]

-----------------------------------------------------------------------------
Links == Nodes \union {Null}

TypeOK ==
    /\ h \in [next : [Nodes -> Links], prev : [Nodes -> Links],
              first : [Lists -> Links], last : [Lists -> Links],
              sz : [Lists -> Nat],
              trap : [Blocks -> Traps \union {"none"}]]
    /\ \A l \in Lists: h.sz[l] <= IF l = TrapList THEN Cardinality(Traps) ELSE HeapSize
    /\ held \subseteq Blocks
    /\ fault \in BOOLEAN

On(l) == LET w == Walk(h, l) IN {w[i] : i \in DOMAIN w}

ListsWellFormed ==
    LET on == [l \in Lists |-> On(l)]
    IN \A l \in Lists:
           LET w == Walk(h, l)
               n == Len(w)
           IN /\ h.sz[l] = n
              /\ h.last[l] = IF n = 0 THEN Null ELSE w[n]
              /\ n > 0 => h.prev[w[1]] = Null /\ h.next[w[n]] = Null
              /\ \A i \in 2 .. n: h.prev[w[i]] = w[i - 1]
              /\ \A k \in Lists \ {l}: on[l] \intersect on[k] = {}

TrapBlocks == {e.of : e \in On(TrapList)}

BlocksConserved ==
    LET nodes == TrapBlocks
    IN \A p \in Pools:
           LET available == On(Available(p))
               allocated == On(Allocated(p))
           IN \A i \in 1 .. HeapSize:
                  LET b == <<p, i>>
                  IN /\ Element(b) \in available <=> b \notin held \union nodes
                     /\ Element(b) \in allocated <=> b \in held \union nodes
                     /\ b \notin held \intersect nodes

FaultMeansExhausted ==
    fault => \A p \in Pools: p >= NodeClass =>
                 \A i \in 1 .. HeapSize: <<p, i>> \in held \union TrapBlocks

\* After any sequence of allocations, releases and trap changes every list can be walked in
\* both directions and ends where its head says, and no node is on two lists; a block is
\* free, held by one caller, or a trap's node, and its pool's lists say the same: nothing
\* leaks and nothing is given out twice; and registering a trap only goes wrong when no
\* block of any pool is large enough.
BlocksAccounted == ListsWellFormed /\ BlocksConserved /\ FaultMeansExhausted

\* An aligned access to a registered device's region reaches that device, whatever was
\* registered and removed before it, and any other access reaches none.
TrapDispatch ==
    LET list == RegisteredTraps
        covering == [a \in Addresses |-> {list[i] : i \in {j \in DOMAIN list : Inside(list[j], a)}}]
    IN \A a \in Addresses, sas \in 0 .. 3:
           a % Bytes[sas] = 0 =>
               IF covering[a] = {} THEN Find_Trap_Node(list, a, sas) = "none"
               ELSE Find_Trap_Node(list, a, sas) \in covering[a]

\* Nobody writes into a block that somebody else holds: the trap list keeps no pointer to a
\* node it has freed.
NoWriteAfterFree ==
    [][\A b \in held:
           /\ h'.next[Data(b)] = h.next[Data(b)]
           /\ h'.prev[Data(b)] = h.prev[Data(b)]
           /\ h'.trap[b] = h.trap[b]]_vars

AllBlocks   == [p \in Pools |-> [i \in 1 .. HeapSize |-> <<p, i>>]]
FreeBlocks  == [p \in Pools |->
                   LET w == Walk(h, Available(p)) IN [i \in DOMAIN w |-> w[i].of]]
TakenBlocks == UNION {{e.of : e \in On(Allocated(p))} : p \in Pools}

Contract ==
    INSTANCE HeapContract WITH
        FirstQueue <- AllBlocks, queue <- FreeBlocks, used <- TakenBlocks,
        traps <- RegisteredTraps

\* The lists implement queues of blocks and a sequence of traps.
ContractSpec == Contract!SpecC
=============================================================================
