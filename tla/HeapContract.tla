------------------------------ MODULE HeapContract ------------------------------
(***************************************************************************)
(* What the heap and the trap list promise, without a pointer: a pool is a *)
(* queue of free blocks, a request takes the block that has been free the  *)
(* longest from the first pool that has one large enough, and the traps    *)
(* are a sequence, each of which costs one block while it is registered.   *)
(***************************************************************************)
EXTENDS Naturals, Sequences

CONSTANTS
    Pools,      \* size classes, smallest first
    NodeClass,  \* the class of a list node
    Traps,
    FirstQueue  \* the free blocks of a new heap, per pool

VARIABLES
    queue,      \* the free blocks of a pool, longest free first
    used,       \* blocks in use
    traps       \* registered traps, in the order of their registration

InitC == queue = FirstQueue /\ used = {} /\ traps = <<>>

\* Taking a block for a request of class n.
Take(n) ==
    \E p \in Pools:
        /\ p >= n /\ queue[p] # <<>>
        /\ \A q \in Pools: n <= q /\ q < p => queue[q] = <<>>
        /\ queue' = [queue EXCEPT ![p] = Tail(@)]
        /\ used' = used \union {Head(queue[p])}

\* A block goes back to the end of the pool it came from.
Return(b) ==
    /\ used' = used \ {b}
    /\ \E p \in Pools:
        /\ \E i \in 1..Len(FirstQueue[p]): FirstQueue[p][i] = b
        /\ queue' = [queue EXCEPT ![p] = Append(@, b)]

AllocC == \E n \in Pools: Take(n) /\ UNCHANGED traps

FreeC == \E b \in used: Return(b) /\ UNCHANGED traps

RegisterC == \E t \in Traps: Take(NodeClass) /\ traps' = Append(traps, t)

RemoveC ==
    \E b \in used, i \in 1..Len(traps):
        /\ Return(b)
        /\ traps' = SubSeq(traps, 1, i - 1) \o SubSeq(traps, i + 1, Len(traps))

NextC == AllocC \/ FreeC \/ RegisterC \/ RemoveC

SpecC == InitC /\ [][NextC]_<<queue, used, traps>>
=============================================================================
