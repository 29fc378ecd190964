------------------------------ MODULE QueueContract ------------------------------
(***************************************************************************)
(* A bounded queue that, when it is full, forgets its oldest element to    *)
(* make room for a new one: what the console keeps of the messages written *)
(* before there is a UART.                                                 *)
(***************************************************************************)
EXTENDS Naturals, Sequences

CONSTANTS Size, Items

VARIABLES
    queue,      \* the elements, oldest first
    taken       \* the elements taken out, in order

InitQ == queue = <<>> /\ taken = <<>>

Put(e) ==
    /\ queue' = IF Len(queue) < Size THEN Append(queue, e) ELSE Append(Tail(queue), e)
    /\ UNCHANGED taken

TakeFirst ==
    /\ queue # <<>>
    /\ queue' = Tail(queue)
    /\ taken' = Append(taken, Head(queue))

NextQ == (\E e \in Items: Put(e)) \/ TakeFirst

SpecQ == InitQ /\ [][NextQ]_<<queue, taken>>
=============================================================================
