-------------------------------- MODULE RingBuffer --------------------------------
(***************************************************************************)
(* RingBuffer<T, S>, and its two instances in the console.                 *)
(*                                                                         *)
(* txBuffer (full_overwrite) keeps messages until the UART is registered;  *)
(* nothing interrupts its use.  rxBuffer (full_ignore) takes keys from the *)
(* UART's interrupt handler, and the command line takes them out with      *)
(* interrupts enabled: an In can come between any two steps of an Out,     *)
(* also between the load and the store of "fill--", which the unoptimised  *)
(* build compiles to separate instructions.                                *)
(*                                                                         *)
(* Elements are numbered in the order they are put in.  An operator whose  *)
(* name starts with Bug is not part of the model: it is the definition     *)
(* after it with a mistake the code could have.                            *)
(***************************************************************************)
EXTENDS Integers, FiniteSets, Sequences

CONSTANTS
    Size,       \* S
    MaxItems    \* bound: elements ever put in

ASSUME RingSizes == Size \in Nat \ {0} /\ MaxItems \in Nat

Slots == 0 .. Size - 1
Items == 1 .. MaxItems
Unwritten == 0

VARIABLES
    instance,   \* "txBuffer" or "rxBuffer"
    buffer, head, tail, fill,
    pc,         \* the place in Out, "idle" outside
    element,    \* what Out has read
    loaded,     \* the value of fill that Out has loaded
    \* history
    puts,       \* elements offered to In
    unread,     \* slots written and not yet read
    got,        \* what Out has returned
    raced       \* an In came between the load and the store of an Out

ring == <<buffer, head, tail, fill>>
vars == <<instance, ring, pc, element, loaded, puts, unread, got, raced>>

Policy == IF instance = "txBuffer" THEN "full_overwrite" ELSE "full_ignore"

Init ==
    /\ instance \in {"txBuffer", "rxBuffer"}
    /\ buffer = [s \in Slots |-> Unwritten]
    /\ head = 0 /\ tail = 0 /\ fill = 0
    /\ pc = "idle" /\ element = Unwritten /\ loaded = 0
    /\ puts = 0 /\ unread = {} /\ got = <<>> /\ raced = FALSE

-----------------------------------------------------------------------------
Advance(s) == (s + 1) % Size

Write ==
    /\ buffer' = [buffer EXCEPT ![head] = puts + 1]
    /\ head' = Advance(head)
    /\ unread' = unread \union {head}

BugInKeepsTail ==
    /\ puts < MaxItems
    /\ instance = "txBuffer" => pc = "idle"
    /\ puts' = puts + 1
    /\ raced' = (raced \/ pc = "store")
    /\ \/ fill < Size /\ Write /\ fill' = fill + 1 /\ UNCHANGED tail
       \/ fill = Size /\ Policy = "full_overwrite" /\ Write /\ UNCHANGED <<tail, fill>>
       \/ fill = Size /\ Policy = "full_ignore" /\ UNCHANGED <<ring, unread>>
    /\ UNCHANGED <<instance, pc, element, loaded, got>>

BugInOneMore ==
    /\ puts < MaxItems
    /\ instance = "txBuffer" => pc = "idle"
    /\ puts' = puts + 1
    /\ raced' = (raced \/ pc = "store")
    /\ \/ fill <= Size /\ Write /\ fill' = fill + 1 /\ UNCHANGED tail
       \/ fill > Size /\ UNCHANGED <<ring, unread>>
    /\ UNCHANGED <<instance, pc, element, loaded, got>>

\* In runs to its end: in the interrupt handler for rxBuffer, uninterrupted for txBuffer.
In ==
    /\ puts < MaxItems
    /\ instance = "txBuffer" => pc = "idle"
    /\ puts' = puts + 1
    /\ raced' = (raced \/ pc = "store")
    /\ \/ fill < Size /\ Write /\ fill' = fill + 1 /\ UNCHANGED tail
       \/ /\ fill = Size /\ Policy = "full_overwrite"
          /\ Write /\ tail' = Advance(tail) /\ UNCHANGED fill
       \/ fill = Size /\ Policy = "full_ignore" /\ UNCHANGED <<ring, unread>>
    /\ UNCHANGED <<instance, pc, element, loaded, got>>

BugOutTestEmpty ==
    /\ pc = "idle" /\ puts > 0
    /\ pc' = "read"
    /\ UNCHANGED <<instance, ring, element, loaded, puts, unread, got, raced>>

BugOutTestKeepsOne ==
    /\ pc = "idle" /\ fill > 1
    /\ pc' = "read"
    /\ UNCHANGED <<instance, ring, element, loaded, puts, unread, got, raced>>

\* An Out that finds nothing returns false and changes nothing.
OutTest ==
    /\ pc = "idle" /\ fill # 0
    /\ pc' = "read"
    /\ UNCHANGED <<instance, ring, element, loaded, puts, unread, got, raced>>

OutRead ==
    /\ pc = "read"
    /\ element' = buffer[tail]
    /\ unread' = unread \ {tail}
    /\ pc' = "tail"
    /\ UNCHANGED <<instance, ring, loaded, puts, got, raced>>

BugOutTailStays ==
    /\ pc = "tail"
    /\ pc' = "load"
    /\ UNCHANGED <<instance, ring, element, loaded, puts, unread, got, raced>>

OutTail ==
    /\ pc = "tail"
    /\ tail' = Advance(tail)
    /\ pc' = "load"
    /\ UNCHANGED <<instance, buffer, head, fill, element, loaded, puts, unread, got, raced>>

OutLoad ==
    /\ pc = "load"
    /\ loaded' = fill
    /\ pc' = "store"
    /\ UNCHANGED <<instance, ring, element, puts, unread, got, raced>>

OutStore ==
    /\ pc = "store"
    /\ fill' = loaded - 1
    /\ got' = Append(got, element)
    /\ pc' = "idle" /\ element' = Unwritten /\ loaded' = 0
    /\ UNCHANGED <<instance, buffer, head, tail, puts, unread, raced>>

Next == In \/ OutTest \/ OutRead \/ OutTail \/ OutLoad \/ OutStore

\* GetChar asks again until there is a key, RegisterUart until there is no message, and an
\* interrupt handler gives the processor back.
Fairness == WF_vars(OutTest \/ OutRead \/ OutTail \/ OutLoad \/ OutStore)

Spec == Init /\ [][Next]_vars /\ Fairness

-----------------------------------------------------------------------------
TypeOK ==
    /\ instance \in {"txBuffer", "rxBuffer"}
    /\ buffer \in [Slots -> Items \union {Unwritten}]
    /\ head \in Slots /\ tail \in Slots
    /\ fill \in 0 .. Size
    /\ pc \in {"idle", "read", "tail", "load", "store"}
    /\ element \in Items \union {Unwritten}
    /\ loaded \in 0 .. Size
    /\ puts \in 0 .. MaxItems
    /\ unread \subseteq Slots
    /\ got \in Seq(Items \union {Unwritten})
    /\ raced \in BOOLEAN

\* However In and Out interleave, what Out returns was put in at some time: no read of a slot
\* never written, and no count that wraps below zero (TypeOK) and lets Out run on.
NothingInvented == \A i \in DOMAIN got: got[i] \in 1 .. puts

\* The count is the number of unread slots, and keys come out in the order they were typed,
\* each once, until an In hits the one window of Out that is not safe: an In between any
\* other two steps of Out does no harm.
Counted == fill = Cardinality(unread) + (IF pc \in {"tail", "load", "store"} THEN 1 ELSE 0)
SafeUntilRace ==
    ~raced => Counted /\ \A i, j \in DOMAIN got: i < j => got[i] < got[j]

\* A key in the buffer is read, or the race has made its slot invisible.
KeyIsRead ==
    \A n \in Items:
        (\E s \in unread: buffer[s] = n) ~>
            (n \in {got[i] : i \in DOMAIN got} \/ raced \/ ~\E s \in Slots: buffer[s] = n)

\* The uninterrupted instance is a queue; Out takes effect when fill is stored.
SlotOf(i) == (head + Size * 2 - fill + i - 1) % Size
Messages  == IF instance = "txBuffer" THEN [i \in 1 .. fill |-> buffer[SlotOf(i)]] ELSE <<>>
Returned  == IF instance = "txBuffer" THEN got ELSE <<>>

Queue == INSTANCE QueueContract WITH queue <- Messages, taken <- Returned

\* Early console messages come out in order, the newest Size of them.
QueueSpec == Queue!SpecQ
=============================================================================
