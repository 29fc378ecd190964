---------------------------- MODULE RingBuffer_proofs ----------------------------
(***************************************************************************)
(* The ring buffer for every size, however In interrupts Out: the count    *)
(* never leaves 0 .. Size although the race makes it wrong (TypeCorrect),  *)
(* no slot is read that was never written (ReadsOnlyWritten), and without  *)
(* the race it is a queue (SafeOutsideWindow).                             *)
(*                                                                         *)
(* None of these is inductive.  OutStore subtracts one from the count it   *)
(* has loaded, which is safe because Out has seen a count that is not 0    *)
(* and an In only ever raises it (CountSeen).  For the slots, Written says *)
(* how the count relates to head in the first turn around the buffer, and  *)
(* InOrder which slots are unread and that their elements grow.            *)
(***************************************************************************)
EXTENDS RingBuffer, TLAPS, FiniteSetTheorems

(* What an Out in progress knows of the count. *)
CountSeen ==
    /\ pc \in {"read", "tail", "load"} => fill > 0
    /\ pc = "store" => loaded > 0

IInv == TypeOK /\ CountSeen

-----------------------------------------------------------------------------
(* The index after a slot is a slot. *)
LEMMA AdvanceType == ASSUME NEW s \in Slots PROVE Advance(s) \in Slots
BY RingSizes DEF Advance, Slots

(* Write puts the next element into a slot and moves on. *)
LEMMA WriteType ==
    ASSUME TypeOK, puts < MaxItems, Write
    PROVE  buffer' \in [Slots -> Items \union {Unwritten}] /\ head' \in Slots /\ unread' \subseteq Slots
<1>1. puts + 1 \in Items
    BY RingSizes DEF TypeOK, Items
<1> QED BY <1>1, AdvanceType DEF TypeOK, Write

(* An In keeps the types and raises the count or leaves it. *)
LEMMA InStep == ASSUME IInv, In PROVE IInv'
<1> USE DEF IInv
<1>1. puts' \in 0 .. MaxItems /\ raced' \in BOOLEAN
    BY RingSizes DEF In, TypeOK
<1>2. /\ buffer' \in [Slots -> Items \union {Unwritten}] /\ unread' \subseteq Slots
      /\ head' \in Slots /\ tail' \in Slots
      /\ fill' \in 0 .. Size /\ fill' >= fill
    <2>1. CASE fill < Size /\ Write /\ fill' = fill + 1 /\ UNCHANGED tail
        BY <2>1, WriteType, RingSizes DEF In, TypeOK
    <2>2. CASE Write /\ tail' = Advance(tail) /\ UNCHANGED fill
        BY <2>2, WriteType, AdvanceType, RingSizes DEF In, TypeOK
    <2>3. CASE UNCHANGED <<ring, unread>>
        BY <2>3, RingSizes DEF TypeOK, ring
    <2> QED BY <2>1, <2>2, <2>3 DEF In
<1>3. UNCHANGED <<instance, pc, element, loaded, got>>
    BY DEF In
<1>4. TypeOK'
    BY <1>1, <1>2, <1>3 DEF TypeOK
<1>5. CountSeen'
    BY <1>2, <1>3, RingSizes DEF CountSeen, TypeOK
<1> QED BY <1>4, <1>5

(* So does every step of Out, the last of which takes one off what was loaded. *)
LEMMA OutStep ==
    ASSUME IInv, OutTest \/ OutRead \/ OutTail \/ OutLoad \/ OutStore PROVE IInv'
<1> USE RingSizes DEF IInv
<1>1. CASE OutTest
    BY <1>1 DEF OutTest, TypeOK, CountSeen, ring
<1>2. CASE OutRead
    BY <1>2 DEF OutRead, TypeOK, CountSeen, ring
<1>3. CASE OutTail
    BY <1>3, AdvanceType DEF OutTail, TypeOK, CountSeen
<1>4. CASE OutLoad
    BY <1>4 DEF OutLoad, TypeOK, CountSeen, ring
<1>5. CASE OutStore
    <2>1. fill' \in 0 .. Size
        BY <1>5 DEF OutStore, TypeOK, CountSeen
    <2>2. got' \in Seq(Items \union {Unwritten})
        BY <1>5 DEF OutStore, TypeOK
    <2> QED BY <1>5, <2>1, <2>2 DEF OutStore, TypeOK, CountSeen, Unwritten
<1> QED BY <1>1, <1>2, <1>3, <1>4, <1>5

(* The strengthened invariant. *)
THEOREM Invariance == Spec => []IInv
<1>1. Init => IInv
    BY RingSizes DEF Init, IInv, TypeOK, CountSeen, Slots, Unwritten
<1>2. IInv /\ [Next]_vars => IInv'
    <2> SUFFICES ASSUME IInv, [Next]_vars PROVE IInv'
        OBVIOUS
    <2>1. CASE In
        BY <2>1, InStep
    <2>2. CASE OutTest \/ OutRead \/ OutTail \/ OutLoad \/ OutStore
        BY <2>2, OutStep
    <2>3. CASE UNCHANGED vars
        BY <2>3 DEF vars, ring, IInv, TypeOK, CountSeen
    <2> QED BY <2>1, <2>2, <2>3 DEF Next
<1> QED BY <1>1, <1>2, PTL DEF Spec

(* The count, and everything else, is well typed: a key taken while another arrives never  *)
(* makes Fill wrap, for any size and number of elements.                                   *)
THEOREM TypeCorrect == Spec => []TypeOK
<1>1. IInv => TypeOK
    BY DEF IInv
<1> QED BY <1>1, Invariance, PTL

-----------------------------------------------------------------------------
(* Advance is the next slot, or the first behind the last. *)
LEMMA AdvanceIs ==
    ASSUME NEW s \in Slots
    PROVE  Advance(s) = IF s + 1 = Size THEN 0 ELSE s + 1
<1>1. CASE s + 1 = Size
    BY <1>1, RingSizes DEF Advance, Slots
<1>2. CASE s + 1 # Size
    <2>1. s + 1 \in 0 .. Size - 1
        BY <1>2, RingSizes DEF Slots
    <2> QED BY <1>2, <2>1, RingSizes DEF Advance, Slots
<1> QED BY <1>1, <1>2

(***************************************************************************)
(* What keeps Out from a slot that was never written: until the writer     *)
(* has come around, the slots behind head are unwritten, and the count,    *)
(* which the race can only make too small, does not reach past head.       *)
(***************************************************************************)
Counting == CASE pc = "load"  -> fill - 1
              [] pc = "store" -> loaded - 1
              [] OTHER        -> fill

FirstTurn == \E s \in Slots: buffer[s] = Unwritten

Written ==
    /\ \A s \in Slots: buffer[s] \in 0 .. puts
    /\ FirstTurn =>
        /\ \A s \in Slots: buffer[s] = Unwritten <=> s >= head
        /\ tail + Counting <= head
    /\ pc \in {"tail", "load", "store"} => element \in 1 .. puts
    /\ NothingInvented

LEMMA WrittenIn == ASSUME IInv, Written, In PROVE Written'
<1> USE RingSizes, AdvanceIs DEF Unwritten
<1>1. IInv'
    BY InStep
<1>2. puts' = puts + 1 /\ puts \in Nat /\ UNCHANGED <<pc, element, loaded, got>>
    BY DEF In, IInv, TypeOK
<1>3. NothingInvented' /\ (pc' \in {"tail", "load", "store"} => element' \in 1 .. puts')
    BY <1>2 DEF Written, NothingInvented
<1>4. head \in Slots /\ tail \in Slots /\ fill \in 0 .. Size /\ loaded \in 0 .. Size
      /\ buffer \in [Slots -> Items \union {Unwritten}]
    BY DEF IInv, TypeOK
<1>5. CASE UNCHANGED <<ring, unread>>
    BY <1>2, <1>3, <1>5 DEF ring, Written, FirstTurn, Counting
<1>6. ASSUME Write PROVE /\ \A s \in Slots: buffer'[s] = IF s = head THEN puts + 1 ELSE buffer[s]
                         /\ \A s \in Slots: buffer'[s] \in 0 .. puts'
                         /\ FirstTurn' => FirstTurn /\ head + 1 < Size
                         /\ FirstTurn' => head' = head + 1
    <2>1. \A s \in Slots: buffer'[s] = IF s = head THEN puts + 1 ELSE buffer[s]
        BY <1>4, <1>6 DEF Write
    <2>2. \A s \in Slots: buffer'[s] \in 0 .. puts'
        BY <1>2, <2>1 DEF Written
    <2>3. ASSUME FirstTurn' PROVE FirstTurn /\ head + 1 < Size
        <3>1. PICK s \in Slots: buffer'[s] = Unwritten
            BY <2>3 DEF FirstTurn
        <3>2. s # head /\ buffer[s] = Unwritten
            BY <1>2, <2>1, <3>1
        <3> QED BY <1>4, <3>2 DEF FirstTurn, Written, Slots
    <2>4. head' = Advance(head)
        BY <1>6 DEF Write
    <2> QED BY <1>4, <2>1, <2>2, <2>3, <2>4
<1>7. CASE fill < Size /\ Write /\ fill' = fill + 1 /\ UNCHANGED tail
    <2>1. ASSUME FirstTurn'
          PROVE  /\ \A s \in Slots: buffer'[s] = Unwritten <=> s >= head'
                 /\ tail' + Counting' <= head'
        <3>1. FirstTurn /\ head' = head + 1
            BY <1>6, <1>7, <2>1
        <3>2. \A s \in Slots: buffer'[s] = Unwritten <=> s >= head'
            <4> SUFFICES ASSUME NEW s \in Slots PROVE buffer'[s] = 0 <=> s >= head + 1
                BY <3>1
            <4>1. buffer[s] = 0 <=> s >= head
                BY <3>1 DEF Written
            <4>2. buffer'[s] = IF s = head THEN puts + 1 ELSE buffer[s]
                BY <1>6, <1>7
            <4> QED BY <1>2, <1>4, <4>1, <4>2 DEF Slots
        <3>3. tail' + Counting' <= head'
            <4>1. tail + Counting <= head
                BY <3>1 DEF Written
            <4>2. tail' = tail /\ head' = head + 1 /\ tail \in Int /\ head \in Int
                BY <1>4, <1>7, <3>1 DEF Slots
            <4>3. CASE pc = "store"
                BY <1>2, <1>4, <4>1, <4>2, <4>3 DEF Counting
            <4>4. CASE pc = "load"
                BY <1>2, <1>4, <1>7, <4>1, <4>2, <4>4 DEF Counting
            <4>5. CASE pc \notin {"load", "store"}
                BY <1>2, <1>4, <1>7, <4>1, <4>2, <4>5 DEF Counting
            <4> QED BY <4>3, <4>4, <4>5
        <3> QED BY <3>2, <3>3
    <2> QED BY <1>3, <1>6, <1>7, <2>1 DEF Written
<1>8. CASE /\ fill = Size /\ Policy = "full_overwrite"
           /\ Write /\ tail' = Advance(tail) /\ UNCHANGED fill
    <2>1. pc = "idle"
        BY <1>8 DEF In, IInv, TypeOK, Policy
    <2>2. ~FirstTurn
        BY <1>4, <1>8, <2>1 DEF Written, Counting, Slots
    <2> QED BY <1>3, <1>6, <1>8, <2>2 DEF Written
<1> QED BY <1>5, <1>7, <1>8 DEF In

LEMMA WrittenOut ==
    ASSUME IInv, Written, OutTest \/ OutRead \/ OutTail \/ OutLoad \/ OutStore PROVE Written'
<1> USE RingSizes DEF Unwritten
<1>1. head \in Slots /\ tail \in Slots /\ fill \in 0 .. Size /\ loaded \in 0 .. Size /\ puts \in Nat
    BY DEF IInv, TypeOK
<1>2. CASE OutTest
    BY <1>1, <1>2 DEF OutTest, ring, Written, FirstTurn, Counting, NothingInvented
<1>3. CASE OutRead
    <2>1. fill > 0
        BY <1>3 DEF OutRead, IInv, CountSeen
    <2>2. buffer[tail] # Unwritten
        <3> SUFFICES ASSUME buffer[tail] = Unwritten PROVE FALSE
            OBVIOUS
        <3>1. FirstTurn
            BY <1>1 DEF FirstTurn
        <3>2. tail >= head
            BY <1>1, <3>1 DEF Written
        <3> QED BY <1>1, <1>3, <2>1, <3>1, <3>2 DEF OutRead, Written, Counting, Slots
    <2>3. element' \in 1 .. puts
        BY <1>1, <1>3, <2>2 DEF OutRead, Written
    <2> QED BY <1>1, <1>3, <2>3 DEF OutRead, ring, Written, FirstTurn, Counting, NothingInvented
<1>4. CASE OutTail
    <2>1. fill > 0
        BY <1>4 DEF OutTail, IInv, CountSeen
    <2>2. FirstTurn => tail + fill <= head /\ tail + 1 < Size
        BY <1>1, <1>4, <2>1 DEF OutTail, Written, Counting, Slots
    <2>3. FirstTurn => tail' + Counting' <= head'
        <3>1. Counting' = fill - 1
            BY <1>1, <1>4 DEF OutTail, Counting
        <3>2. tail + 1 < Size => tail' = tail + 1
            BY <1>1, <1>4, AdvanceIs DEF OutTail
        <3>3. head' = head
            BY <1>4 DEF OutTail
        <3> QED BY <1>1, <2>2, <3>1, <3>2, <3>3 DEF Slots
    <2> QED BY <1>1, <1>4, <2>3 DEF OutTail, Written, FirstTurn, NothingInvented
<1>5. CASE OutLoad
    BY <1>1, <1>5 DEF OutLoad, ring, Written, FirstTurn, Counting, NothingInvented
<1>6. CASE OutStore
    <2>1. element \in 1 .. puts
        BY <1>6 DEF OutStore, Written
    <2>2. NothingInvented'
        BY <1>1, <1>6, <2>1 DEF OutStore, IInv, TypeOK, Written, NothingInvented
    <2>3. FirstTurn' => tail' + Counting' <= head'
        BY <1>1, <1>6 DEF OutStore, Written, FirstTurn, Counting
    <2> QED BY <1>1, <1>6, <2>2, <2>3 DEF OutStore, Written, FirstTurn
<1> QED BY <1>2, <1>3, <1>4, <1>5, <1>6

LEMMA WrittenAlways == Spec => []Written
<1>1. Init => Written
    BY RingSizes DEF Init, Written, FirstTurn, Counting, NothingInvented, Slots, Unwritten
<1>2. IInv /\ Written /\ [Next]_vars => Written'
    <2>1. CASE UNCHANGED vars
        BY <2>1 DEF vars, ring, Written, FirstTurn, Counting, NothingInvented
    <2> QED BY <2>1, WrittenIn, WrittenOut DEF Next
<1> QED BY <1>1, <1>2, Invariance, PTL DEF Spec

(* Out returns only what was put in, also after the race and for any size of the buffer. *)
THEOREM ReadsOnlyWritten == Spec => []NothingInvented
<1>1. Written => NothingInvented
    BY DEF Written
<1> QED BY <1>1, WrittenAlways, PTL

-----------------------------------------------------------------------------
(* Slots by their distance from a first one. *)
Pos(f, s) == IF s >= f THEN s - f ELSE s - f + Size

LEMMA PosIs ==
    ASSUME NEW f \in Slots, NEW s \in Slots
    PROVE  /\ Pos(f, s) \in 0 .. Size - 1
           /\ Pos(f, s) = 0 <=> s = f
           /\ Pos(f, Advance(s)) = IF Pos(f, s) = Size - 1 THEN 0 ELSE Pos(f, s) + 1
           /\ Pos(Advance(f), s) = IF s = f THEN Size - 1 ELSE Pos(f, s) - 1
           /\ \A t \in Slots: Pos(f, s) = Pos(f, t) => s = t
<1>1. Advance(s) = (IF s + 1 = Size THEN 0 ELSE s + 1)
      /\ Advance(f) = (IF f + 1 = Size THEN 0 ELSE f + 1)
    BY AdvanceIs
<1> QED BY <1>1, RingSizes DEF Pos, Slots

(* The slots of u are the c slots from f on, and h is the one behind them. *)
Window(u, f, h, c) ==
    /\ u = {s \in Slots : Pos(f, s) < c}
    /\ IF c = Size THEN h = f ELSE Pos(f, h) = c

LEMMA WindowAdd ==
    ASSUME NEW f \in Slots, NEW h \in Slots, NEW c \in 0 .. Size - 1, NEW u, Window(u, f, h, c)
    PROVE  /\ h \notin u
           /\ \A s \in u: s \in Slots /\ Pos(f, s) < Pos(f, h)
           /\ Window(u \union {h}, f, Advance(h), c + 1)
<1>1. Pos(f, h) = c
    BY DEF Window
<1>2. u \union {h} = {s \in Slots : Pos(f, s) < c + 1}
    BY <1>1, PosIs, RingSizes DEF Window
<1>3. IF c + 1 = Size THEN Advance(h) = f ELSE Pos(f, Advance(h)) = c + 1
    BY <1>1, PosIs, AdvanceType, RingSizes
<1> QED BY <1>1, <1>2, <1>3 DEF Window

LEMMA WindowDrop ==
    ASSUME NEW f \in Slots, NEW h \in Slots, NEW c \in 1 .. Size, NEW u, Window(u, f, h, c)
    PROVE  /\ f \in u
           /\ \A s \in u \ {f}: s \in Slots /\ Pos(f, f) < Pos(f, s)
           /\ Window(u \ {f}, Advance(f), h, c - 1)
<1>1. f \in u
    BY PosIs, RingSizes DEF Window
<1>2. u \ {f} = {s \in Slots : Pos(Advance(f), s) < c - 1}
    BY PosIs, RingSizes DEF Window
<1>3. Pos(Advance(f), h) = c - 1
    BY PosIs, RingSizes DEF Window
<1>4. \A s \in u \ {f}: s \in Slots /\ Pos(f, f) < Pos(f, s)
    BY PosIs, RingSizes DEF Window
<1> QED BY <1>1, <1>2, <1>3, <1>4, RingSizes DEF Window

LEMMA WindowTurn ==
    ASSUME NEW f \in Slots, NEW h \in Slots, NEW u, Window(u, f, h, Size)
    PROVE  /\ h = f /\ u = Slots
           /\ Window(u \union {h}, Advance(f), Advance(h), Size)
<1>1. h = f /\ u = Slots
    BY PosIs, RingSizes DEF Window, Slots
<1>2. Slots = {s \in Slots : Pos(Advance(f), s) < Size}
    BY PosIs, AdvanceType, RingSizes
<1> QED BY <1>1, <1>2 DEF Window

(* Along the window the elements grow. *)
Sorted(b, u, f) == \A s, t \in u: Pos(f, s) < Pos(f, t) => b[s] < b[t]

-----------------------------------------------------------------------------
(***************************************************************************)
(* The ring as a queue, as long as there was no race: the unread slots are *)
(* a window from the one Out reads next to head, as long as the count      *)
(* says, and their elements are younger than all that was read.            *)
(***************************************************************************)
Reading == pc \in {"tail", "load", "store"}
First   == IF pc = "tail" THEN Advance(tail) ELSE tail
Count   == IF Reading THEN fill - 1 ELSE fill

Younger ==
    /\ \A s \in unread: buffer[s] \in 1 .. puts
    /\ \A s \in unread: \A i \in DOMAIN got: got[i] < buffer[s]
    /\ Reading => \A s \in unread: element < buffer[s]
    /\ Reading => \A i \in DOMAIN got: got[i] < element
    /\ \A i, j \in DOMAIN got: i < j => got[i] < got[j]

InOrder ==
    /\ pc = "store" => loaded = fill
    /\ Window(unread, First, head, Count)
    /\ Cardinality(unread) = Count
    /\ Sorted(buffer, unread, First)
    /\ Younger

(* The order along the window, as elements come and go. *)
LEMMA SortedAdd ==
    ASSUME NEW f \in Slots, NEW h \in Slots, NEW u, NEW v \in Nat, NEW b \in [Slots -> Nat],
           \A s \in u: s \in Slots /\ Pos(f, s) < Pos(f, h) /\ b[s] < v,
           Sorted(b, u, f)
    PROVE  Sorted([b EXCEPT ![h] = v], u \union {h}, f)
<1> DEFINE w == [b EXCEPT ![h] = v]
<1> SUFFICES ASSUME NEW s \in u \union {h}, NEW t \in u \union {h}, Pos(f, s) < Pos(f, t)
             PROVE  w[s] < w[t]
    BY DEF Sorted
<1>1. \A r \in u: r # h /\ r \in Slots /\ w[r] = b[r]
    BY PosIs
<1>2. w[h] = v
    OBVIOUS
<1>3. CASE s \in u /\ t \in u
    BY <1>1, <1>3 DEF Sorted
<1>4. CASE s \in u /\ t = h
    BY <1>1, <1>2, <1>4
<1>5. CASE s = h
    <2>1. t \notin u
        BY <1>1, <1>5, PosIs
    <2> QED BY <1>5, <2>1, PosIs
<1> QED BY <1>3, <1>4, <1>5

LEMMA SortedDrop ==
    ASSUME NEW f \in Slots, NEW u, NEW b, \A s \in u \ {f}: s \in Slots, Sorted(b, u, f)
    PROVE  Sorted(b, u \ {f}, Advance(f))
<1> SUFFICES ASSUME NEW s \in u \ {f}, NEW t \in u \ {f}, Pos(Advance(f), s) < Pos(Advance(f), t)
             PROVE  b[s] < b[t]
    BY DEF Sorted
<1>1. Pos(f, s) < Pos(f, t)
    BY PosIs, RingSizes
<1> QED BY <1>1 DEF Sorted

LEMMA SortedTurn ==
    ASSUME NEW f \in Slots, NEW v \in Nat, NEW b \in [Slots -> Nat],
           \A s \in Slots: b[s] < v, Sorted(b, Slots, f)
    PROVE  Sorted([b EXCEPT ![f] = v], Slots, Advance(f))
<1>1. \A s \in Slots \ {f}: s \in Slots /\ Pos(Advance(f), s) < Pos(Advance(f), f)
    BY PosIs, RingSizes
<1>2. Sorted(b, Slots \ {f}, Advance(f))
    BY SortedDrop
<1>3. Sorted([b EXCEPT ![f] = v], (Slots \ {f}) \union {f}, Advance(f))
    BY <1>1, <1>2, SortedAdd, AdvanceType
<1>4. (Slots \ {f}) \union {f} = Slots
    OBVIOUS
<1> QED BY <1>3, <1>4

LEMMA UnreadFinite == ASSUME TypeOK PROVE IsFiniteSet(unread)
<1>1. IsFiniteSet(Slots)
    BY FS_Interval, RingSizes DEF Slots
<1> QED BY <1>1, FS_Subset DEF TypeOK

(* An In between any two steps of Out but the load and the store. *)
LEMMA InOrderIn == ASSUME IInv, Written, InOrder, In, pc # "store" PROVE InOrder'
<1> USE RingSizes
<1>1. /\ head \in Slots /\ tail \in Slots /\ First \in Slots
      /\ fill \in 0 .. Size /\ Count \in 0 .. fill /\ puts \in Nat
      /\ buffer \in [Slots -> Nat] /\ unread \subseteq Slots
    BY AdvanceType DEF IInv, TypeOK, CountSeen, First, Count, Reading, Items, Unwritten
<1>2. /\ puts' = puts + 1 /\ UNCHANGED <<instance, pc, element, loaded, got>>
      /\ puts + 1 \in Nat
    BY <1>1 DEF In
<1>3. \A s \in unread: buffer[s] < puts + 1
    BY <1>1 DEF InOrder, Younger
<1>4. /\ \A i \in DOMAIN got: got[i] < puts + 1
      /\ Reading => element < puts + 1
    BY <1>1 DEF Written, NothingInvented, Reading
<1>5. CASE UNCHANGED <<ring, unread>>
    <2>1. Younger'
        BY <1>1, <1>2, <1>5 DEF ring, InOrder, Younger, Reading
    <2> QED BY <1>2, <1>5, <2>1 DEF ring, InOrder, Reading, First, Count
<1>6. ASSUME Write
      PROVE  /\ buffer' = [buffer EXCEPT ![head] = puts + 1]
             /\ head' = Advance(head) /\ unread' = unread \union {head}
             /\ Younger'
    <2>1. /\ buffer' = [buffer EXCEPT ![head] = puts + 1]
          /\ head' = Advance(head) /\ unread' = unread \union {head}
        BY <1>6 DEF Write
    <2>2. \A s \in unread': buffer'[s] = puts + 1 \/ (s \in unread /\ buffer'[s] = buffer[s])
        <3>1. \A s \in Slots: buffer'[s] = IF s = head THEN puts + 1 ELSE buffer[s]
            BY <1>1, <2>1
        <3> QED BY <1>1, <2>1, <3>1
    <2> QED BY <1>1, <1>2, <1>4, <2>1, <2>2 DEF InOrder, Younger, Reading
<1>7. CASE fill < Size /\ Write /\ fill' = fill + 1 /\ UNCHANGED tail
    <2>1. First' = First /\ Count' = Count + 1 /\ Count \in 0 .. Size - 1
        BY <1>1, <1>2, <1>7 DEF First, Count, Reading
    <2>2. Window(unread, First, head, Count) /\ Sorted(buffer, unread, First)
          /\ Cardinality(unread) = Count
        BY DEF InOrder
    <2>3. /\ head \notin unread
          /\ \A s \in unread: s \in Slots /\ Pos(First, s) < Pos(First, head)
          /\ Window(unread \union {head}, First, Advance(head), Count + 1)
        BY <1>1, <2>1, <2>2, WindowAdd
    <2>4. Sorted([buffer EXCEPT ![head] = puts + 1], unread \union {head}, First)
        BY <1>1, <1>2, <1>3, <2>2, <2>3, SortedAdd
    <2>5. Cardinality(unread \union {head}) = Count + 1
        BY <2>2, <2>3, UnreadFinite, FS_AddElement DEF IInv
    <2> QED BY <1>2, <1>6, <1>7, <2>1, <2>3, <2>4, <2>5 DEF InOrder
<1>8. CASE /\ fill = Size /\ Policy = "full_overwrite"
           /\ Write /\ tail' = Advance(tail) /\ UNCHANGED fill
    <2>1. pc = "idle"
        BY <1>8 DEF In, IInv, TypeOK, Policy
    <2>2. First = tail /\ First' = Advance(tail) /\ Count = Size /\ Count' = Size
        BY <1>1, <1>2, <1>8, <2>1 DEF First, Count, Reading
    <2>3. Window(unread, tail, head, Size) /\ Sorted(buffer, unread, tail)
          /\ Cardinality(unread) = Size
        BY <2>2 DEF InOrder
    <2>4. /\ head = tail /\ unread = Slots
          /\ Window(unread \union {head}, Advance(tail), Advance(head), Size)
        BY <1>1, <2>3, WindowTurn
    <2>5. Sorted([buffer EXCEPT ![tail] = puts + 1], Slots, Advance(tail))
        BY <1>1, <1>2, <1>3, <2>3, <2>4, SortedTurn
    <2>6. unread \union {head} = unread
        BY <1>1, <2>4
    <2> QED BY <1>2, <1>6, <1>8, <2>1, <2>2, <2>3, <2>4, <2>5, <2>6 DEF InOrder
<1> QED BY <1>5, <1>7, <1>8 DEF In

(* The steps of Out; the first slot leaves the window when it is read. *)
LEMMA InOrderOut ==
    ASSUME IInv, Written, InOrder, OutTest \/ OutRead \/ OutTail \/ OutLoad \/ OutStore
    PROVE  InOrder'
<1> USE RingSizes
<1>1. /\ head \in Slots /\ tail \in Slots /\ fill \in 0 .. Size
      /\ buffer \in [Slots -> Nat] /\ unread \subseteq Slots
    BY DEF IInv, TypeOK, Items, Unwritten
<1>2. CASE OutTest
    BY <1>2 DEF OutTest, ring, InOrder, Younger, First, Count, Reading
<1>3. CASE OutRead
    <2>1. /\ First = tail /\ First' = Advance(tail) /\ Count = fill /\ Count' = fill - 1
          /\ fill \in 1 .. Size
        BY <1>1, <1>3 DEF OutRead, ring, IInv, CountSeen, First, Count, Reading
    <2>2. Window(unread, tail, head, fill) /\ Sorted(buffer, unread, tail)
          /\ Cardinality(unread) = fill
        BY <2>1 DEF InOrder
    <2>3. /\ tail \in unread
          /\ \A s \in unread \ {tail}: s \in Slots /\ Pos(tail, tail) < Pos(tail, s)
          /\ Window(unread \ {tail}, Advance(tail), head, fill - 1)
        BY <1>1, <2>1, <2>2, WindowDrop
    <2>4. Sorted(buffer, unread \ {tail}, Advance(tail))
        BY <1>1, <2>2, <2>3, SortedDrop
    <2>5. Cardinality(unread \ {tail}) = fill - 1
        BY <2>2, <2>3, UnreadFinite, FS_RemoveElement DEF IInv
    <2>6. /\ element' = buffer[tail] /\ unread' = unread \ {tail} /\ pc' = "tail"
          /\ UNCHANGED <<buffer, head, got, puts>>
        BY <1>3 DEF OutRead, ring
    <2>7. \A s \in unread \ {tail}: buffer[tail] < buffer[s]
        BY <2>2, <2>3 DEF Sorted
    <2>8. Younger'
        BY <2>3, <2>6, <2>7 DEF InOrder, Younger
    <2> QED BY <2>1, <2>3, <2>4, <2>5, <2>6, <2>8 DEF InOrder
<1>4. CASE OutTail
    <2>1. First' = First /\ Count' = Count /\ (Reading /\ Reading') /\ pc' = "load"
        BY <1>4 DEF OutTail, First, Count, Reading
    <2> QED BY <1>4, <2>1 DEF OutTail, InOrder, Younger
<1>5. CASE OutLoad
    <2>1. First' = First /\ Count' = Count /\ (Reading /\ Reading') /\ loaded' = fill'
        BY <1>5 DEF OutLoad, ring, First, Count, Reading
    <2> QED BY <1>5, <2>1 DEF OutLoad, ring, InOrder, Younger
<1>6. CASE OutStore
    <2>1. First' = First /\ Count' = Count /\ Reading /\ ~Reading' /\ pc' = "idle"
        BY <1>1, <1>6 DEF OutStore, InOrder, First, Count, Reading
    <2>2. /\ got' = Append(got, element) /\ got \in Seq(Items \union {Unwritten})
          /\ element \in Items \union {Unwritten}
          /\ UNCHANGED <<buffer, head, unread, puts>>
        BY <1>6 DEF OutStore, IInv, TypeOK
    <2>3. \A i \in DOMAIN got':
              \/ i \in DOMAIN got /\ got'[i] = got[i]
              \/ i = Len(got) + 1 /\ got'[i] = element
        <3>1. /\ DOMAIN got = 1 .. Len(got) /\ DOMAIN got' = 1 .. (Len(got) + 1)
              /\ Len(got) \in Nat
            <4>1. got' \in Seq(Items \union {Unwritten}) /\ Len(got') = Len(got) + 1
                BY <2>2
            <4> QED BY <2>2, <4>1
        <3>2. got'[Len(got) + 1] = element /\ \A i \in 1 .. Len(got): got'[i] = got[i]
            BY <2>2
        <3> QED BY <3>1, <3>2
    <2>4. \A s \in unread: \A i \in DOMAIN got': got'[i] < buffer[s]
        BY <2>1, <2>3 DEF InOrder, Younger
    <2>5. \A i, j \in DOMAIN got': i < j => got'[i] < got'[j]
        <3> SUFFICES ASSUME NEW i \in DOMAIN got', NEW j \in DOMAIN got', i < j
                     PROVE  got'[i] < got'[j]
            OBVIOUS
        <3>1. i \in DOMAIN got /\ got'[i] = got[i]
            BY <2>2, <2>3
        <3> QED BY <2>1, <2>3, <3>1 DEF InOrder, Younger
    <2>6. Younger'
        BY <2>1, <2>2, <2>4, <2>5 DEF InOrder, Younger
    <2> QED BY <2>1, <2>2, <2>6 DEF InOrder
<1> QED BY <1>2, <1>3, <1>4, <1>5, <1>6

(* The one window of Out that an interrupt can harm is that between the load and the store *)
(* of the count, for any size of the buffer: without it the count is right and elements    *)
(* come out in the order they were put in.                                                 *)
THEOREM SafeOutsideWindow == Spec => []SafeUntilRace
<1>1. Init => InOrder
    <2> SUFFICES ASSUME Init PROVE InOrder
        OBVIOUS
    <2>2. First = 0 /\ Count = 0 /\ ~Reading /\ unread = {} /\ head = 0
        BY DEF Init, First, Count, Reading
    <2>3. Window({}, 0, 0, 0)
        BY PosIs, RingSizes DEF Window, Slots
    <2>4. Sorted(buffer, {}, 0) /\ Younger
        BY <2>2 DEF Init, Sorted, Younger
    <2> QED BY <2>2, <2>3, <2>4, FS_EmptySet DEF Init, InOrder
<1>2. IInv /\ Written /\ (~raced => InOrder) /\ [Next]_vars => (~raced => InOrder)'
    <2> SUFFICES ASSUME IInv, Written, ~raced => InOrder, [Next]_vars, ~raced' PROVE InOrder'
        OBVIOUS
    <2>1. CASE In
        BY <2>1, InOrderIn DEF In
    <2>2. CASE OutTest \/ OutRead \/ OutTail \/ OutLoad \/ OutStore
        BY <2>2, InOrderOut DEF OutTest, OutRead, OutTail, OutLoad, OutStore
    <2>3. CASE UNCHANGED vars
        BY <2>3 DEF vars, ring, InOrder, Younger, First, Count, Reading
    <2> QED BY <2>1, <2>2, <2>3 DEF Next
<1>3. IInv /\ (~raced => InOrder) => SafeUntilRace
    BY DEF IInv, TypeOK, InOrder, Younger, SafeUntilRace, Counted, Count, Reading
<1>4. Spec => []Written
    BY WrittenAlways
<1> QED BY <1>1, <1>2, <1>3, <1>4, Invariance, PTL DEF Spec

-----------------------------------------------------------------------------
(* A turn or two around the buffer change nothing. *)
LEMMA TurnsIs ==
    ASSUME NEW s \in Slots
    PROVE  (s + Size) % Size = s /\ (s + Size * 2) % Size = s
<1>1. s % Size = s
    BY RingSizes DEF Slots
<1> QED BY <1>1, RingSizes DEF Slots

(* The slot of each element, counted from the oldest one on, in a ring with c of them. *)
At(h, c, i) == IF h + i > c THEN h + i - c - 1 ELSE h + i - c - 1 + Size

(* The slot of an element, as the refinement mapping computes it. *)
LEMMA SlotIs ==
    ASSUME TypeOK, NEW i \in 1 .. fill
    PROVE  SlotOf(i) = At(head, fill, i) /\ At(head, fill, i) \in Slots
<1>1. head \in 0 .. Size - 1 /\ fill \in 0 .. Size /\ Size \in Nat
    BY RingSizes DEF TypeOK, Slots
<1>2. At(head, fill, i) \in Slots
    BY <1>1 DEF At, Slots
<1>3. \/ head + Size * 2 - fill + i - 1 = At(head, fill, i) + Size * 2
      \/ head + Size * 2 - fill + i - 1 = At(head, fill, i) + Size
    BY <1>1 DEF At
<1> QED BY <1>2, <1>3, TurnsIs DEF SlotOf

(* How the slots of the elements change when head advances. *)
LEMMA AtNext ==
    ASSUME NEW h \in Slots, NEW c \in 0 .. Size
    PROVE  /\ At(h, c, 1) \in Slots
           /\ c = Size => At(h, c, 1) = h
           /\ c < Size => /\ At(Advance(h), c + 1, c + 1) = h
                          /\ At(Advance(h), c + 1, 1) = At(h, c, 1)
                          /\ \A i \in 1 .. c: /\ At(Advance(h), c + 1, i) = At(h, c, i)
                                              /\ At(h, c, i) # h
           /\ c > 0 => /\ At(h, c - 1, 1) = Advance(At(h, c, 1))
                       /\ \A i \in 1 .. c - 1: At(h, c - 1, i) = At(h, c, i + 1)
<1> USE RingSizes
<1>1. At(h, c, 1) \in Slots /\ (c = Size => At(h, c, 1) = h)
    BY DEF At, Slots
<1>2. Advance(h) = (IF h + 1 = Size THEN 0 ELSE h + 1)
    BY AdvanceIs
<1>3. Advance(At(h, c, 1)) = (IF At(h, c, 1) + 1 = Size THEN 0 ELSE At(h, c, 1) + 1)
    BY <1>1, AdvanceIs
<1>4. ASSUME c < Size
      PROVE  /\ At(Advance(h), c + 1, c + 1) = h
             /\ At(Advance(h), c + 1, 1) = At(h, c, 1)
             /\ \A i \in 1 .. c: /\ At(Advance(h), c + 1, i) = At(h, c, i)
                                 /\ At(h, c, i) # h
    BY <1>2, <1>4 DEF At, Slots
<1>5. ASSUME c > 0
      PROVE  /\ At(h, c - 1, 1) = Advance(At(h, c, 1))
             /\ \A i \in 1 .. c - 1: At(h, c - 1, i) = At(h, c, i + 1)
    BY <1>3, <1>5 DEF At, Slots
<1> QED BY <1>1, <1>4, <1>5

(* A full ring forgets its oldest element: the others move up by one. *)
LEMMA AtTurn ==
    ASSUME NEW h \in Slots
    PROVE  /\ At(Advance(h), Size, Size) = h
           /\ At(Advance(h), Size, 1) = Advance(h)
           /\ \A i \in 1 .. Size - 1: /\ At(Advance(h), Size, i) = At(h, Size, i + 1)
                                      /\ At(h, Size, i + 1) # h
BY AdvanceIs, RingSizes DEF At, Slots

(***************************************************************************)
(* txBuffer: nothing interrupts an Out, so tail is the slot of the oldest  *)
(* element until OutTail moves it, the element read is that one, and the   *)
(* count loaded is still the count.                                        *)
(***************************************************************************)
Oldest == At(head, fill, 1)

Uninterrupted ==
    instance = "txBuffer" =>
        /\ tail = IF pc \in {"load", "store"} THEN Advance(Oldest) ELSE Oldest
        /\ Reading => element = buffer[Oldest]
        /\ pc = "store" => loaded = fill

LEMMA UninterruptedStep == IInv /\ Uninterrupted /\ [Next]_vars => Uninterrupted'
<1> SUFFICES ASSUME IInv, Uninterrupted, [Next]_vars, instance = "txBuffer" PROVE Uninterrupted'
    BY DEF Uninterrupted, Next, In, OutTest, OutRead, OutTail, OutLoad, OutStore, vars
<1> USE RingSizes DEF Uninterrupted, Oldest, Reading
<1>1. /\ head \in Slots /\ tail \in Slots /\ fill \in 0 .. Size
      /\ Oldest \in Slots /\ (pc # "idle" => fill > 0)
    BY AtNext DEF IInv, TypeOK, CountSeen
<1>2. CASE In
    <2>1. pc = "idle" /\ pc' = "idle"
        BY <1>2 DEF In
    <2>2. CASE fill < Size /\ Write /\ fill' = fill + 1 /\ UNCHANGED tail
        BY <1>1, <2>1, <2>2, AtNext DEF Write
    <2>3. CASE fill = Size /\ Write /\ tail' = Advance(tail) /\ UNCHANGED fill
        BY <1>1, <2>1, <2>3, AtNext, AtTurn DEF Write
    <2> QED BY <1>2, <2>1, <2>2, <2>3 DEF In, Policy
<1>3. CASE OutTest \/ OutRead \/ OutTail \/ OutLoad
    BY <1>3 DEF OutTest, OutRead, OutTail, OutLoad, ring
<1>4. CASE OutStore
    <2>1. /\ head' = head /\ fill' = fill - 1 /\ tail' = tail /\ pc' = "idle"
          /\ tail = Advance(At(head, fill, 1)) /\ fill > 0
        BY <1>1, <1>4 DEF OutStore
    <2>2. At(head, fill - 1, 1) = Advance(At(head, fill, 1))
        BY <1>1, <2>1, AtNext
    <2> QED BY <2>1, <2>2
<1>5. CASE UNCHANGED vars
    BY <1>5 DEF vars, ring
<1> QED BY <1>2, <1>3, <1>4, <1>5 DEF Next

(* The queue of the contract, element by element. *)
MessagesAre ==
    \E q \in Seq(Items \union {Unwritten}):
        /\ q = Messages
        /\ Len(q) = fill
        /\ \A i \in 1 .. fill: q[i] = buffer[At(head, fill, i)]

LEMMA MessagesKnown == IInv /\ instance = "txBuffer" => MessagesAre
<1> SUFFICES ASSUME IInv, instance = "txBuffer" PROVE MessagesAre
    OBVIOUS
<1>1. TypeOK /\ fill \in Nat
    BY DEF IInv, TypeOK
<1>2. \A i \in 1 .. fill: buffer[SlotOf(i)] \in Items \union {Unwritten}
    BY <1>1, SlotIs DEF TypeOK
<1>3. PICK q: q = [i \in 1 .. fill |-> buffer[SlotOf(i)]]
    OBVIOUS
<1>4. q \in Seq(Items \union {Unwritten}) /\ Len(q) = fill
    BY <1>1, <1>2, <1>3
<1>5. \A i \in 1 .. fill: q[i] = buffer[At(head, fill, i)]
    BY <1>1, <1>3, SlotIs
<1> QED BY <1>3, <1>4, <1>5 DEF MessagesAre, Messages

(* Two sequences with the same elements are the same. *)
LEMMA SameSequence ==
    ASSUME NEW T, NEW s \in Seq(T), NEW t \in Seq(T), Len(s) = Len(t),
           \A i \in 1 .. Len(s): s[i] = t[i]
    PROVE  s = t
OBVIOUS

(* An In of txBuffer is a Put. *)
LEMMA InIsPut ==
    ASSUME IInv, IInv', instance = "txBuffer", instance' = "txBuffer", In
    PROVE  Queue!NextQ
<1> USE RingSizes
<1>1. /\ head \in Slots /\ fill \in 0 .. Size /\ puts + 1 \in Items
      /\ buffer \in [Slots -> Items \union {Unwritten}]
    BY DEF IInv, TypeOK, In, Items
<1>2. Returned' = Returned
    BY DEF In, Returned
<1>0. MessagesAre /\ MessagesAre'
    <2>1. (IInv /\ instance = "txBuffer" => MessagesAre)'
        BY MessagesKnown, PTL
    <2> QED BY <2>1, MessagesKnown
<1>3. PICK q \in Seq(Items \union {Unwritten}):
            /\ q = Messages
            /\ Len(q) = fill
            /\ \A i \in 1 .. fill: q[i] = buffer[At(head, fill, i)]
    BY <1>0 DEF MessagesAre
<1>4. PICK r \in Seq(Items \union {Unwritten}):
            /\ r = Messages'
            /\ Len(r) = fill'
            /\ \A i \in 1 .. fill': r[i] = buffer'[At(head', fill', i)]
    BY <1>0 DEF MessagesAre
<1>5. Len(q) = fill /\ \A i \in 1 .. fill: q[i] = buffer[At(head, fill, i)]
    BY <1>3
<1>6. Len(r) = fill' /\ \A i \in 1 .. fill': r[i] = buffer'[At(head', fill', i)]
    BY <1>4
<1>7. ASSUME Write
      PROVE  /\ head' = Advance(head)
             /\ \A s \in Slots: buffer'[s] = IF s = head THEN puts + 1 ELSE buffer[s]
    BY <1>1, <1>7 DEF Write
<1>8. r = IF Len(q) < Size THEN Append(q, puts + 1) ELSE Append(Tail(q), puts + 1)
    <2>1. CASE fill < Size /\ Write /\ fill' = fill + 1
        <3>1. \A i \in 1 .. fill: r[i] = q[i]
            <4> TAKE i \in 1 .. fill
            <4>1. At(head', fill', i) = At(head, fill, i) /\ At(head, fill, i) # head
                BY <1>1, <1>7, <2>1, AtNext
            <4>2. At(head, fill, i) \in Slots
                BY SlotIs DEF IInv
            <4> QED BY <1>1, <1>5, <1>6, <1>7, <2>1, <4>1, <4>2
        <3>2. r[fill + 1] = puts + 1
            BY <1>1, <1>6, <1>7, <2>1, AtNext
        <3>3. Append(q, puts + 1) \in Seq(Items \union {Unwritten})
            BY <1>1
        <3>4. r = Append(q, puts + 1)
            BY <1>1, <1>5, <1>6, <2>1, <3>1, <3>2, <3>3, SameSequence
        <3> QED BY <1>5, <2>1, <3>4
    <2>2. CASE fill = Size /\ Write /\ fill' = fill
        <3>1. \A i \in 1 .. Size - 1: r[i] = q[i + 1]
            <4> TAKE i \in 1 .. Size - 1
            <4>1. At(head', Size, i) = At(head, Size, i + 1) /\ At(head, Size, i + 1) # head
                BY <1>1, <1>7, <2>2, AtTurn
            <4>2. At(head, Size, i + 1) \in Slots
                BY <2>2, SlotIs DEF IInv
            <4> QED BY <1>1, <1>5, <1>6, <1>7, <2>2, <4>1, <4>2
        <3>2. r[Size] = puts + 1
            BY <1>1, <1>6, <1>7, <2>2, AtTurn
        <3>3. /\ Tail(q) \in Seq(Items \union {Unwritten})
              /\ Len(Tail(q)) = Size - 1
              /\ \A i \in 1 .. Size - 1: Tail(q)[i] = q[i + 1]
            BY <1>5, <2>2
        <3>4. PICK t \in Seq(Items \union {Unwritten}): t = Tail(q)
            BY <3>3
        <3>5. /\ Append(t, puts + 1) \in Seq(Items \union {Unwritten})
              /\ Len(Append(t, puts + 1)) = Size
              /\ \A i \in 1 .. Size: Append(t, puts + 1)[i] = r[i]
            BY <1>1, <3>1, <3>2, <3>3, <3>4
        <3>6. r = Append(t, puts + 1)
            BY <1>6, <2>2, <3>5, SameSequence
        <3> QED BY <1>5, <2>2, <3>4, <3>6
    <2> QED BY <2>1, <2>2 DEF In, Policy
<1> QED BY <1>1, <1>2, <1>3, <1>4, <1>8 DEF Queue!NextQ, Queue!Put

(* The store of the count is the moment an element is taken. *)
LEMMA StoreIsTake ==
    ASSUME IInv, IInv', Uninterrupted, instance = "txBuffer", instance' = "txBuffer", OutStore
    PROVE  Queue!NextQ
<1> USE RingSizes
<1>1. /\ head \in Slots /\ fill \in 1 .. Size /\ loaded = fill /\ element = buffer[At(head, fill, 1)]
    BY DEF IInv, TypeOK, CountSeen, Uninterrupted, OutStore, Oldest, Reading
<1>2. fill' = fill - 1 /\ head' = head /\ buffer' = buffer /\ got' = Append(got, element)
    BY <1>1 DEF OutStore
<1>0. MessagesAre /\ MessagesAre'
    <2>1. (IInv /\ instance = "txBuffer" => MessagesAre)'
        BY MessagesKnown, PTL
    <2> QED BY <2>1, MessagesKnown
<1>3. PICK q \in Seq(Items \union {Unwritten}):
            /\ q = Messages
            /\ Len(q) = fill
            /\ \A i \in 1 .. fill: q[i] = buffer[At(head, fill, i)]
    BY <1>0 DEF MessagesAre
<1>4. PICK r \in Seq(Items \union {Unwritten}):
            /\ r = Messages'
            /\ Len(r) = fill'
            /\ \A i \in 1 .. fill': r[i] = buffer'[At(head', fill', i)]
    BY <1>0 DEF MessagesAre
<1>5. Len(q) = fill /\ \A i \in 1 .. fill: q[i] = buffer[At(head, fill, i)]
    BY <1>3
<1>6. Len(r) = fill - 1 /\ \A i \in 1 .. fill - 1: r[i] = buffer[At(head, fill - 1, i)]
    BY <1>2, <1>4
<1>7. q # <<>> /\ Head(q) = element
    BY <1>1, <1>5
<1>8. \A i \in 1 .. fill - 1: r[i] = q[i + 1]
    <2> TAKE i \in 1 .. fill - 1
    <2>1. At(head, fill - 1, i) = At(head, fill, i + 1) /\ i + 1 \in 1 .. fill
        BY <1>1, AtNext
    <2> QED BY <1>5, <1>6, <2>1
<1>9. r = Tail(q)
    <2>1. /\ Tail(q) \in Seq(Items \union {Unwritten})
          /\ Len(Tail(q)) = fill - 1
          /\ \A i \in 1 .. fill - 1: Tail(q)[i] = q[i + 1]
        BY <1>1, <1>5
    <2> QED BY <1>6, <1>8, <2>1, SameSequence
<1> QED BY <1>2, <1>3, <1>4, <1>7, <1>9 DEF Queue!NextQ, Queue!TakeFirst, Returned

(* txBuffer is a queue of its newest Size messages, for every size: what is written before *)
(* there is a UART comes out in order, whole, and only the oldest of it is ever missing.   *)
THEOREM MessagesInOrder == Spec => QueueSpec
<1>1. Init => Queue!InitQ /\ Uninterrupted
    <2> SUFFICES ASSUME Init PROVE Queue!InitQ /\ Uninterrupted
        OBVIOUS
    <2>1. Messages = <<>> /\ Returned = <<>>
        BY DEF Init, Messages, Returned
    <2>2. Uninterrupted
        BY DEF Init, Uninterrupted, Oldest, At, Reading
    <2> QED BY <2>1, <2>2 DEF Queue!InitQ
<1>2. IInv /\ IInv' /\ Uninterrupted /\ [Next]_vars => [Queue!NextQ]_<<Messages, Returned>>
    <2> SUFFICES ASSUME IInv, IInv', Uninterrupted, [Next]_vars
                 PROVE  Queue!NextQ \/ UNCHANGED <<Messages, Returned>>
        OBVIOUS
    <2>1. instance' = instance
        BY DEF Next, In, OutTest, OutRead, OutTail, OutLoad, OutStore, vars
    <2>2. CASE instance # "txBuffer"
        BY <2>1, <2>2 DEF Messages, Returned
    <2>3. CASE OutTest \/ OutRead \/ OutTail \/ OutLoad \/ UNCHANGED vars
        BY <2>3 DEF OutTest, OutRead, OutTail, OutLoad, vars, ring, Messages, Returned, SlotOf
    <2> QED BY <2>1, <2>2, <2>3, InIsPut, StoreIsTake DEF Next
<1> QED BY <1>1, <1>2, UninterruptedStep, Invariance, PTL DEF Spec, QueueSpec, Queue!SpecQ
=============================================================================
