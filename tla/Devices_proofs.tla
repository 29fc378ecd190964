---------------------------- MODULE Devices_proofs ----------------------------
(***************************************************************************)
(* The emulated devices for every number of lines the hardware can have,   *)
(* every offset and register a guest can use and every value it can have.  *)
(*                                                                         *)
(* The register map of the virtual distributor is sound: the arrays are    *)
(* disjoint, and an index stays inside its array (MapSound).  So an offset *)
(* names one field at most (OneField), and the ranges of Write lead where  *)
(* those of Read do (WritesWhereItReads).  From that, a load puts the      *)
(* device's value into the register it names and nothing else, and a store *)
(* changes what it names and nothing else.                                 *)
(***************************************************************************)
EXTENDS Devices, TLAPS

\* The entries of each array, from the number of words of 32 lines.
LEMMA Counts ==
    ASSUME NEW n \in 1 .. 32, NrLines = 32 * n
    PROVE  /\ \A a \in {"igroupr", "isenabler", "icenabler", "isactiver", "icactiver"}: Count(a) = n
           /\ Count("ipriorityr") = 8 * n
           /\ Count("icfgr") = 2 * n
           /\ Count("irouter") = 32 * n
<1>1. NrLines \div 32 = n /\ NrLines \div 4 = 8 * n /\ NrLines \div 16 = 2 * n
    OBVIOUS
<1> QED
    BY <1>1 DEF Count

\* The size of an array, in bytes.
LEMMA Extents ==
    ASSUME NEW n \in 1 .. 32, NrLines = 32 * n
    PROVE  /\ \A a \in {"igroupr", "isenabler", "icenabler", "isactiver", "icactiver"}:
                Count(a) * Width(a) = 4 * n
           /\ Count("ipriorityr") * Width("ipriorityr") = 32 * n
           /\ Count("icfgr") * Width("icfgr") = 8 * n
           /\ Count("irouter") * Width("irouter") = 256 * n
BY Counts DEF Width

\* An offset inside an array divides to one of its entries.
LEMMA IndexInside ==
    ASSUME NEW base \in Nat, NEW count \in Nat, NEW width \in {4, 8}, NEW offset \in Nat,
           base <= offset, offset < base + count * width
    PROVE  (offset - base) \div width \in 0 .. count - 1
<1>1. CASE width = 4
    BY <1>1
<1>2. CASE width = 8
    BY <1>2
<1> QED
    BY <1>1, <1>2

\* The arrays and single registers lie apart: the space up to the next one holds 1024 lines.
LEMMA Apart ==
    ASSUME NEW n \in 1 .. 32, NrLines = 32 * n, NEW offset \in Nat,
           NEW a \in ArraysAt(offset)
    PROVE  ArraysAt(offset) = {a} /\ SinglesAt(offset) = {}
<1>1. \A b \in ArraysAt(offset): b \in Array /\ ArrayAt(b) <= offset
                                 /\ offset < ArrayAt(b) + Count(b) * Width(b)
    BY DEF ArraysAt
<1>2. \A b \in ArraysAt(offset): b = a
    BY <1>1, Extents DEF Array, ArrayAt
<1>3. \A s \in Single: SingleAt(s) # offset
    BY <1>1, Extents DEF Array, ArrayAt, Single, SingleAt
<1> QED
    BY <1>2, <1>3 DEF SinglesAt

\* Both facts for an offset that lies in an array.
LEMMA MapSound ==
    ASSUME NEW offset \in Nat, NEW a \in ArraysAt(offset)
    PROVE  /\ Index(a, offset) \in 0 .. Count(a) - 1
           /\ ArraysAt(offset) = {a}
           /\ SinglesAt(offset) = {}
<1>1. PICK n \in 1 .. 32: NrLines = 32 * n
    BY DeviceLines
<1>2. a \in Array /\ ArrayAt(a) <= offset /\ offset < ArrayAt(a) + Count(a) * Width(a)
    BY DEF ArraysAt
<1>3. Count(a) \in Nat /\ Width(a) \in {4, 8} /\ ArrayAt(a) \in Nat
    BY <1>1, <1>2, Counts DEF Array, Width, ArrayAt
<1>4. Index(a, offset) \in 0 .. Count(a) - 1
    BY <1>2, <1>3, IndexInside DEF Index
<1> QED
    BY <1>1, <1>4, Apart

-----------------------------------------------------------------------------
(* What the guest's registers and the devices' fields hold are words. *)

\* A word of which the lower half is written.
LEMMA LowType ==
    ASSUME NEW slot \in Words, NEW bits \in SUBSET Bits
    PROVE  /\ Low(slot, bits) \in Words
           /\ Low(slot, bits).lo = bits
           /\ Low(slot, bits).hi = slot.hi
           /\ Low(slot, bits) = [lo |-> bits, hi |-> slot.hi]
BY DEF Low, Words

LEMMA WordType == ASSUME NEW bits \in SUBSET Bits PROVE Word(bits) \in Words /\ Word(bits).lo = bits
BY DEF Word, Words

\* Where the distributor's offsets lead: to one field at most, which is in its state.
LEMMA OneField ==
    ASSUME NEW o \in Offsets["dist"]
    PROVE  /\ o \in Nat
           /\ FieldsAt[o] = DistFields(o)
           /\ FieldsAt[o] \subseteq DOMAIN DistBoot
           /\ \A f, g \in FieldsAt[o]: f = g
<1>1. o \in Nat
    BY DeviceOffsets DEF Devs
<1>2. FieldsAt[o] = DistFields(o)
    BY DEF FieldsAt
<1>3. FieldsAt[o] \subseteq DOMAIN DistBoot
    BY DEF DistBoot
<1>4. \A s, t \in SinglesAt(o): s = t
    BY DEF SinglesAt, Single, SingleAt
<1>5. \A a, b \in ArraysAt(o): a = b
    BY <1>1, MapSound
<1>6. ArraysAt(o) # {} => SinglesAt(o) = {}
    BY <1>1, MapSound
<1>7. ASSUME NEW f \in DistFields(o), NEW g \in DistFields(o) PROVE f = g
    <2>1. CASE ArraysAt(o) = {}
        BY <1>4, <1>7, <2>1 DEF DistFields
    <2>2. CASE ArraysAt(o) # {}
        BY <1>5, <1>6, <1>7, <2>2 DEF DistFields
    <2> QED BY <2>1, <2>2
<1> QED BY <1>1, <1>2, <1>3, <1>7

\* The fields that a write touches are those a read of the same offset names.
Touched(o) == PlainFields(o) \union RouterFields(o) \union SetFields(o) \union ClearFields(o)

LEMMA WritesWhereItReads == ASSUME NEW o \in Offsets["dist"] PROVE Touched(o) \subseteq FieldsAt[o]
<1>1. FieldsAt[o] = DistFields(o)
    BY OneField
<1>2. PlainFields(o) \subseteq DistFields(o)
    BY DEF PlainFields, PlainArrays, DistFields
<1>3. RouterFields(o) \subseteq DistFields(o) /\ SetFields(o) \subseteq DistFields(o)
    BY DEF RouterFields, SetFields, DistFields
<1>4. ClearFields(o) \subseteq DistFields(o)
    <2> SUFFICES ASSUME NEW a \in ArraysAt(o), a = "icenabler"
                 PROVE  <<"isenabler", Index(a, o)>> \in DistFields(o)
        BY DEF ClearFields
    <2>1. <<IF a = "icenabler" THEN "isenabler" ELSE a, Index(a, o)>> \in DistFields(o)
        BY DEF DistFields
    <2> QED BY <2>1
<1> QED BY <1>1, <1>2, <1>3, <1>4 DEF Touched

\* What GetChar(async) returns is a byte.
LEMMA ReceivedType == ASSUME TypeOK PROVE (IF rx = <<>> THEN {} ELSE Head(rx)) \in SUBSET Bits
<1>1. CASE rx = <<>>
    BY <1>1
<1>2. CASE rx # <<>>
    <2>1. Head(rx) \in SUBSET (0 .. 7)
        BY <1>2 DEF TypeOK
    <2>2. 0 .. 7 \subseteq Bits
        BY DEF Bits
    <2>3. Head(rx) \in SUBSET Bits
        BY <2>1, <2>2
    <2> QED BY <1>2, <2>3
<1> QED BY <1>1, <1>2

\* Reads return words, and leave a slot a word.
LEMMA ReadType ==
    ASSUME TypeOK, NEW dev \in Devs, NEW o \in Offsets[dev], NEW slot \in Words
    PROVE  Read(dev, o, slot) \in Words
<1>1. CASE dev = "dist"
    <2>1. CASE FieldsAt[o] = {}
        BY <1>1, <2>1 DEF Read, DistRead
    <2>2. CASE FieldsAt[o] # {}
        <3>1. PICK f \in FieldsAt[o]: f = FirstField(FieldsAt[o])
            BY <2>2 DEF FirstField
        <3>2. dist[f] \in Words /\ dist[f].lo \in SUBSET Bits
            BY <1>1, <3>1, OneField DEF TypeOK, Words
        <3>3. Low(slot, dist[f].lo) \in Words
            BY <3>2, LowType
        <3>4. DistRead(o, slot) = IF f[1] = "irouter" THEN dist[f] ELSE Low(slot, dist[f].lo)
            BY <2>2, <3>1 DEF DistRead
        <3> QED BY <1>1, <3>2, <3>3, <3>4 DEF Read
    <2> QED BY <2>1, <2>2
<1>2. CASE dev = "redist"
    <2>1. redist.ctrl \in SUBSET Bits /\ redist.pidr2 \in SUBSET Bits /\ redist.typer \in Words
        BY DEF TypeOK
    <2>2. [redist.typer EXCEPT !.lo = @ \union {4}] \in Words
        BY <2>1 DEF Words, Bits
    <2>3. Low(slot, redist.ctrl) \in Words /\ Low(slot, redist.pidr2) \in Words
        BY <2>1, LowType
    <2> QED BY <1>2, <2>2, <2>3 DEF Read, RedistRead
<1>3. CASE dev = "uart"
    <2>1. /\ uart.imsc \in SUBSET Bits /\ uart.cr \in SUBSET Bits /\ uart.id \in SUBSET Bits
          /\ (IF rx = <<>> THEN {} ELSE {4}) \in SUBSET Bits
        BY DEF TypeOK, Bits
    <2>2. Flags(slot) \in SUBSET Bits
        <3>1. slot.lo \subseteq Bits /\ {4, 7} \subseteq Bits /\ {7} \subseteq Bits
            BY DEF Words, Bits
        <3> QED BY <3>1 DEF Flags
    <2>4. (IF rx = <<>> THEN {} ELSE Head(rx)) \in SUBSET Bits
        BY ReceivedType
    <2>3. UartRead(o, slot) = slot \/ \E bits \in SUBSET Bits: UartRead(o, slot) = Low(slot, bits)
        BY <2>1, <2>2, <2>4 DEF UartRead
    <2> QED BY <1>3, <2>3, LowType DEF Read
<1> QED BY <1>1, <1>2, <1>3 DEF Devs

\* The frame: a register comes back as its slot left it, and a slot starts as its register.
LEMMA FrameType ==
    ASSUME TypeOK
    PROVE  /\ Saved \in [{0, 30, XZR, LrEl1} -> Words]
           /\ \A r \in GuestRegs: Saved[r] = x[r]
           /\ Restored(Saved) = x
<1>1. HypSP \in Words
    BY DEF HypSP, Words, Bits
<1>2. Saved \in [{0, 30, XZR, LrEl1} -> Words] /\ \A r \in GuestRegs: Saved[r] = x[r]
    BY <1>1 DEF Saved, GuestRegs, XZR, LrEl1, TypeOK
<1>3. Restored(Saved) = [r \in GuestRegs |-> x[r]]
    BY <1>2 DEF Restored
<1>4. x = [r \in GuestRegs |-> x[r]]
    BY DEF TypeOK
<1> QED BY <1>2, <1>3, <1>4

LEMMA LoadedFrame ==
    ASSUME TypeOK, NEW srt \in GuestRegs \union {XZR}, NEW v \in Words
    PROVE  /\ Restored([Saved EXCEPT ![srt] = v]) \in [GuestRegs -> Words]
           /\ \A r \in GuestRegs: Restored([Saved EXCEPT ![srt] = v])[r] = IF r = srt THEN v ELSE x[r]
<1>1. Saved \in [{0, 30, XZR, LrEl1} -> Words] /\ \A r \in GuestRegs: Saved[r] = x[r] /\ x[r] \in Words
    BY FrameType DEF TypeOK
<1>2. \A r \in GuestRegs: [Saved EXCEPT ![srt] = v][r] = IF r = srt THEN v ELSE x[r]
    BY <1>1 DEF GuestRegs, XZR
<1> QED BY <1>1, <1>2 DEF Restored

-----------------------------------------------------------------------------
(* Each kind of step. *)

\* A load changes registers of the guest, and the key buffer.
LEMMA LoadKeepsTypes ==
    ASSUME TypeOK, NEW dev \in Devs, NEW o \in Offsets[dev], NEW sas,
           NEW srt \in GuestRegs \union {XZR}, Load(dev, o, sas, srt)
    PROVE  TypeOK'
<1>1. PICK v \in Words: v = Read(dev, o, Saved[srt])
    <2>1. Saved[srt] \in Words
        BY FrameType DEF GuestRegs
    <2> QED BY <2>1, ReadType
<1>2. x' = Restored([Saved EXCEPT ![srt] = v])
    BY <1>1 DEF Load
<1>3. x' \in [GuestRegs -> Words]
    BY <1>2, LoadedFrame
<1>4. rx' \in Seq(SUBSET (0 .. 7))
    <2>1. rx # <<>> => Tail(rx) \in Seq(SUBSET (0 .. 7))
        BY DEF TypeOK
    <2>2. rx' = Taken(dev, o)
        BY DEF Load
    <2> QED BY <2>1, <2>2 DEF Taken, TypeOK
<1>5. insn'.dev = dev /\ insn'.offset = o /\ traps' \in 0 .. MaxTraps /\ keys' = keys
    BY DeviceBounds DEF Load, Trap, TypeOK
<1> QED BY <1>3, <1>4, <1>5 DEF Load, TypeOK

\* What a store may write into a field of the distributor.
LEMMA DistWriteType ==
    ASSUME TypeOK, NEW o \in Offsets["dist"], NEW v \in Words, DistWrite(o, v)
    PROVE  dist' \in [DOMAIN DistBoot -> Words] /\ ph' \subseteq Owned
<1>1. v.lo \in SUBSET Bits
    BY DEF Words
<1>2. \A f \in DOMAIN dist: /\ dist[f] \in Words
                            /\ Low(dist[f], v.lo) \in Words
                            /\ Low(dist[f], dist[f].lo \union v.lo) \in Words
                            /\ Low(dist[f], dist[f].lo \ v.lo) \in Words
    <2> TAKE f \in DOMAIN dist
    <2>1. dist[f] \in Words /\ dist[f].lo \in SUBSET Bits
        BY DEF TypeOK, Words
    <2> QED BY <1>1, <2>1, LowType
<1>3. DOMAIN dist = DOMAIN DistBoot
    BY DEF TypeOK
<1>4. PICK D: D = DOMAIN DistBoot
    OBVIOUS
<1>5. \A f \in D: dist'[f] \in Words
    BY <1>2, <1>3, <1>4 DEF DistWrite
<1>6. dist' = [f \in D |-> dist'[f]]
    BY <1>3, <1>4 DEF DistWrite
<1>7. ph' \subseteq Owned
    BY DEF DistWrite, SpiOf, TypeOK
<1> QED BY <1>4, <1>5, <1>6, <1>7

\* A store changes the state of its device.
LEMMA StoreKeepsTypes ==
    ASSUME TypeOK, NEW dev \in Devs, NEW o \in Offsets[dev], NEW sas,
           NEW srt \in GuestRegs \union {XZR}, Store(dev, o, sas, srt)
    PROVE  TypeOK'
<1>1. PICK v \in Words: v = Saved[srt]
    BY FrameType DEF GuestRegs
<1>2. x' = x
    BY FrameType DEF Store
<1>3. insn'.dev = dev /\ insn'.offset = o /\ traps' \in 0 .. MaxTraps /\ keys' = keys
    BY DeviceBounds DEF Store, Trap, TypeOK
<1>4. fault' = fault /\ rx' = rx
    BY DEF Store
<1>5. v.lo \in SUBSET Bits
    BY DEF Words
<1>6. CASE dev = "dist"
    <2>1. DistWrite(o, v)
        BY <1>1, <1>6 DEF Store, Write
    <2>2. UNCHANGED <<redist, uart, sent>>
        BY <2>1 DEF DistWrite
    <2> QED BY <1>2, <1>3, <1>4, <1>6, <2>1, <2>2, DistWriteType DEF TypeOK
<1>7. CASE dev = "redist"
    <2>1. RedistWrite(o, v)
        BY <1>1, <1>7 DEF Store, Write
    <2>2. UNCHANGED <<dist, uart, sent>>
        BY <2>1 DEF RedistWrite
    <2>3. redist' \in [ctrl : SUBSET Bits, typer : Words, pidr2 : SUBSET Bits,
                       isenabler0 : SUBSET Bits]
        <3>1. [redist EXCEPT !.isenabler0 = @ \union v.lo]
                \in [ctrl : SUBSET Bits, typer : Words, pidr2 : SUBSET Bits, isenabler0 : SUBSET Bits]
            BY <1>5 DEF TypeOK
        <3> QED BY <2>1, <3>1 DEF RedistWrite, TypeOK
    <2>4. ph' \subseteq Owned
        BY <2>1 DEF RedistWrite, PpiOf, TypeOK
    <2> QED BY <1>2, <1>3, <1>4, <2>2, <2>3, <2>4 DEF TypeOK
<1>8. CASE dev = "uart"
    <2>1. UartWrite(o, v)
        BY <1>1, <1>8 DEF Store, Write
    <2>2. UNCHANGED <<dist, redist, ph>>
        BY <2>1 DEF UartWrite
    <2>3. uart' \in [imsc : SUBSET Bits, cr : SUBSET Bits, id : SUBSET Bits]
        BY <1>5, <2>1 DEF UartWrite, TypeOK
    <2>4. Byte(v.lo) \subseteq 0 .. 7
        BY <1>5 DEF Byte, Bits
    <2>5. sent' \subseteq 0 .. 7
        BY <2>1, <2>4 DEF UartWrite, TypeOK
    <2> QED BY <1>2, <1>3, <1>4, <2>2, <2>3, <2>5 DEF TypeOK
<1> QED BY <1>6, <1>7, <1>8 DEF Devs

\* The states a new VM starts from.
LEMMA BootTypes ==
    /\ GuestStart \subseteq [GuestRegs -> Words]
    /\ DistBoot \in [DOMAIN DistBoot -> Words]
    /\ RedistBoot \in [ctrl : SUBSET Bits, typer : Words, pidr2 : SUBSET Bits, isenabler0 : SUBSET Bits]
    /\ UartBoot \in [imsc : SUBSET Bits, cr : SUBSET Bits, id : SUBSET Bits]
<1>1. \A bits \in SUBSET Bits: Word(bits) \in Words
    BY WordType
<1>2. /\ {0, 1} \in SUBSET Bits /\ {2} \in SUBSET Bits /\ {3} \in SUBSET Bits /\ {4} \in SUBSET Bits
      /\ {4, 5} \in SUBSET Bits /\ {} \in SUBSET Bits /\ {0, 8, 9} \in SUBSET Bits /\ {0, 4} \in SUBSET Bits
    BY DEF Bits
<1>3. GuestStart \subseteq [GuestRegs -> Words]
    BY <1>1, <1>2, DeviceValues DEF GuestStart
<1>4. DistBoot \in [DOMAIN DistBoot -> Words]
    <2>1. PICK D: D = UNION {FieldsAt[o] : o \in Offsets["dist"]}
        OBVIOUS
    <2>2. DistBoot = [f \in D |-> Word(CASE f[1] = "typer" -> {2} [] f[1] = "pidr2" -> {4, 5}
                                         [] OTHER -> {})]
        BY <2>1 DEF DistBoot
    <2>3. \A f \in D: DistBoot[f] \in {Word({2}), Word({4, 5}), Word({})}
        BY <2>2
    <2> QED BY <1>1, <1>2, <2>2, <2>3
<1>5. RedistBoot \in [ctrl : SUBSET Bits, typer : Words, pidr2 : SUBSET Bits, isenabler0 : SUBSET Bits]
    BY <1>1, <1>2 DEF RedistBoot
<1>6. UartBoot \in [imsc : SUBSET Bits, cr : SUBSET Bits, id : SUBSET Bits]
    BY <1>2 DEF UartBoot
<1> QED BY <1>3, <1>4, <1>5, <1>6

\* Registers of the guest and of the devices are words, bytes sent are bytes and the guest's
\* lines are its own, for every configuration of lines and whatever the guest writes where.
THEOREM TypeAlwaysOK == Spec => []TypeOK
<1>1. Init => TypeOK
    <2> SUFFICES ASSUME Init PROVE TypeOK
        OBVIOUS
    <2>1. x \in [GuestRegs -> Words] /\ dist \in [DOMAIN DistBoot -> Words]
        BY BootTypes DEF Init
    <2>2. rx \in Seq(SUBSET (0 .. 7)) /\ sent \subseteq 0 .. 7 /\ ph \subseteq Owned /\ fault \in BOOLEAN
        <3>1. rx = <<>> /\ sent = {} /\ ph = {} /\ fault = FALSE
            BY DEF Init
        <3>2. <<>> \in Seq(SUBSET (0 .. 7))
            OBVIOUS
        <3>3. fault \in BOOLEAN
            BY <3>1, Zenon
        <3> QED BY <3>1, <3>2, <3>3
    <2>3. insn.dev \notin Devs /\ traps \in 0 .. MaxTraps /\ keys \in 0 .. MaxKeys
        BY DeviceBounds DEF Init, NoInsn, Devs
    <2> QED BY <2>1, <2>2, <2>3, BootTypes DEF Init, TypeOK
<1>2. TypeOK /\ [Next]_vars => TypeOK'
    <2> SUFFICES ASSUME TypeOK, [Next]_vars PROVE TypeOK'
        OBVIOUS
    <2>1. ASSUME NEW dev \in Devs, NEW o \in Offsets[dev], NEW sas,
                 NEW srt \in GuestRegs \union {XZR}, Load(dev, o, sas, srt) \/ Store(dev, o, sas, srt)
          PROVE  TypeOK'
        BY <2>1, LoadKeepsTypes, StoreKeepsTypes
    <2>2. CASE Stray
        BY <2>2, DeviceBounds DEF Stray, Trap, NoInsn, TypeOK, Devs
    <2>3. CASE Key
        <3>1. keys + 1 \in 0 .. 7 /\ keys' = keys + 1 /\ keys' \in 0 .. MaxKeys
            BY <2>3, DeviceBounds DEF Key, TypeOK
        <3>2. rx' \in Seq(SUBSET (0 .. 7))
            <4>1. {0, keys + 1} \in SUBSET (0 .. 7)
                BY <3>1
            <4> QED BY <2>3, <4>1 DEF Key, TypeOK
        <3> QED BY <2>3, <3>1, <3>2 DEF Key, TypeOK
    <2>4. CASE Restart
        BY <2>4, BootTypes DEF Restart, TypeOK
    <2>5. CASE Halted \/ UNCHANGED vars
        BY <2>5 DEF Halted, vars, TypeOK
    <2> QED BY <2>1, <2>2, <2>3, <2>4, <2>5 DEF Next
<1> QED BY <1>1, <1>2, PTL DEF Spec

-----------------------------------------------------------------------------
(* Loads and stores as the guest sees them. *)

\* What a device writes into a slot that holds nothing else does not depend on the slot.
LEMMA ReadIsValue ==
    ASSUME TypeOK, NEW dev \in Devs, NEW o \in Offsets[dev], NEW slot \in Words,
           Readable(dev, o), slot.hi = {}, slot.lo \intersect LeftAlone(dev, o) = {}
    PROVE  Read(dev, o, slot) = Read(dev, o, Word({}))
<1>1. \A bits \in SUBSET Bits: Low(slot, bits) = Low(Word({}), bits)
    <2> TAKE bits \in SUBSET Bits
    <2>1. Low(slot, bits) = [lo |-> bits, hi |-> {}]
        BY LowType
    <2>2. Word({}) \in Words /\ Word({}).hi = {}
        BY WordType DEF Word
    <2>3. Low(Word({}), bits) = [lo |-> bits, hi |-> {}]
        BY <2>2, LowType
    <2> QED BY <2>1, <2>3
<1>2. CASE dev = "dist"
    <2>1. FieldsAt[o] # {}
        BY <1>2 DEF Readable
    <2>2. PICK f \in FieldsAt[o]: f = FirstField(FieldsAt[o])
        BY <2>1 DEF FirstField
    <2>3. dist[f].lo \in SUBSET Bits
        BY <1>2, <2>2, OneField DEF TypeOK, Words
    <2> QED BY <1>1, <1>2, <2>1, <2>2, <2>3 DEF Read, DistRead
<1>3. CASE dev = "redist"
    <2>1. redist.ctrl \in SUBSET Bits /\ redist.pidr2 \in SUBSET Bits
        BY DEF TypeOK
    <2>2. o \in {0, RedistTyper, RedistPidr2}
        BY <1>3 DEF Readable
    <2> QED BY <1>1, <1>3, <2>1, <2>2 DEF Read, RedistRead
<1>4. CASE dev = "uart"
    <2>1. /\ uart.imsc \in SUBSET Bits /\ uart.cr \in SUBSET Bits /\ uart.id \in SUBSET Bits
          /\ (IF rx = <<>> THEN {} ELSE {4}) \in SUBSET Bits
          /\ (IF rx = <<>> THEN {4, 7} ELSE {7}) \in SUBSET Bits
        BY DEF TypeOK, Bits
    <2>2. (IF rx = <<>> THEN {} ELSE Head(rx)) \in SUBSET Bits
        BY ReceivedType
    <2>3. o \in {UartTDR, UartFR, UartIMSC, UartCR, UartRIS} \union UartIds
        BY <1>4 DEF Readable
    <2>4. CASE o = UartFR
        <3>1. {b \in slot.lo : b >= 16} = {} /\ {b \in Word({}).lo : b >= 16} = {}
            <4>1. slot.lo \intersect (16 .. 31) = {}
                BY <1>4, <2>4 DEF LeftAlone
            <4>2. slot.lo \subseteq 0 .. 31
                BY DEF Words, Bits
            <4>3. Word({}).lo = {}
                BY DEF Word
            <4> QED BY <4>1, <4>2, <4>3
        <3>2. /\ Flags(slot) = IF rx = <<>> THEN {4, 7} ELSE {7}
              /\ Flags(Word({})) = IF rx = <<>> THEN {4, 7} ELSE {7}
            BY <3>1 DEF Flags
        <3>3. UartRead(o, slot) = Low(slot, Flags(slot))
              /\ UartRead(o, Word({})) = Low(Word({}), Flags(Word({})))
            <4>1. /\ o # UartTDR /\ o # UartIMSC /\ o # UartCR /\ o # UartRIS
                  /\ o \notin UartIds
                BY <2>4 DEF UartTDR, UartFR, UartIMSC, UartCR, UartRIS, UartIds
            <4> QED BY <2>4, <4>1 DEF UartRead
        <3> QED BY <1>1, <1>4, <2>1, <3>2, <3>3 DEF Read
    <2>5. CASE o # UartFR
        BY <1>1, <1>4, <2>1, <2>2, <2>3, <2>5 DEF Read, UartRead
    <2> QED BY <2>4, <2>5
<1> QED BY <1>2, <1>3, <1>4 DEF Devs

\* A trap that ends without a fault is a load or a store.
LEMMA TrappedIs ==
    ASSUME TypeOK, Next, Trapped
    PROVE  \E dev \in Devs: \E o \in Offsets[dev], sas \in Sizes, srt \in GuestRegs \union {XZR}:
               Load(dev, o, sas, srt) \/ Store(dev, o, sas, srt)
<1>1. traps' # traps /\ ~fault'
    BY DeviceBounds DEF TypeOK, Trapped
<1> QED BY <1>1 DEF Next, Stray, Key, Restart, Halted, vars

\* Without a surplus hardware and the devices return the same: all of the register.
LEMMA WholeRegister ==
    ASSUME NEW v \in Words, NEW sas, ~Surplus(v, sas)
    PROVE  v = Hardware(v, sas)
<1>1. v = [lo |-> v.lo, hi |-> v.hi]
    BY DEF Words
<1>2. v.lo \intersect LowBits(sas) = v.lo
    BY DEF Surplus
<1>3. (IF sas = 3 THEN v.hi ELSE {}) = v.hi
    BY DEF Surplus
<1> QED BY <1>1, <1>2, <1>3 DEF Hardware

\* Whatever the guest loads from a device, into whichever register, it ends as if the device
\* were hardware, except for what LoadLikeHardware names, for every register map, size of
\* access and value of the guest's registers.
THEOREM LoadsLikeHardware == Spec => LoadLikeHardware
<1>1. TypeOK /\ [Next]_vars =>
        [Trapped /\ ~insn'.write =>
            \A r \in GuestRegs:
                IF r # insn'.srt THEN x'[r] = x[r]
                ELSE /\ Proper(insn'.dev, insn'.offset, insn'.sas)
                     /\ x[r].hi = {}
                     /\ x[r].lo \intersect LeftAlone(insn'.dev, insn'.offset) = {}
                     /\ ~Surplus(Value(insn'.dev, insn'.offset), insn'.sas)
                     => x'[r] = Hardware(Value(insn'.dev, insn'.offset), insn'.sas)]_vars
    <2> SUFFICES ASSUME TypeOK, Next, Trapped, ~insn'.write, NEW r \in GuestRegs
                 PROVE  IF r # insn'.srt THEN x'[r] = x[r]
                        ELSE /\ Proper(insn'.dev, insn'.offset, insn'.sas)
                             /\ x[r].hi = {}
                             /\ x[r].lo \intersect LeftAlone(insn'.dev, insn'.offset) = {}
                             /\ ~Surplus(Value(insn'.dev, insn'.offset), insn'.sas)
                             => x'[r] = Hardware(Value(insn'.dev, insn'.offset), insn'.sas)
        OBVIOUS
    <2>1. PICK dev \in Devs: \E o \in Offsets[dev], sas \in Sizes, srt \in GuestRegs \union {XZR}:
                 Load(dev, o, sas, srt) \/ Store(dev, o, sas, srt)
        BY TrappedIs
    <2>2. PICK o \in Offsets[dev], sas \in Sizes, srt \in GuestRegs \union {XZR}:
                 Load(dev, o, sas, srt) \/ Store(dev, o, sas, srt)
        BY <2>1
    <2>3. Load(dev, o, sas, srt)
        BY <2>2 DEF Store, Trap
    <2>4. insn'.dev = dev /\ insn'.offset = o /\ insn'.srt = srt /\ insn'.sas = sas
        BY <2>3 DEF Load, Trap
    <2>5. PICK v \in Words: v = Read(dev, o, Saved[srt])
        <3>1. Saved[srt] \in Words
            BY FrameType DEF GuestRegs
        <3> QED BY <3>1, ReadType
    <2>6. x' = Restored([Saved EXCEPT ![srt] = v])
        BY <2>3, <2>5 DEF Load
    <2>7. x'[r] = IF r = srt THEN v ELSE x[r]
        BY <2>6, LoadedFrame
    <2>8. x[r] \in Words /\ Saved[r] = x[r]
        BY FrameType DEF TypeOK
    <2>9. CASE r = srt
        <3>1. v = Read(dev, o, x[r])
            BY <2>5, <2>8, <2>9
        <3>2. Proper(dev, o, sas) /\ x[r].hi = {} /\ x[r].lo \intersect LeftAlone(dev, o) = {}
              => Read(dev, o, x[r]) = Value(dev, o)
            BY <2>8, ReadIsValue DEF Proper, Value
        <3>3. Value(dev, o) \in Words
            <4>1. Word({}) \in Words
                BY WordType
            <4> QED BY <4>1, ReadType DEF Value
        <3>4. ~Surplus(Value(dev, o), sas) => Value(dev, o) = Hardware(Value(dev, o), sas)
            BY <3>3, WholeRegister
        <3> QED BY <2>4, <2>7, <2>9, <3>1, <3>2, <3>4
    <2> QED BY <2>4, <2>7, <2>9
<1> QED BY <1>1, TypeAlwaysOK, PTL DEF Spec, LoadLikeHardware

\* A field that a write does not touch keeps its value.
LEMMA OtherFieldsKept ==
    ASSUME TypeOK, NEW o \in Offsets["dist"], NEW v, DistWrite(o, v),
           NEW f \in DOMAIN DistBoot, f \notin FieldsAt[o]
    PROVE  dist'[f] = dist[f]
<1>1. f \notin PlainFields(o) /\ f \notin RouterFields(o) /\ f \notin SetFields(o)
      /\ f \notin ClearFields(o)
    BY WritesWhereItReads DEF Touched
<1>2. f \in DOMAIN dist
    BY DEF TypeOK
<1> QED BY <1>1, <1>2 DEF DistWrite

\* Registers other than the one a store names read as before.
LEMMA OthersReadAsBefore ==
    ASSUME TypeOK, NEW dev \in Devs, NEW o \in Offsets[dev], NEW sas,
           NEW srt \in GuestRegs \union {XZR}, Store(dev, o, sas, srt),
           NEW kd \in Devs, NEW ko \in Offsets[kd], Readable(kd, ko)
    PROVE  \/ Value(kd, ko)' = Value(kd, ko)
           \/ kd = dev /\ SameRegister(kd, ko, o)
<1>0. rx' = rx
    BY DEF Store
<1>1. CASE kd = "dist"
    <2>1. PICK f \in FieldsAt[ko]: f = FirstField(FieldsAt[ko])
        BY <1>1 DEF Readable, FirstField
    <2>2. f \in DOMAIN DistBoot /\ FieldsAt[ko] # {}
        BY <1>1, <2>1, OneField
    <2>3. dist'[f] = dist[f] => Value(kd, ko)' = Value(kd, ko)
        BY <1>1, <2>1, <2>2 DEF Value, Read, DistRead
    <2>4. CASE dev # "dist"
        <3>1. dist' = dist
            BY <2>4 DEF Store, Write, RedistWrite, UartWrite
        <3> QED BY <2>3, <3>1
    <2>5. CASE dev = "dist" /\ f \notin FieldsAt[o]
        <3>1. DistWrite(o, Saved[srt])
            BY <2>5 DEF Store, Write
        <3> QED BY <2>2, <2>3, <2>5, <3>1, OtherFieldsKept
    <2>6. CASE dev = "dist" /\ f \in FieldsAt[o]
        BY <1>1, <2>1, <2>6 DEF SameRegister
    <2> QED BY <2>4, <2>5, <2>6
<1>2. CASE kd = "redist"
    <2>1. redist'.ctrl = redist.ctrl /\ redist'.typer = redist.typer /\ redist'.pidr2 = redist.pidr2
        <3>1. CASE dev = "redist"
            <4>1. RedistWrite(o, Saved[srt])
                BY <3>1 DEF Store, Write
            <4> QED BY <4>1 DEF RedistWrite, TypeOK
        <3>2. CASE dev # "redist"
            BY <3>2 DEF Store, Write, DistWrite, UartWrite
        <3> QED BY <3>1, <3>2
    <2>2. ko \in {0, RedistTyper, RedistPidr2}
        BY <1>2 DEF Readable
    <2> QED BY <1>2, <2>1, <2>2 DEF Value, Read, RedistRead
<1>3. CASE kd = "uart"
    <2>1. CASE dev # "uart"
        <3>1. uart' = uart
            BY <2>1 DEF Store, Write, DistWrite, RedistWrite
        <3> QED BY <1>0, <1>3, <3>1 DEF Value, Read, UartRead, Flags
    <2>2. CASE dev = "uart" /\ ko # o
        <3>1. UartWrite(o, Saved[srt])
            BY <2>2 DEF Store, Write
        <3>2. /\ uart'.id = uart.id
              /\ o # UartIMSC => uart'.imsc = uart.imsc
              /\ o # UartCR => uart'.cr = uart.cr
            BY <3>1 DEF UartWrite, TypeOK, UartIMSC, UartCR
        <3> QED BY <1>0, <1>3, <2>2, <3>2
                DEF Value, Read, UartRead, Flags, UartTDR, UartFR, UartIMSC, UartCR, UartRIS, UartIds
    <2>3. CASE dev = "uart" /\ ko = o
        BY <1>3, <2>3 DEF SameRegister
    <2> QED BY <2>1, <2>2, <2>3
<1> QED BY <1>1, <1>2, <1>3 DEF Devs

\* A plain field of the distributor reads as what was stored into it.
LEMMA PlainReadsBack ==
    ASSUME TypeOK, NEW o \in Offsets["dist"], NEW v \in Words, DistWrite(o, v), PlainFields(o) # {}
    PROVE  Value("dist", o)'.lo = v.lo
<1>1. PICK f \in PlainFields(o): TRUE
    OBVIOUS
<1>2. f \in FieldsAt[o]
    BY <1>1, WritesWhereItReads DEF Touched
<1>3. FirstField(FieldsAt[o]) = f /\ FieldsAt[o] # {}
    BY <1>2, OneField DEF FirstField
<1>4. /\ f[1] # "irouter"
      /\ f \notin RouterFields(o) /\ f \notin SetFields(o) /\ f \notin ClearFields(o)
    <2>1. f[1] # "irouter" /\ f[1] # "isenabler"
        BY <1>1 DEF PlainFields, PlainArrays
    <2> QED BY <2>1 DEF RouterFields, SetFields, ClearFields
<1>5. f \in DOMAIN dist /\ dist[f] \in Words /\ v.lo \in SUBSET Bits
    BY <1>2, OneField DEF TypeOK, Words
<1>6. dist'[f] = Low(dist[f], v.lo)
    BY <1>1, <1>4, <1>5 DEF DistWrite
<1>7. dist'[f].lo = v.lo
    BY <1>5, <1>6, LowType
<1>8. Value("dist", o)' = Low(Word({}), dist'[f].lo)
    BY <1>3, <1>4 DEF Value, Read, DistRead
<1>9. Word({}) \in Words
    BY WordType
<1> QED BY <1>5, <1>7, <1>8, <1>9, LowType

\* A store goes where it is aimed and nowhere else: no other register of any device reads
\* differently, and a plain one reads as what was stored, for every number of lines.
THEOREM StoresReadBack == Spec => StoreReadsBack
<1>1. TypeOK /\ [Next]_vars =>
        [Trapped /\ insn'.write =>
            /\ x' = x
            /\ \A k \in Known:
                  \/ Value(k[1], k[2])' = Value(k[1], k[2])
                  \/ k[1] = insn'.dev /\ SameRegister(k[1], k[2], insn'.offset)
            /\ \A o \in Offsets["dist"]:
                  insn'.dev = "dist" /\ insn'.offset = o /\ insn'.srt # XZR /\ PlainFields(o) # {}
                  => Value("dist", o)'.lo = x[insn'.srt].lo]_vars
    <2> SUFFICES ASSUME TypeOK, Next, Trapped, insn'.write
                 PROVE  /\ x' = x
                        /\ \A k \in Known:
                              \/ Value(k[1], k[2])' = Value(k[1], k[2])
                              \/ k[1] = insn'.dev /\ SameRegister(k[1], k[2], insn'.offset)
                        /\ \A o \in Offsets["dist"]:
                              insn'.dev = "dist" /\ insn'.offset = o /\ insn'.srt # XZR
                              /\ PlainFields(o) # {}
                              => Value("dist", o)'.lo = x[insn'.srt].lo
        OBVIOUS
    <2>1. PICK dev \in Devs: \E o \in Offsets[dev], sas \in Sizes, srt \in GuestRegs \union {XZR}:
                 Load(dev, o, sas, srt) \/ Store(dev, o, sas, srt)
        BY TrappedIs
    <2>2. PICK o \in Offsets[dev], sas \in Sizes, srt \in GuestRegs \union {XZR}:
                 Load(dev, o, sas, srt) \/ Store(dev, o, sas, srt)
        BY <2>1
    <2>3. Store(dev, o, sas, srt)
        BY <2>2 DEF Load, Trap
    <2>4. insn'.dev = dev /\ insn'.offset = o /\ insn'.srt = srt
        BY <2>3 DEF Store, Trap
    <2>5. x' = x
        BY <2>3, FrameType DEF Store
    <2>6. ASSUME NEW k \in Known
          PROVE  \/ Value(k[1], k[2])' = Value(k[1], k[2])
                 \/ k[1] = insn'.dev /\ SameRegister(k[1], k[2], insn'.offset)
        <3>1. PICK kd \in Devs: \E ko \in Offsets[kd]: k = <<kd, ko>> /\ Readable(kd, ko)
            BY <2>6 DEF Known
        <3>2. PICK ko \in Offsets[kd]: k = <<kd, ko>> /\ Readable(kd, ko)
            BY <3>1
        <3>3. \/ Value(kd, ko)' = Value(kd, ko)
              \/ kd = dev /\ SameRegister(kd, ko, o)
            BY <2>3, <3>2, OthersReadAsBefore
        <3>4. k[1] = kd /\ k[2] = ko
            BY <3>2
        <3> QED BY <2>4, <3>3, <3>4
    <2>7. ASSUME dev = "dist", srt # XZR, PlainFields(o) # {}
          PROVE  Value("dist", o)'.lo = x[srt].lo
        <3>1. Saved[srt] = x[srt] /\ Saved[srt] \in Words
            BY <2>7, FrameType DEF TypeOK
        <3>2. DistWrite(o, Saved[srt])
            BY <2>3, <2>7 DEF Store, Write
        <3>3. Value("dist", o)'.lo = Saved[srt].lo
            BY <2>7, <3>1, <3>2, PlainReadsBack
        <3> QED BY <3>1, <3>3
    <2> QED BY <2>4, <2>5, <2>6, <2>7
<1> QED BY <1>1, TypeAlwaysOK, PTL DEF Spec, StoreReadsBack

\* No access of the guest reaches beyond vGicState, or two registers at once: DecodeSound
\* holds for every number of lines and whatever offsets the guest uses.
THEOREM DecodeAlwaysSound == Spec => []DecodeSound
<1>1. Init => insn.offset \in Nat
    BY DEF Init, NoInsn
<1>2. insn.offset \in Nat /\ [Next]_vars => (insn.offset \in Nat)'
    <2> SUFFICES ASSUME insn.offset \in Nat, [Next]_vars PROVE insn'.offset \in Nat
        OBVIOUS
    <2>1. ASSUME NEW dev \in Devs, NEW offset \in Offsets[dev], NEW sas, NEW srt,
                 Load(dev, offset, sas, srt) \/ Store(dev, offset, sas, srt)
          PROVE  insn'.offset \in Nat
        <3>1. insn'.offset = offset
            BY <2>1 DEF Load, Store, Trap
        <3> QED
            BY <3>1, DeviceOffsets
    <2>2. CASE Stray
        BY <2>2 DEF Stray, Trap, NoInsn
    <2>3. CASE Key \/ Restart \/ Halted \/ UNCHANGED vars
        BY <2>3 DEF Key, Restart, Halted, vars
    <2> QED
        BY <2>1, <2>2, <2>3 DEF Next
<1>3. insn.offset \in Nat => DecodeSound
    BY MapSound DEF DecodeSound
<1> QED
    BY <1>1, <1>2, <1>3, PTL DEF Spec
=============================================================================
