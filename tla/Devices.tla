------------------------------- MODULE Devices -------------------------------
(***************************************************************************)
(* What a load or store of the guest to an emulated device does: the       *)
(* vector saves the guest's registers in a frame, Do_Memory_Trap decodes   *)
(* the syndrome and lets the device's Read or Write work on the register's *)
(* slot of the frame, and the vector restores the registers.  All of it    *)
(* runs with IRQs masked, so a trap is one action.                         *)
(*                                                                         *)
(* The devices are the virtual distributor, redistributor and UART.  A     *)
(* word is the set of its bits; a 64-bit register has two.  What an enable *)
(* means for the delivery of interrupts is in VirtGic.                     *)
(*                                                                         *)
(* An operator whose name starts with Bug is not part of the model.        *)
(***************************************************************************)
EXTENDS Integers, FiniteSets, Sequences

CONSTANTS
    NrLines,    \* _gicd_nr_lines
    Owned,      \* lines the VM configuration assigns to the guest
    Offsets,    \* the offsets the guest uses, for each device
    Sizes,      \* the sizes of its accesses, as the syndrome has them: log2 of the bytes
    X0,         \* what the guest may have in x0 at the start
    MaxTraps,   \* bound of the model: loads and stores in a behaviour
    MaxKeys     \* bound of the model: keys that come in, told apart by a bit of their byte

Devs == {"dist", "redist", "uart"}

ASSUME DeviceLines ==
    /\ NrLines \in {32 * n : n \in 1 .. 32}
    /\ Owned \subseteq 0 .. NrLines - 1
ASSUME DeviceOffsets == Offsets \in [Devs -> SUBSET Nat]
ASSUME DeviceBounds == MaxTraps \in Nat /\ MaxKeys \in 0 .. 7

Bits  == 0 .. 31
Words == [lo : SUBSET Bits, hi : SUBSET Bits]
Word(bits) == [lo |-> bits, hi |-> {}]

ASSUME DeviceValues == X0 \subseteq Words

VARIABLES
    x,          \* the guest's general registers
    fault,      \* Fault_Mode
    dist,       \* vGicState of the distributor
    redist,     \* vRedistState
    uart,       \* regState of the virtual UART
    ph,         \* guest lines enabled in the physical GIC
    rx,         \* the console's key buffer
    sent,       \* the last byte handed to the UART
    \* history
    insn,       \* the last instruction that trapped
    traps, keys \* how many there were

vars == <<x, fault, dist, redist, uart, ph, rx, sent, insn, traps, keys>>

\* The registers in which a fault of the frame would be seen: the first, and the link
\* register.  Number 31 is the zero register.
GuestRegs == {0, 30}
XZR == 31

-----------------------------------------------------------------------------
(* The register maps. *)

RegionSize == [dist |-> 65536, redist |-> 16121856, uart |-> 4096]

\* Single registers and arrays of the distributor, and where they begin.
Single == {"ctrl", "typer", "iidr", "typer2", "pidr2"}
SingleAt(s) == CASE s = "ctrl"   -> 0
                 [] s = "typer"  -> 4
                 [] s = "iidr"   -> 8
                 [] s = "typer2" -> 12
                 [] s = "pidr2"  -> 65512
Array == {"igroupr", "isenabler", "icenabler", "isactiver", "icactiver", "ipriorityr",
          "icfgr", "irouter"}
ArrayAt(a) == CASE a = "igroupr"    -> 128
                [] a = "isenabler"  -> 256
                [] a = "icenabler"  -> 384
                [] a = "isactiver"  -> 768
                [] a = "icactiver"  -> 896
                [] a = "ipriorityr" -> 1024
                [] a = "icfgr"      -> 3072
                [] a = "irouter"    -> 24832
Count(a) == CASE a = "ipriorityr" -> NrLines \div 4
              [] a = "icfgr"      -> NrLines \div 16
              [] a = "irouter"    -> NrLines
              [] OTHER            -> NrLines \div 32
Width(a) == IF a = "irouter" THEN 8 ELSE 4

\* The range checks of VirtGicDistributor::Read and Write.
BugArraysAtOneMore(offset) ==
    {a \in Array : ArrayAt(a) <= offset /\ offset <= ArrayAt(a) + Count(a) * Width(a)}

ArraysAt(offset) ==
    {a \in Array : ArrayAt(a) <= offset /\ offset < ArrayAt(a) + Count(a) * Width(a)}
SinglesAt(offset) == {s \in Single : SingleAt(s) = offset}
Index(a, offset)  == (offset - ArrayAt(a)) \div Width(a)

\* The field of vGicState that a read returns: an ICENABLER reads as the ISENABLER.
DistFields(offset) ==
    {<<s, 0>> : s \in SinglesAt(offset)}
    \union {<<IF a = "icenabler" THEN "isenabler" ELSE a, Index(a, offset)>> :
            a \in ArraysAt(offset)}

\* The same for the offsets in use.
FieldsAt == [o \in Offsets["dist"] |-> DistFields(o)]

RedistTyper == 8
RedistPidr2 == 65512
RedistIsenabler0 == 65536 + 256     \* in the SGI frame

UartTDR == 0
UartFR == 24
UartCR == 48
UartIMSC == 56
UartRIS == 60
UartIds == {4064 + 4 * i : i \in 0 .. 7}

\* What the boot code saved, and what a virtual device starts with.
DistBoot   == [f \in UNION {FieldsAt[o] : o \in Offsets["dist"]} |->
                  Word(CASE f[1] = "typer" -> {2} [] f[1] = "pidr2" -> {4, 5} [] OTHER -> {})]
RedistBoot == [ctrl |-> {}, typer |-> Word({3}), pidr2 |-> {4, 5}, isenabler0 |-> {}]
UartBoot   == [imsc |-> {4}, cr |-> {0, 8, 9}, id |-> {0, 4}]

\* guestContext is cleared; the guest then computes, here once and for all.
GuestStart == {[r \in GuestRegs |-> IF r = 0 THEN v
                                    ELSE Word({0, 1})] : v \in X0}

NoInsn == [dev |-> "none", offset |-> 0, sas |-> 0, write |-> FALSE, srt |-> XZR]

Init ==
    /\ x \in GuestStart
    /\ fault = FALSE
    /\ dist = DistBoot /\ redist = RedistBoot /\ uart = UartBoot
    /\ ph = {} /\ rx = <<>> /\ sent = {}
    /\ insn = NoInsn /\ traps = 0 /\ keys = 0

-----------------------------------------------------------------------------
(* The frame.  Slot 30 holds lr, slot 31 the hypervisor's stack pointer. *)

HypSP == [lo |-> {4, 30}, hi |-> {}]
LrEl1 == 34

\* Store_Hyp_Frame and Store_Sys_Frame, which saves lr a second time.
Saved == [s \in GuestRegs \union {XZR, LrEl1} |->
             IF s = XZR THEN HypSP ELSE IF s = LrEl1 THEN x[30] ELSE x[s]]

\* Restore_Sys_Frame loads lr from its own slot, and Restore_Hyp_Frame after it from 30.
BugRestoredHypFirst(frame) == [r \in GuestRegs |-> IF r = 30 THEN frame[LrEl1] ELSE frame[r]]

Restored(frame) == [r \in GuestRegs |-> frame[r]]

-----------------------------------------------------------------------------
(* Reads.  A device writes 32 bits into the slot, whatever the size of the access. *)

FirstField(fields) == CHOOSE f \in fields : TRUE
Low(slot, bits) == [slot EXCEPT !.lo = bits]

DistRead(offset, slot) ==
    LET fields == FieldsAt[offset]
    IN  IF fields = {} THEN slot
        ELSE IF FirstField(fields)[1] = "irouter" THEN dist[FirstField(fields)]
        ELSE Low(slot, dist[FirstField(fields)].lo)

RedistRead(offset, slot) ==
    CASE offset = 0           -> Low(slot, redist.ctrl)
      [] offset = RedistTyper -> [redist.typer EXCEPT !.lo = @ \union {4}]
      [] offset = RedistPidr2 -> Low(slot, redist.pidr2)
      [] OTHER                -> slot

\* FR is written as 16 bits, ready to send and perhaps without a key.
Flags(slot) == {b \in slot.lo : b >= 16} \union (IF rx = <<>> THEN {4, 7} ELSE {7})

\* GetChar(async) returns 0 when there is no key.
UartRead(offset, slot) ==
    CASE offset = UartTDR     -> Low(slot, IF rx = <<>> THEN {} ELSE Head(rx))
      [] offset = UartFR      -> Low(slot, Flags(slot))
      [] offset = UartIMSC    -> Low(slot, uart.imsc)
      [] offset = UartCR      -> Low(slot, uart.cr)
      [] offset = UartRIS     -> Low(slot, IF rx = <<>> THEN {} ELSE {4})
      [] offset \in UartIds   -> Low(slot, uart.id)
      [] OTHER                -> slot

Read(dev, offset, slot) ==
    CASE dev = "dist"   -> DistRead(offset, slot)
      [] dev = "redist" -> RedistRead(offset, slot)
      [] dev = "uart"   -> UartRead(offset, slot)

\* A read of the UART's data register takes the key.
Taken(dev, offset) == IF dev = "uart" /\ offset = UartTDR /\ rx # <<>> THEN Tail(rx) ELSE rx

-----------------------------------------------------------------------------
(* Writes. *)

\* FirstSetBit names the line that is enabled physically, in the distributor for SPIs and
\* in the redistributor for the others, if the guest owns it.
FirstSetBit(bits) == IF bits = {} THEN 32 ELSE CHOOSE b \in bits : \A c \in bits : b <= c
SpiOf(index, bits) == {index * 32 + FirstSetBit(bits)} \intersect {l \in Owned : l >= 32}
PpiOf(bits)        == {FirstSetBit(bits)} \intersect {l \in Owned : l < 32}

PlainArrays == Array \ {"isenabler", "icenabler", "irouter"}

\* The fields of vGicState that a write assigns, sets bits in, or clears bits in.
BugPlainFieldsShareActive(offset) ==
    {<<s, 0>> : s \in SinglesAt(offset) \intersect {"ctrl"}}
    \union {<<IF a = "icactiver" THEN "isactiver" ELSE a, Index(a, offset)>> :
            a \in ArraysAt(offset) \intersect PlainArrays}

PlainFields(offset) ==
    {<<s, 0>> : s \in SinglesAt(offset) \intersect {"ctrl"}}
    \union {<<a, Index(a, offset)>> : a \in ArraysAt(offset) \intersect PlainArrays}
RouterFields(offset) ==
    {<<a, Index(a, offset)>> : a \in ArraysAt(offset) \intersect {"irouter"}}
SetFields(offset) ==
    {<<a, Index(a, offset)>> : a \in ArraysAt(offset) \intersect {"isenabler"}}
ClearFields(offset) ==
    {<<"isenabler", Index(a, offset)>> : a \in ArraysAt(offset) \intersect {"icenabler"}}

DistWrite(offset, v) ==
    /\ dist' = [f \in DOMAIN dist |->
                   CASE f \in PlainFields(offset)  -> Low(dist[f], v.lo)
                     [] f \in RouterFields(offset) -> v
                     [] f \in SetFields(offset)    -> Low(dist[f], dist[f].lo \union v.lo)
                     [] f \in ClearFields(offset)  -> Low(dist[f], dist[f].lo \ v.lo)
                     [] OTHER                      -> dist[f]]
    /\ ph' = (ph \union UNION {SpiOf(f[2], v.lo) : f \in SetFields(offset)})
             \ UNION {SpiOf(f[2], v.lo) : f \in ClearFields(offset)}
    /\ UNCHANGED <<redist, uart, sent>>

\* Only ISENABLER0 is known; a write to CTRL falls through to that check.
RedistWrite(offset, v) ==
    /\ IF offset = RedistIsenabler0
       THEN /\ redist' = [redist EXCEPT !.isenabler0 = @ \union v.lo]
            /\ ph' = ph \union PpiOf(v.lo)
       ELSE UNCHANGED <<redist, ph>>
    /\ UNCHANGED <<dist, uart, sent>>

BugByteWhole(bits) == bits

Byte(bits) == {b \in bits : b < 8}

UartWrite(offset, v) ==
    /\ sent' = IF offset = UartTDR THEN Byte(v.lo) ELSE sent
    /\ uart' = CASE offset = UartIMSC -> [uart EXCEPT !.imsc = v.lo]
                 [] offset = UartCR   -> [uart EXCEPT !.cr = v.lo]
                 [] OTHER             -> uart
    /\ UNCHANGED <<dist, redist, ph>>

Write(dev, offset, v) ==
    \/ dev = "dist" /\ DistWrite(offset, v)
    \/ dev = "redist" /\ RedistWrite(offset, v)
    \/ dev = "uart" /\ UartWrite(offset, v)

-----------------------------------------------------------------------------
(* Guest_Abort. *)

\* Accesses to device memory are aligned, or fault in the guest without a trap.
Aligned(offset, sas) == offset % 2^sas = 0

\* MTrap::InRange as Find_Trap_Node asks it: the size is sas + 1, not 2^sas.
InRange(dev, offset, sas) == offset + sas + 1 <= RegionSize[dev]

Trap(i) ==
    /\ ~fault /\ traps < MaxTraps
    /\ traps' = traps + 1
    /\ insn' = i
    /\ UNCHANGED keys

\* A load: the device writes the slot of the target register.
Load(dev, offset, sas, srt) ==
    /\ Trap([dev |-> dev, offset |-> offset, sas |-> sas, write |-> FALSE, srt |-> srt])
    /\ Aligned(offset, sas) /\ InRange(dev, offset, sas)
    /\ x' = Restored([Saved EXCEPT ![srt] = Read(dev, offset, @)])
    /\ rx' = Taken(dev, offset)
    /\ UNCHANGED <<fault, dist, redist, uart, ph, sent>>

\* A store: the device reads the slot of the source register, which for the zero register
\* is the one with the hypervisor's stack pointer.
Store(dev, offset, sas, srt) ==
    /\ Trap([dev |-> dev, offset |-> offset, sas |-> sas, write |-> TRUE, srt |-> srt])
    /\ Aligned(offset, sas) /\ InRange(dev, offset, sas)
    /\ Write(dev, offset, Saved[srt])
    /\ x' = Restored(Saved)
    /\ UNCHANGED <<fault, rx>>

\* An address in no region, or an instruction the syndrome does not describe.
Stray ==
    /\ Trap(NoInsn)
    /\ fault' = TRUE
    /\ UNCHANGED <<x, dist, redist, uart, ph, rx, sent>>

\* The UART's handler puts a key into the console's buffer.
Key ==
    /\ keys < MaxKeys
    /\ keys' = keys + 1
    /\ rx' = Append(rx, {0, keys + 1})
    /\ UNCHANGED <<x, fault, dist, redist, uart, ph, sent, insn, traps>>

\* The VM is stopped and started: the GIC's virtual registers are loaded with the boot
\* state and the guest's registers cleared; the virtual UART stays.
Restart ==
    /\ ~fault
    /\ dist' = DistBoot /\ redist' = RedistBoot
    /\ ph' = ph \ Owned
    /\ x' \in GuestStart
    /\ UNCHANGED <<fault, uart, rx, sent, insn, traps, keys>>

Halted == fault /\ UNCHANGED vars

Next ==
    \/ \E dev \in Devs: \E offset \in Offsets[dev], sas \in Sizes, srt \in GuestRegs \union {XZR}:
          Load(dev, offset, sas, srt) \/ Store(dev, offset, sas, srt)
    \/ Stray \/ Key \/ Restart \/ Halted

Spec == Init /\ [][Next]_vars

-----------------------------------------------------------------------------
TypeOK ==
    /\ x \in [GuestRegs -> Words]
    /\ fault \in BOOLEAN
    /\ dist \in [DOMAIN DistBoot -> Words]
    /\ redist \in [ctrl : SUBSET Bits, typer : Words, pidr2 : SUBSET Bits, isenabler0 : SUBSET Bits]
    /\ uart \in [imsc : SUBSET Bits, cr : SUBSET Bits, id : SUBSET Bits]
    /\ ph \subseteq Owned
    /\ rx \in Seq(SUBSET (0 .. 7))
    /\ sent \subseteq 0 .. 7
    /\ insn.dev \in Devs => insn.offset \in Offsets[insn.dev]
    /\ traps \in 0 .. MaxTraps /\ keys \in 0 .. MaxKeys

\* The offset of an access names at most one register, and an entry inside its array: no
\* access of the guest reaches beyond vGicState, where the code checks only the range.
DecodeSound ==
    insn.dev = "dist" =>
        \A a \in ArraysAt(insn.offset):
            /\ Index(a, insn.offset) \in 0 .. Count(a) - 1
            /\ ArraysAt(insn.offset) = {a}
            /\ SinglesAt(insn.offset) = {}

Trapped == traps' = traps + 1 /\ ~fault'

\* The registers the virtual devices know how to read.
Readable(dev, offset) ==
    CASE dev = "dist"   -> FieldsAt[offset] # {}
      [] dev = "redist" -> offset \in {0, RedistTyper, RedistPidr2}
      [] dev = "uart"   -> offset \in {UartTDR, UartFR, UartIMSC, UartCR, UartRIS} \union UartIds

\* The bits of a slot that a read leaves as they are: FR is written as 16 bits.
LeftAlone(dev, offset) == IF dev = "uart" /\ offset = UartFR THEN 16 .. 31 ELSE {}

\* An access that hardware has a defined answer to: it begins where the register does and
\* is not wider than it.
Wide(dev, offset) ==
    \/ dev = "dist" /\ ArraysAt(offset) = {"irouter"}
    \/ dev = "redist" /\ offset = RedistTyper
Proper(dev, offset, sas) ==
    /\ Readable(dev, offset)
    /\ offset % (IF Wide(dev, offset) THEN 8 ELSE 4) = 0
    /\ sas = 3 => Wide(dev, offset)

\* The register's content, as it reaches a slot that is clear.
Value(dev, offset) == Read(dev, offset, Word({}))

\* What hardware returns to an access of 2^sas bytes: so many of the register, and zeros.
LowBits(sas) == CASE sas = 0 -> 0 .. 7 [] sas = 1 -> 0 .. 15 [] OTHER -> Bits
Hardware(v, sas) == [lo |-> v.lo \intersect LowBits(sas), hi |-> IF sas = 3 THEN v.hi ELSE {}]

\* The devices take no notice of the size and write all of a register: a load that is
\* narrower than it, of 32 bits from an IROUTER or the redistributor's TYPER, or of a byte,
\* brings bits the guest has not asked for, if there are any.
Surplus(v, sas) == v.lo \ LowBits(sas) # {} \/ (sas # 3 /\ v.hi # {})

\* A trapped load ends as hardware would leave it: the named register, the link register
\* included, has the bytes it asked for, extended with zeros, and no other register of the
\* guest is disturbed.  Not so, by three faults of the code, where the upper half of the
\* target or the bits that a read of FR leaves alone were set before, and where the
\* register has a surplus.
LoadLikeHardware ==
    [][Trapped /\ ~insn'.write =>
        \A r \in GuestRegs:
            IF r # insn'.srt THEN x'[r] = x[r]
            ELSE /\ Proper(insn'.dev, insn'.offset, insn'.sas)
                 /\ x[r].hi = {}
                 /\ x[r].lo \intersect LeftAlone(insn'.dev, insn'.offset) = {}
                 /\ ~Surplus(Value(insn'.dev, insn'.offset), insn'.sas)
                 => x'[r] = Hardware(Value(insn'.dev, insn'.offset), insn'.sas)]_vars

Known == {k \in UNION {{dev} \X Offsets[dev] : dev \in Devs} : Readable(k[1], k[2])}

\* The register that a store goes to, as a load names it: set and clear share one.
SameRegister(dev, o1, o2) ==
    \/ o1 = o2
    \/ dev = "dist" /\ FieldsAt[o1] \intersect FieldsAt[o2] # {}

\* A store changes nothing but the register it names, whatever its neighbours in the map,
\* and from a general register it is read back: through the write's decoding and the
\* read's, which the code has as two chains of comparisons.
StoreReadsBack ==
    [][Trapped /\ insn'.write =>
        /\ x' = x
        /\ \A k \in Known:
              \/ Value(k[1], k[2])' = Value(k[1], k[2])
              \/ k[1] = insn'.dev /\ SameRegister(k[1], k[2], insn'.offset)
        /\ \A o \in Offsets["dist"]:
              insn'.dev = "dist" /\ insn'.offset = o /\ insn'.srt # XZR /\ PlainFields(o) # {}
              => Value("dist", o)'.lo = x[insn'.srt].lo]_vars
=============================================================================
