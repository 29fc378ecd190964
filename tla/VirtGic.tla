------------------------------- MODULE VirtGic -------------------------------
(***************************************************************************)
(* How Saturn shares the interrupt controller with its guest: the virtual  *)
(* distributor and redistributor the guest programs, the physical enables  *)
(* behind them, the list registers (LRs) through which interrupts reach    *)
(* the guest, and the maintenance interrupt that takes finished ones back. *)
(*                                                                         *)
(* Handlers and traps run with IRQs masked on the only CPU, so each is one *)
(* action.  Interrupts are numbered as in the GIC, WordSize of them in a   *)
(* register (32 in the hardware); word 0 belongs to the redistributor.     *)
(* SGIs are left out: HCR_EL2.IMO traps the guest's SGI register.          *)
(*                                                                         *)
(* An operator whose name starts with Bug is not part of the model: it is  *)
(* the definition after it with a mistake the code could have, and shows   *)
(* that a property would notice.                                           *)
(***************************************************************************)
EXTENDS Integers, FiniteSets

CONSTANTS
    NrWords,    \* enable registers, _gicd_nr_lines / 32
    WordSize,   \* lines in a register
    NrLRs,      \* list registers of the CPU, nrLRs
    MaskLRs,    \* list registers the injection considers, the 0xf of ELRSR & 0xf
    Owned,      \* lines the VM configuration assigns to the guest
    UartIrq,    \* the UART's line, injected by software and never owned
    Writes,     \* the sets of bits the guest writes to an enable register
    BootStates  \* what the saved boot state of the distributor may show as enabled

Lines    == 0 .. NrWords * WordSize - 1
FirstSPI == WordSize
LRs      == 0 .. NrLRs - 1

ASSUME GicSizes ==
    /\ NrWords \in Nat \ {0, 1}
    /\ WordSize \in Nat \ {0}
    /\ NrLRs \in Nat \ {0}
    /\ MaskLRs \in Nat \ {0}
ASSUME GicLines ==
    /\ Owned \subseteq Lines
    /\ UartIrq \in Lines \ Owned
    /\ UartIrq >= FirstSPI
ASSUME GicWrites == \A bits \in Writes: bits \subseteq 0 .. WordSize - 1
ASSUME GicBootStates == BootStates \subseteq SUBSET Lines

VARIABLES
    running,        \* VM_Manager::vmState is running
    fault,          \* Fault() was called: execution stopped
    phPending,      \* physical lines asserted and not acknowledged
    phActive,       \* physical lines acknowledged and not deactivated
    phEnabled,      \* guest lines enabled in the physical GIC
    distEnabled,    \* vGicState.isenabler of the virtual distributor
    redistEnabled,  \* vRedistState.isenabler0 of the virtual redistributor
    lrs,            \* the list registers
    oneBit          \* history: every write to an enable register so far named one line

vars == <<running, fault, phPending, phActive, phEnabled, distEnabled, redistEnabled, lrs, oneBit>>

\* What Set_LR writes: a pending virtual interrupt, of a physical line or of software; a
\* software interrupt asks for maintenance when the guest is done with it.
LrState == {"invalid", "pending", "active"}
Lr == [state : LrState, nr : Lines, hw : BOOLEAN, eoi : BOOLEAN]
EmptyLr == [state |-> "invalid", nr |-> 0, hw |-> FALSE, eoi |-> FALSE]
InjectedLr(nr, hw) == [state |-> "pending", nr |-> nr, hw |-> hw, eoi |-> ~hw]

\* ICH_ELRSR_EL2: empty and free for use.  ICH_EISR_EL2: finished, to be reclaimed.
ELRSR == {i \in LRs : lrs[i].state = "invalid" /\ (lrs[i].hw \/ ~lrs[i].eoi)}
EISR  == {i \in LRs : lrs[i].state = "invalid" /\ ~lrs[i].hw /\ lrs[i].eoi}

\* FirstSetBit of a register's value; of no bit, the width of the value.
FirstSetBit(bits) ==
    IF bits = {} THEN WordSize ELSE CHOOSE b \in bits : \A c \in bits : b <= c

\* VirtGicDistributor::IRq_Enabled and VirtGicRedistributor::IRq_Enabled.
VirtEnabled(nr) == IF nr < FirstSPI THEN nr \in redistEnabled ELSE nr \in distEnabled

Init ==
    /\ running = FALSE
    /\ fault = FALSE
    /\ phPending = {}
    /\ phActive = {}
    /\ phEnabled = {}
    /\ distEnabled = {}
    /\ redistEnabled = {}
    /\ lrs = [i \in LRs |-> EmptyLr]
    /\ oneBit = TRUE

-----------------------------------------------------------------------------
(* Injection. *)

(***************************************************************************)
(* GicVirtIC::Inject_IRq.  An interrupt the guest has disabled is dropped, *)
(* and nobody deactivates its line.  The lowest free LR takes it; with     *)
(* none free Saturn faults.                                                *)
(***************************************************************************)
BugFreeLRsIgnoreELRSR == LRs \intersect 0 .. MaskLRs - 1

FreeLRs == ELRSR \intersect 0 .. MaskLRs - 1

Inject_IRq(nr, hw) ==
    \/ /\ ~VirtEnabled(nr)
       /\ UNCHANGED <<lrs, fault>>
    \/ /\ VirtEnabled(nr)
       /\ \E i \in FreeLRs:
             /\ \A j \in FreeLRs: i <= j
             /\ lrs' = [lrs EXCEPT ![i] = InjectedLr(nr, hw)]
       /\ UNCHANGED fault
    \/ /\ VirtEnabled(nr)
       /\ FreeLRs = {}
       /\ fault' = TRUE
       /\ UNCHANGED lrs

-----------------------------------------------------------------------------
(* The environment and the interrupt handlers. *)

\* The device behind a guest line asserts it, active or not.
LineAsserts(l) ==
    /\ ~fault
    /\ phPending' = phPending \union {l}
    /\ UNCHANGED <<running, fault, phActive, phEnabled, distEnabled, redistEnabled, lrs, oneBit>>

\* The line is level sensitive: the device withdraws it before or after it was taken.
LineWithdraws(l) ==
    /\ ~fault
    /\ phPending' = phPending \ {l}
    /\ UNCHANGED <<running, fault, phActive, phEnabled, distEnabled, redistEnabled, lrs, oneBit>>

(***************************************************************************)
(* IC_Core::Handle_IRq of a guest line: acknowledged, priority dropped and *)
(* injected, but left active for the guest to deactivate.                  *)
(***************************************************************************)
BugTakeLineDeactivates(l) ==
    /\ ~fault
    /\ running
    /\ l \in phPending \intersect phEnabled
    /\ l \notin phActive
    /\ phPending' = phPending \ {l}
    /\ UNCHANGED phActive
    /\ Inject_IRq(l, TRUE)
    /\ UNCHANGED <<running, phEnabled, distEnabled, redistEnabled, oneBit>>

TakeLine(l) ==
    /\ ~fault
    /\ running
    /\ l \in phPending \intersect phEnabled
    /\ l \notin phActive
    /\ phPending' = phPending \ {l}
    /\ phActive' = phActive \union {l}
    /\ Inject_IRq(l, TRUE)
    /\ UNCHANGED <<running, phEnabled, distEnabled, redistEnabled, oneBit>>

\* IC_Core::Handle_IRq of the UART with input, the handler's end: a running guest is told.
TakeUart ==
    /\ ~fault
    /\ running
    /\ Inject_IRq(UartIrq, FALSE)
    /\ UNCHANGED <<running, phPending, phActive, phEnabled, distEnabled, redistEnabled, oneBit>>

\* IC_Core::Handle_IRq of the maintenance interrupt: Process_ISR empties finished LRs.
TakeMaintenance ==
    /\ ~fault
    /\ EISR # {}
    /\ lrs' = [i \in LRs |-> IF i \in EISR THEN EmptyLr ELSE lrs[i]]
    /\ UNCHANGED <<running, fault, phPending, phActive, phEnabled, distEnabled, redistEnabled, oneBit>>

-----------------------------------------------------------------------------
(* The guest. *)

WordLines(word, bits) == {word * WordSize + b : b \in bits}
FirstLine(word, bits) == word * WordSize + FirstSetBit(bits)
OneLine(bits) == \E b \in 0 .. WordSize - 1: bits = {b}

(***************************************************************************)
(* A write to ISENABLER or ICENABLER of the virtual distributor.  Only the *)
(* lowest bit's line is passed to the physical distributor (which ignores  *)
(* lines of word 0), if the guest owns it; all bits count virtually.  A    *)
(* write of no bits names the first line of the next word.                 *)
(***************************************************************************)
BugPhysicalSPIOfAnybody(word, bits) ==
    {FirstLine(word, bits)} \intersect {l \in Lines : l >= FirstSPI}

PhysicalSPI(word, bits) ==
    {FirstLine(word, bits)} \intersect {l \in Owned : l >= FirstSPI}

DistSetEnable(word, bits) ==
    /\ ~fault
    /\ running
    /\ phEnabled' = phEnabled \union PhysicalSPI(word, bits)
    /\ distEnabled' = distEnabled \union WordLines(word, bits)
    /\ oneBit' = (oneBit /\ OneLine(bits))
    /\ UNCHANGED <<running, fault, phPending, phActive, redistEnabled, lrs>>

BugDistClearEnableVirtualOnly(word, bits) ==
    /\ ~fault
    /\ running
    /\ distEnabled' = distEnabled \ WordLines(word, bits)
    /\ oneBit' = (oneBit /\ OneLine(bits))
    /\ UNCHANGED <<running, fault, phPending, phActive, phEnabled, redistEnabled, lrs>>

DistClearEnable(word, bits) ==
    /\ ~fault
    /\ running
    /\ phEnabled' = phEnabled \ PhysicalSPI(word, bits)
    /\ distEnabled' = distEnabled \ WordLines(word, bits)
    /\ oneBit' = (oneBit /\ OneLine(bits))
    /\ UNCHANGED <<running, fault, phPending, phActive, redistEnabled, lrs>>

\* A write to ISENABLER0 of the virtual redistributor; it knows no ICENABLER0.
PhysicalPPI(bits) == {FirstLine(0, bits)} \intersect {l \in Owned : l < FirstSPI}

RedistSetEnable(bits) ==
    /\ ~fault
    /\ running
    /\ phEnabled' = phEnabled \union PhysicalPPI(bits)
    /\ redistEnabled' = redistEnabled \union WordLines(0, bits)
    /\ oneBit' = (oneBit /\ OneLine(bits))
    /\ UNCHANGED <<running, fault, phPending, phActive, distEnabled, lrs>>

\* The guest acknowledges a pending virtual interrupt ...
GuestAck(i) ==
    /\ ~fault
    /\ running
    /\ lrs[i].state = "pending"
    /\ lrs' = [lrs EXCEPT ![i].state = "active"]
    /\ UNCHANGED <<running, fault, phPending, phActive, phEnabled, distEnabled, redistEnabled, oneBit>>

\* ... and deactivates it, which deactivates the physical line of a hardware LR.
GuestDeactivate(i) ==
    /\ ~fault
    /\ running
    /\ lrs[i].state = "active"
    /\ lrs' = [lrs EXCEPT ![i].state = "invalid"]
    /\ phActive' = IF lrs[i].hw THEN phActive \ {lrs[i].nr} ELSE phActive
    /\ UNCHANGED <<running, fault, phPending, phEnabled, distEnabled, redistEnabled, oneBit>>

-----------------------------------------------------------------------------
(* Start and stop of the VM. *)

\* GicVirtIC::Start: new register frames, loaded with the boot states.  The distributor's
\* may show any lines as enabled (IcCore has why), the redistributor's shows none.  LRs keep
\* what they hold.
StartVm ==
    /\ ~fault
    /\ ~running
    /\ running' = TRUE
    /\ distEnabled' \in BootStates
    /\ redistEnabled' = {}
    /\ UNCHANGED <<fault, phPending, phActive, phEnabled, lrs, oneBit>>

\* VM_Free_Resources disables the guest's lines, GicVirtIC::Stop deletes the frames; the
\* LRs and the active lines stay as the guest left them.
BugStopVmFlushesLRs ==
    /\ ~fault
    /\ running
    /\ running' = FALSE
    /\ phEnabled' = phEnabled \ Owned
    /\ lrs' = [i \in LRs |-> EmptyLr]
    /\ UNCHANGED <<fault, phPending, phActive, distEnabled, redistEnabled, oneBit>>

StopVm ==
    /\ ~fault
    /\ running
    /\ running' = FALSE
    /\ phEnabled' = phEnabled \ Owned
    /\ UNCHANGED <<fault, phPending, phActive, distEnabled, redistEnabled, lrs, oneBit>>

\* Fault(): nothing happens any more.
Halted ==
    /\ fault
    /\ UNCHANGED vars

-----------------------------------------------------------------------------
Next ==
    \/ \E l \in Owned: LineAsserts(l) \/ LineWithdraws(l) \/ TakeLine(l)
    \/ TakeUart \/ TakeMaintenance
    \/ \E bits \in Writes:
          \/ RedistSetEnable(bits)
          \/ \E word \in 0 .. NrWords - 1: DistSetEnable(word, bits) \/ DistClearEnable(word, bits)
    \/ \E i \in LRs: GuestAck(i) \/ GuestDeactivate(i)
    \/ StartVm \/ StopVm
    \/ Halted

Spec == Init /\ [][Next]_vars

-----------------------------------------------------------------------------
TypeOK ==
    /\ running \in BOOLEAN
    /\ fault \in BOOLEAN
    /\ phPending \subseteq Owned
    /\ phActive \subseteq Owned
    /\ phEnabled \subseteq Owned
    /\ distEnabled \subseteq Lines
    /\ redistEnabled \subseteq Lines
    /\ lrs \in [LRs -> Lr]
    /\ oneBit \in BOOLEAN

InUse(i) == lrs[i].state # "invalid"
Holds(i, l) == InUse(i) /\ lrs[i].hw /\ lrs[i].nr = l

HwLineInOneLr ==
    \A i, j \in LRs: InUse(i) /\ InUse(j) /\ lrs[i].hw /\ lrs[j].hw /\ lrs[i].nr = lrs[j].nr
        => i = j

HwLineActive == \A i \in LRs: InUse(i) /\ lrs[i].hw => lrs[i].nr \in phActive

\* A physical line is never in two list registers, so the guest deactivates it once, and
\* while it is in one it is active in the physical GIC, so that it cannot be taken again
\* before the guest is done with it; not even after the VM it was injected into was
\* stopped and another one started.
HwLineOnce == HwLineInOneLr /\ HwLineActive

\* An interrupt in a list register leaves it only by the guest's own hand: no injection,
\* maintenance, start or stop overwrites or drops it.
LrsKeepInterrupts ==
    [][\A i \in LRs: InUse(i) /\ lrs'[i] # lrs[i] => GuestAck(i) \/ GuestDeactivate(i)]_vars

StoppedLinesOff == ~running => phEnabled = {}

LinesHeard == running /\ oneBit => \A l \in phEnabled: VirtEnabled(l)

\* While no VM runs, no line of the guest can interrupt, whatever the guest wrote.  While
\* one runs the guest hears of every line it can be interrupted by, as long as it wrote
\* one bit at a time: a physically enabled line is enabled virtually, so that no
\* injection is dropped.
EnablesAgree == StoppedLinesOff /\ LinesHeard

\* For such a guest a line that was taken is not lost: while it is active a list register
\* holds it, over restarts of the VM.
NoLineLost == ~fault /\ oneBit => \A l \in phActive: \E i \in LRs: Holds(i, l)
=============================================================================
