-------------------------------- MODULE IcCore --------------------------------
(***************************************************************************)
(* The interrupt core around VirtGic: the construction of the GIC's        *)
(* drivers from whatever state the firmware left, the table of handlers,   *)
(* and Handle_IRq, which decides whether a line is the guest's or Saturn's.*)
(*                                                                         *)
(* VirtGic's variables phPending, phActive and phEnabled are the physical  *)
(* GIC's bits of the guest's lines; the variables whose names start with   *)
(* own are the same bits of all other lines.  A register of WordSize lines *)
(* is the GIC's register of 32.                                            *)
(*                                                                         *)
(* IRQs are masked until construction is over and in every handler.  The   *)
(* window between the unmasking and the creation of VM_Manager is in       *)
(* Hypervisor.tla.  Priorities are left out: the mask lets all of them     *)
(* pass, and handlers are not preempted.  An acknowledge that finds no     *)
(* pending line (INTID 1023) changes nothing.  Saturn's self test, which   *)
(* registers a handler for an SGI, is left out, the SGI it sends is not.   *)
(***************************************************************************)
EXTENDS VirtGic

CONSTANTS
    NrSGIs,     \* _nrSGIs, software generated interrupts in word 0
    MaintIrq,   \* _maintenance_int, a line of the redistributor
    Firmware,   \* the sets of lines the firmware may leave enabled, active or routed to us
    HeapValues  \* what the memory of the heap may hold where linesNumber will be

Own  == Lines \ Owned
SGIs == {l \in Lines : l < NrSGIs}
PPIs == {l \in Lines : NrSGIs <= l /\ l < FirstSPI}
SPIs == {l \in Lines : FirstSPI <= l}

ASSUME CoreLines ==
    /\ NrSGIs \in 0 .. WordSize
    /\ Owned \intersect SGIs = {}
    /\ MaintIrq \in Own \intersect PPIs
ASSUME FirmwareLines == Firmware \subseteq SUBSET Lines
ASSUME HeapWords == HeapValues \subseteq Nat

VARIABLES
    boot,           \* the next step of the construction, or "ready"
    ownPending, ownActive, ownEnabled,
    group1,         \* IGROUPR: lines signalled as IRQs, which the CPU interface forwards
    routed,         \* SPIs whose IROUTER names this CPU
    linesNumber,    \* GicDistributor::linesNumber
    saved,          \* GicDistributor::bootState.isenabler
    handler,        \* IRq_Table
    abandoned       \* history: a handler of the UART has not returned

bootVars == <<group1, routed, linesNumber, saved>>
hvVars == <<boot, ownPending, ownActive, ownEnabled, bootVars, handler, abandoned>>
virtVars == <<running, fault, distEnabled, redistEnabled, lrs, oneBit>>
icVars == <<vars, hvVars>>

\* The firmware has used the GIC as it liked, and the distributor object lies in the heap,
\* which nobody clears: its linesNumber is whatever the memory held.
InitIc ==
    /\ running = FALSE /\ fault = FALSE /\ oneBit = TRUE
    /\ distEnabled = {} /\ redistEnabled = {}
    /\ lrs = [i \in LRs |-> EmptyLr]
    /\ phPending = {} /\ ownPending = {}
    /\ \E on \in Firmware: phEnabled = on \intersect Owned /\ ownEnabled = on \intersect Own
    /\ \E on \in Firmware: phActive = on \intersect Owned /\ ownActive = on \intersect Own
    /\ group1 \in Firmware
    /\ routed \in {on \intersect SPIs : on \in Firmware}
    /\ boot = "dist"
    /\ linesNumber \in HeapValues
    /\ saved = {}
    /\ handler = [l \in Lines |-> "null"]
    /\ abandoned = FALSE

-----------------------------------------------------------------------------
(* Construction. *)

NrLines == NrWords * WordSize

\* GicDistributor::Save_State copies the enables of as many registers as linesNumber
\* promises, which the constructor sets only afterwards.  If it promises more than the
\* arrays have, other registers overwrite the enables ...
Copied(lines) ==
    {l \in phEnabled \union ownEnabled : l \div WordSize < lines \div WordSize}
SavedStates(lines) == IF lines <= NrLines THEN {Copied(lines)} ELSE BootStates

\* ... or the copying runs into an abort, of which nothing returns.
SaveStateAborts ==
    /\ boot = "dist" /\ ~fault
    /\ linesNumber > NrLines
    /\ fault' = TRUE
    /\ UNCHANGED <<running, phPending, phActive, phEnabled, distEnabled, redistEnabled, lrs, oneBit>>
    /\ UNCHANGED hvVars

Disable(ls) == phEnabled' = phEnabled \ ls /\ ownEnabled' = ownEnabled \ ls
Deactivate(ls) == phActive' = phActive \ ls /\ ownActive' = ownActive \ ls

\* Dist_Regs::IROUTER is the router of line 32, and the loop starts at IROUTER + 32 * 8: the
\* first register of lines keeps its routes.
RoutedAtBoot == {l \in SPIs : l - FirstSPI \in SPIs}

BugDistributorLeavesActive ==
    /\ boot = "dist" /\ ~fault
    /\ saved' \in SavedStates(linesNumber)
    /\ linesNumber' = NrLines
    /\ Disable(SPIs) /\ UNCHANGED <<phActive, ownActive>>
    /\ group1' = group1 \union SPIs
    /\ routed' = routed \union RoutedAtBoot
    /\ boot' = "redist"
    /\ UNCHANGED <<virtVars, phPending, ownPending, handler, abandoned>>

Distributor ==
    /\ boot = "dist" /\ ~fault
    /\ saved' \in SavedStates(linesNumber)
    /\ linesNumber' = NrLines
    /\ Disable(SPIs) /\ Deactivate(SPIs)
    /\ group1' = group1 \union SPIs
    /\ routed' = routed \union RoutedAtBoot
    /\ boot' = "redist"
    /\ UNCHANGED <<virtVars, phPending, ownPending, handler, abandoned>>

\* The redistributor's Save_State reads its enables from the wrong frame, as zeros.  Nothing
\* of word 0 stays active; the PPIs are disabled and the SGIs, pending or not, enabled.
BugRedistributorKeepsPPIs ==
    /\ boot = "redist"
    /\ ownEnabled' = ownEnabled \union SGIs
    /\ Deactivate(SGIs \union PPIs)
    /\ group1' = group1 \union SGIs \union PPIs
    /\ boot' = "cpu"
    /\ UNCHANGED <<virtVars, phPending, phEnabled, ownPending, routed, linesNumber, saved, handler,
                   abandoned>>

Redistributor ==
    /\ boot = "redist"
    /\ phEnabled' = phEnabled \ PPIs
    /\ ownEnabled' = (ownEnabled \ PPIs) \union SGIs
    /\ Deactivate(SGIs \union PPIs)
    /\ group1' = group1 \union SGIs \union PPIs
    /\ boot' = "cpu"
    /\ UNCHANGED <<virtVars, phPending, ownPending, routed, linesNumber, saved, handler, abandoned>>

\* CpuInterface: from here on group 1 interrupts reach the CPU, which masks them.
CpuIface ==
    /\ boot = "cpu"
    /\ boot' = "table"
    /\ UNCHANGED <<vars, ownPending, ownActive, ownEnabled, bootVars, handler, abandoned>>

\* IC_Core's loop over the handlers, and GicVirtIC, which leaves the list registers alone.
Table ==
    /\ boot = "table"
    /\ handler' = [l \in Lines |-> IF l < linesNumber THEN "default" ELSE handler[l]]
    /\ boot' = "uart"
    /\ UNCHANGED <<vars, ownPending, ownActive, ownEnabled, bootVars, abandoned>>

Register_IRq_Handler(l, h) ==
    IF l < linesNumber
    THEN handler' = [handler EXCEPT ![l] = h] /\ ownEnabled' = ownEnabled \union {l}
    ELSE UNCHANGED <<handler, ownEnabled>>

\* The driver of the UART registers its handler; then Main unmasks IRQs.
UartDriver ==
    /\ boot = "uart"
    /\ Register_IRq_Handler(UartIrq, "uart")
    /\ boot' = "ready"
    /\ UNCHANGED <<vars, ownPending, ownActive, bootVars, abandoned>>

Construction == SaveStateAborts \/ Distributor \/ Redistributor \/ CpuIface \/ Table \/ UartDriver

-----------------------------------------------------------------------------
(* Interrupts. *)

\* A device of Saturn's, or one left on by the firmware, asserts its line, or an SGI is sent.
OwnLineAsserts(l) ==
    /\ ~fault
    /\ l # MaintIrq
    /\ ownPending' = ownPending \union {l}
    /\ UNCHANGED <<vars, boot, ownActive, ownEnabled, bootVars, handler, abandoned>>

\* The maintenance interrupt is asserted as long as a list register is finished.
Asserted(l) == l \in phPending \union ownPending \/ (l = MaintIrq /\ EISR # {})

\* What the GIC signals: ICC_IAR1_EL1 can return it.
Signalled(l) ==
    /\ Asserted(l)
    /\ l \in phEnabled \union ownEnabled
    /\ l \notin phActive \union ownActive
    /\ l \in group1
    /\ l \in SPIs => l \in routed

\* What the handlers do to the guest's interrupts; the UART's tells a running guest, if the
\* keys do not stop it.  An entry that was never written is a jump to address 0.
Handler(h) ==
    CASE h = "uart" /\ running -> Inject_IRq(UartIrq, FALSE)
      [] h = "maintenance"     -> /\ lrs' = [i \in LRs |-> IF i \in EISR THEN EmptyLr ELSE lrs[i]]
                                  /\ UNCHANGED fault
      [] h = "null"            -> fault' = TRUE /\ UNCHANGED lrs
      [] OTHER                 -> UNCHANGED <<fault, lrs>>

(***************************************************************************)
(* IC_Core::Handle_IRq.  A line of the guest is injected while the VM runs *)
(* and stays active; any other one is acknowledged, handled and            *)
(* deactivated.                                                            *)
(***************************************************************************)
Handle_IRq(l) ==
    /\ boot = "ready" /\ ~fault
    /\ Signalled(l)
    /\ IF running /\ l \in Owned
       THEN TakeLine(l) /\ UNCHANGED ownPending
       ELSE /\ Handler(handler[l])
            /\ phPending' = phPending \ {l} /\ ownPending' = ownPending \ {l}
            /\ UNCHANGED <<running, phActive, phEnabled, distEnabled, redistEnabled, oneBit>>
    /\ UNCHANGED <<boot, ownActive, ownEnabled, bootVars, handler, abandoned>>

(***************************************************************************)
(* Handle_IRq of the UART with the shutdown key among its keys, which is   *)
(* how a VM stops.  One such key is a request: the handler returns, the    *)
(* line is deactivated, and IRq_Handler stops the VM.  A second one in the *)
(* same drain stops it inside the handler: that never returns, and the     *)
(* line stays active.                                                      *)
(***************************************************************************)
UartStopsVm ==
    /\ boot = "ready"
    /\ Signalled(UartIrq)
    /\ handler[UartIrq] = "uart"
    /\ StopVm
    /\ ownPending' = ownPending \ {UartIrq}
    /\ \/ UNCHANGED <<ownActive, abandoned>>
       \/ ownActive' = ownActive \union {UartIrq} /\ abandoned' = TRUE
    /\ UNCHANGED <<boot, ownEnabled, bootVars, handler>>

-----------------------------------------------------------------------------
(* The VM. *)

\* GicVirtIC::Start: new frames loaded with the saved boot state; the maintenance interrupt.
BugStartVirtICUnregistered ==
    /\ boot = "ready" /\ ~fault /\ ~running
    /\ running' = TRUE
    /\ distEnabled' = saved
    /\ redistEnabled' = {}
    /\ UNCHANGED <<fault, phPending, phActive, phEnabled, lrs, oneBit, hvVars>>

StartVirtIC ==
    /\ boot = "ready" /\ ~fault /\ ~running
    /\ running' = TRUE
    /\ distEnabled' = saved
    /\ redistEnabled' = {}
    /\ Register_IRq_Handler(MaintIrq, "maintenance")
    /\ UNCHANGED <<fault, phPending, phActive, phEnabled, lrs, oneBit>>
    /\ UNCHANGED <<boot, ownPending, ownActive, bootVars, abandoned>>

Guest ==
    \/ \E bits \in Writes:
          \/ RedistSetEnable(bits)
          \/ \E word \in 0 .. NrWords - 1: DistSetEnable(word, bits) \/ DistClearEnable(word, bits)
    \/ \E i \in LRs: GuestAck(i) \/ GuestDeactivate(i)

NextIc ==
    \/ Construction
    \/ \E l \in Lines: Handle_IRq(l)
    \/ UartStopsVm
    \/ \E l \in Own: OwnLineAsserts(l)
    \/ \E l \in Owned: (LineAsserts(l) \/ LineWithdraws(l)) /\ UNCHANGED hvVars
    \/ StartVirtIC
    \/ Guest /\ UNCHANGED hvVars
    \/ Halted /\ UNCHANGED hvVars

\* The maintenance interrupt stays asserted until it is taken, and every handler ends.
SpecIc == InitIc /\ [][NextIc]_icVars /\ WF_icVars(Handle_IRq(MaintIrq))

-----------------------------------------------------------------------------
(* Until the construction is over the guest's lines and the abort of the copying do not    *)
(* count; the boot state a VM starts from may be any.                                      *)
VG == INSTANCE VirtGic WITH
    phEnabled  <- IF boot = "ready" THEN phEnabled ELSE {},
    phActive   <- IF boot = "ready" THEN phActive ELSE {},
    fault      <- boot = "ready" /\ fault,
    BootStates <- SUBSET Lines

\* Whatever the firmware left in the GIC and the memory in the heap, construction ends where
\* VirtGic starts, with no line of the guest enabled or active, and from then on the
\* dispatch of interrupts, the stops and the starts are as VirtGic says; of the frames a new
\* VM gets this leaves open what the saved boot state shows as enabled.
VirtGicSpec == VG!Spec

\* Once construction is over, nothing the firmware left enabled, pending or active gets in
\* the way.  What is signalled is the guest's while it runs, or has a handler registered
\* for it, or is an SGI, all of which are enabled and only reported.  Of Saturn's own
\* lines none stays active but the UART's, when its handler did not return.
OnlyExpected ==
    boot = "ready" /\ ~fault =>
        /\ ownActive = IF abandoned THEN {UartIrq} ELSE {}
        /\ \A l \in Lines: Signalled(l) =>
              \/ running /\ l \in Owned
              \/ handler[l] \in {"uart", "maintenance"}
              \/ l \in SGIs /\ handler[l] = "default"

\* A finished software interrupt gives its list register back.
LrsReclaimed == \A i \in LRs: i \in EISR ~> (i \notin EISR \/ fault)
=============================================================================
