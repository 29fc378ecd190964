----------------------------- MODULE Hypervisor -----------------------------
(***************************************************************************)
(* The life of Saturn's single virtual machine on its single CPU: the      *)
(* command line that starts it, the console that stops it from inside the  *)
(* UART interrupt, the exception vectors between them, and the manager's   *)
(* vm_state that all of them read.                                         *)
(*                                                                         *)
(* One CPU runs everything, so a state is where the foreground is (cpu),   *)
(* and how far the interrupt handler running on top of it has got (irq).   *)
(* Handlers run with IRQs masked and never nest.                           *)
(*                                                                         *)
(* Left to other modules: what Inject_IRq does to the list registers       *)
(* (here it succeeds or faults), the slots of the ring buffers, the page   *)
(* tables behind a mapped region.                                          *)
(*                                                                         *)
(* An operator whose name starts with Bug is not part of the model: it is  *)
(* the definition after it with a mistake the code could have, and shows   *)
(* that a property would notice.                                           *)
(***************************************************************************)
EXTENDS Integers, Sequences, FiniteSets

CONSTANTS
    CmdKey,         \* Ctrl-i, systemKeys::cmdMode
    ShutdownKey,    \* 's', systemKeys::cmdShutdown
    BeepKey,        \* 'b', systemKeys::cmdBeep; also any other printable key
    StartKey,       \* the Enter that completes a `vm start` line
    UartIrq,        \* the PL011 interrupt, 33 on this board
    GuestLines,     \* the physical interrupts the VM configuration assigns to the guest
    NrRegions,      \* memory regions in the VM configuration
    RxSize,         \* capacity of the console's receive ring buffer
    FifoSize,       \* depth of the UART's receive FIFO
    MaxTyped        \* bound of the model: how many keys are pressed in a behaviour

Keys == {CmdKey, ShutdownKey, BeepKey, StartKey}

ASSUME UartAssumption == UartIrq \notin GuestLines
ASSUME SizesAssumption ==
    /\ NrRegions \in Nat \ {0}
    /\ RxSize \in Nat \ {0}
    /\ FifoSize \in Nat \ {0}
    /\ MaxTyped \in Nat
ASSUME KeysAssumption ==
    /\ ShutdownKey # CmdKey
    /\ StartKey \notin {CmdKey, ShutdownKey}
    /\ BeepKey \notin {CmdKey, ShutdownKey, StartKey}

VARIABLES
    cpu,        \* the foreground: where EL2 code or the guest is
    irq,        \* progress of the interrupt handler, "none" when no handler runs
    irqNr,      \* the interrupt being handled
    elr,        \* ELR_EL2: what an eret resumes, "hyp" or "guest"
    vmState,    \* VM_Manager::vmState
    vState,     \* GicVirtIC::vState
    mapped,     \* how many of the VM's regions are mapped in the stage-2 tables
    virtUart,   \* QemuArm64Platform::VirtUart is not null
    traps,      \* how many trap regions each emulated device has registered
    cmdMode,    \* Console::cmdMode
    rx,         \* Console::rxBuffer
    fifo,       \* the UART's receive FIFO
    ris,        \* the UART's receive interrupt status
    active,     \* interrupts acknowledged and not deactivated in the physical GIC
    enabled,    \* guest lines enabled in the physical GIC
    typed       \* keys pressed so far

console == <<cmdMode, rx>>
uart    == <<fifo, ris>>
vmRes   == <<vState, mapped, virtUart, traps>>
vars    == <<cpu, irq, irqNr, elr, vmState, vmRes, console, uart, active, enabled, typed>>

Devices == {"gicd", "gicr", "uart"}

AppSteps    == {"getchar", "wfi_next", "wfi"}
StartSteps  == {"start_vic", "start_alloc", "start_devices", "start_run"}
SwitchSteps == {"switch", "eret"}
CpuSteps    == {"boot", "guest", "fault"} \union AppSteps \union StartSteps \union SwitchSteps
IrqSteps    == {"none", "route", "status", "drain", "deactivate", "check"}

Init ==
    /\ cpu = "boot"
    /\ irq = "none"
    /\ irqNr = UartIrq
    /\ elr = "hyp"
    /\ vmState = "stopped"
    /\ vState = "Stopped"
    /\ mapped = 0
    /\ virtUart = FALSE
    /\ traps = [d \in Devices |-> 0]
    /\ cmdMode = FALSE
    /\ rx = <<>>
    /\ fifo = <<>>
    /\ ris = FALSE
    /\ active = {}
    /\ enabled = {}
    /\ typed = 0

-----------------------------------------------------------------------------
(* The environment: somebody at the terminal. *)

\* A key reaches the FIFO; an empty FIFO that becomes non-empty raises the RX status.
Type(c) ==
    /\ typed < MaxTyped
    /\ Len(fifo) < FifoSize
    /\ typed' = typed + 1
    /\ fifo' = Append(fifo, c)
    /\ ris' = (ris \/ fifo = <<>>)
    /\ UNCHANGED <<cpu, irq, irqNr, elr, vmState, vmRes, console, active, enabled>>

-----------------------------------------------------------------------------
(* The ring buffer under the full_ignore policy: a full buffer loses the newcomer. *)
BugRxInNoLimit(q, c) == Append(q, c)

RxIn(q, c) == IF Len(q) < RxSize THEN Append(q, c) ELSE q

(***************************************************************************)
(* Start_Virtual_Devices creates the VirtUartPl011, which registers a trap *)
(* region, unless one exists already.                                      *)
(***************************************************************************)
BugStartVirtualDevicesAgain(t) == [t EXCEPT !["uart"] = @ + 1]

StartVirtualDevices(t) == IF virtUart THEN t ELSE [t EXCEPT !["uart"] = @ + 1]

\* GicVirtIC::Stop deletes both virtual register frames; their destructors
\* remove one trap region each.
StopVirtIC(t) == IF vState = "Started"
                 THEN [t EXCEPT !["gicd"] = @ - 1, !["gicr"] = @ - 1]
                 ELSE t

(***************************************************************************)
(* The second branch of VM_Manager::Stop_VM.  The comment in the code says *)
(* that virtual devices are stopped; the call below it starts them.  The   *)
(* function never returns to its caller: the stack is reset, IRQs are      *)
(* unmasked and a new command line runs.                                   *)
(***************************************************************************)
BugTeardownKeepsMappings ==
    /\ vmState' = "stopped"
    /\ traps' = StopVirtIC(StartVirtualDevices(traps))
    /\ virtUart' = TRUE
    /\ UNCHANGED mapped
    /\ enabled' = enabled \ GuestLines
    /\ vState' = "Stopped"
    /\ cpu' = "getchar"
    /\ irq' = "none"

Teardown ==
    /\ vmState' = "stopped"
    /\ traps' = StopVirtIC(StartVirtualDevices(traps))
    /\ virtUart' = TRUE
    /\ mapped' = 0
    /\ enabled' = enabled \ GuestLines
    /\ vState' = "Stopped"
    /\ cpu' = "getchar"
    /\ irq' = "none"

\* VM_Manager::Stop_VM: the first call only leaves a request, the second one acts on it.
Stop_VM ==
    \/ /\ vmState = "running"
       /\ vmState' = "request_shutdown"
       /\ UNCHANGED <<cpu, irq, vmRes, enabled>>
    \/ /\ vmState = "request_shutdown"
       /\ Teardown
    \/ /\ vmState = "stopped"
       /\ UNCHANGED <<cpu, irq, vmState, vmRes, enabled>>

(***************************************************************************)
(* Console::RxChar.  Leaving command mode is its last statement, which a   *)
(* call of Stop_VM that does not return never reaches.                     *)
(***************************************************************************)
RxChar(c) ==
    \/ /\ ~cmdMode
       /\ cmdMode' = (c = CmdKey)
       /\ rx' = IF c = CmdKey THEN rx ELSE RxIn(rx, c)
       /\ UNCHANGED <<cpu, irq, vmState, vmRes, enabled>>
    \/ /\ cmdMode
       /\ c = ShutdownKey
       /\ cmdMode' = (vmState = "request_shutdown")
       /\ UNCHANGED rx
       /\ Stop_VM
    \/ /\ cmdMode
       /\ c # ShutdownKey
       /\ cmdMode' = FALSE
       /\ rx' = IF c = BeepKey THEN rx ELSE RxIn(RxIn(rx, CmdKey), c)
       /\ UNCHANGED <<cpu, irq, vmState, vmRes, enabled>>

-----------------------------------------------------------------------------
(* The foreground: boot, the command line, and the start of the VM. *)

Foreground(step) == irq = "none" /\ cpu = step

\* The end of Main: IRQs are already unmasked when VM_Manager is created.
CreateVmManager ==
    /\ Foreground("boot")
    /\ cpu' = "getchar"
    /\ UNCHANGED <<irq, irqNr, elr, vmState, vmRes, console, uart, active, enabled, typed>>

(***************************************************************************)
(* Console::GetChar(sync) under CommandLine::Start_Loop.  A key is edited  *)
(* into the line or, when it completes `vm start`, calls Start_VM, which   *)
(* does nothing unless the VM is stopped.  With no key the CPU will sleep. *)
(***************************************************************************)
GetChar ==
    /\ Foreground("getchar")
    /\ IF rx = <<>>
       THEN cpu' = "wfi_next" /\ UNCHANGED rx
       ELSE /\ rx' = Tail(rx)
            /\ cpu' = IF Head(rx) = StartKey /\ vmState = "stopped"
                      THEN "start_vic" ELSE "getchar"
    /\ UNCHANGED <<irq, irqNr, elr, vmState, vmRes, cmdMode, uart, active, enabled, typed>>

\* The wfi itself; the key it waits for may have come in just before it.
Wfi ==
    /\ Foreground("wfi_next")
    /\ cpu' = "wfi"
    /\ UNCHANGED <<irq, irqNr, elr, vmState, vmRes, console, uart, active, enabled, typed>>

\* GicVirtIC::Start; starting what is started already is a fault.
StartVirtIC ==
    /\ Foreground("start_vic")
    /\ IF vState = "Stopped"
       THEN /\ vState' = "Started"
            /\ traps' = [traps EXCEPT !["gicd"] = @ + 1, !["gicr"] = @ + 1]
            /\ cpu' = "start_alloc"
       ELSE /\ cpu' = "fault"
            /\ UNCHANGED <<vState, traps>>
    /\ UNCHANGED <<irq, irqNr, elr, vmState, mapped, virtUart, console, uart, active, enabled,
                   typed>>

\* One round of the loop in VM_Configuration::VM_Allocate_Resources.
BugMapRegionSkipsLast ==
    /\ Foreground("start_alloc")
    /\ mapped' = mapped + 1
    /\ cpu' = IF mapped' < NrRegions - 1 THEN cpu ELSE "start_devices"
    /\ UNCHANGED <<irq, irqNr, elr, vmState, vState, virtUart, traps, console, uart, active,
                   enabled, typed>>

MapRegion ==
    /\ Foreground("start_alloc")
    /\ mapped' = mapped + 1
    /\ cpu' = IF mapped' < NrRegions THEN cpu ELSE "start_devices"
    /\ UNCHANGED <<irq, irqNr, elr, vmState, vState, virtUart, traps, console, uart, active,
                   enabled, typed>>

StartDevices ==
    /\ Foreground("start_devices")
    /\ traps' = StartVirtualDevices(traps)
    /\ virtUart' = TRUE
    /\ cpu' = "start_run"
    /\ UNCHANGED <<irq, irqNr, elr, vmState, vState, mapped, console, uart, active, enabled,
                   typed>>

StartRun ==
    /\ Foreground("start_run")
    /\ vmState' = "running"
    /\ cpu' = "switch"
    /\ UNCHANGED <<irq, irqNr, elr, vmRes, console, uart, active, enabled, typed>>

\* Switch_EL12 loads the guest's entry into ELR_EL2, with IRQs still unmasked ...
LoadElr ==
    /\ Foreground("switch")
    /\ elr' = "guest"
    /\ cpu' = "eret"
    /\ UNCHANGED <<irq, irqNr, vmState, vmRes, console, uart, active, enabled, typed>>

\* ... and its eret goes wherever ELR_EL2 points by then.
EnterGuest ==
    /\ Foreground("eret")
    /\ elr = "guest"
    /\ cpu' = "guest"
    /\ UNCHANGED <<irq, irqNr, elr, vmState, vmRes, console, uart, active, enabled, typed>>

-----------------------------------------------------------------------------
(* The guest.  Its traps run with IRQs masked, from entry to return. *)

\* Guest_Abort of a read of the virtual UART's data register.
GuestReadUart ==
    /\ Foreground("guest")
    /\ IF traps["uart"] > 0
       THEN /\ rx' = IF rx = <<>> THEN rx ELSE Tail(rx)
            /\ UNCHANGED cpu
       ELSE cpu' = "fault" /\ UNCHANGED rx
    /\ elr' = "guest"
    /\ UNCHANGED <<irq, irqNr, vmState, vmRes, cmdMode, uart, active, enabled, typed>>

\* Guest_Abort of a write to the virtual distributor that enables or disables one of
\* the guest's lines.
GuestSetLine(l, on) ==
    /\ Foreground("guest")
    /\ IF traps["gicd"] > 0
       THEN /\ enabled' = IF vmState # "running" THEN enabled
                          ELSE IF on THEN enabled \union {l} ELSE enabled \ {l}
            /\ UNCHANGED cpu
       ELSE cpu' = "fault" /\ UNCHANGED enabled
    /\ elr' = "guest"
    /\ UNCHANGED <<irq, irqNr, vmState, vmRes, console, uart, active, typed>>

\* Guest_Abort of an address that no trap region covers: Fault_Mode.
GuestStray ==
    /\ Foreground("guest")
    /\ cpu' = "fault"
    /\ elr' = "guest"
    /\ UNCHANGED <<irq, irqNr, vmState, vmRes, console, uart, active, enabled, typed>>

\* The guest deactivates one of its lines, through the hardware list register.
GuestEoi(l) ==
    /\ Foreground("guest")
    /\ l \in active
    /\ active' = active \ {l}
    /\ UNCHANGED <<cpu, irq, irqNr, elr, vmState, vmRes, console, uart, enabled, typed>>

-----------------------------------------------------------------------------
(* The interrupt handler, entered from EL2 or from the guest. *)

Handler(step) == irq = step /\ cpu # "fault"

Pending(nr) ==
    /\ nr \notin active
    /\ nr \in enabled \/ (nr = UartIrq /\ ris)

\* The vector saves the frame, and Handle_IRq acknowledges and drops the priority.
\* The frame's return address stays behind in ELR_EL2.
TakeIrq(nr) ==
    /\ Foreground(cpu)
    /\ cpu # "fault"
    /\ Pending(nr)
    /\ irq' = "route"
    /\ irqNr' = nr
    /\ active' = active \union {nr}
    /\ elr' = IF cpu = "guest" THEN "guest" ELSE "hyp"
    /\ cpu' = IF cpu = "wfi" THEN "getchar" ELSE cpu
    /\ UNCHANGED <<vmState, vmRes, console, uart, enabled, typed>>

(***************************************************************************)
(* Inject_VM_IRq as seen from here: the interrupt goes to a list register, *)
(* is dropped because the guest has it disabled, or there is no free list  *)
(* register, which is a fault.                                             *)
(***************************************************************************)
Inject == cpu' \in {cpu, "fault"}

(***************************************************************************)
(* Handle_IRq: a line of the running guest is injected and left active;    *)
(* every other interrupt runs its handler (Default_Handler does nothing)   *)
(* and is deactivated after it.  Before VM_Manager exists, asking it for   *)
(* the VM's state dereferences a null pointer.                             *)
(***************************************************************************)
Route ==
    /\ Handler("route")
    /\ \/ /\ cpu = "boot"
          /\ cpu' = "fault"
          /\ UNCHANGED irq
       \/ /\ cpu # "boot"
          /\ vmState = "running" /\ irqNr \in GuestLines
          /\ Inject
          /\ irq' = "check"
       \/ /\ cpu # "boot"
          /\ ~(vmState = "running" /\ irqNr \in GuestLines)
          /\ irq' = IF irqNr = UartIrq THEN "status" ELSE "deactivate"
          /\ UNCHANGED cpu
    /\ UNCHANGED <<irqNr, elr, vmState, vmRes, console, uart, active, enabled, typed>>

\* UartPl011::HandleIRq reads the status, clears it, and drains the FIFO if RX was set.
UartStatus ==
    /\ Handler("status")
    /\ ris' = FALSE
    /\ irq' = IF ris THEN "drain" ELSE "deactivate"
    /\ UNCHANGED <<cpu, irqNr, elr, vmState, vmRes, console, fifo, active, enabled, typed>>

\* One round of the drain loop: a character out of the FIFO and into RxChar.
UartRx ==
    /\ Handler("drain")
    /\ fifo # <<>>
    /\ fifo' = Tail(fifo)
    /\ ris' = (ris /\ Tail(fifo) # <<>>)
    /\ RxChar(Head(fifo))
    /\ UNCHANGED <<irqNr, elr, active, typed>>

\* The end of HandleIRq: tell a running guest that there is input.
UartDrained ==
    /\ Handler("drain")
    /\ fifo = <<>>
    /\ IF vmState = "running" THEN Inject ELSE UNCHANGED cpu
    /\ irq' = "deactivate"
    /\ UNCHANGED <<irqNr, elr, vmState, vmRes, console, uart, active, enabled, typed>>

\* The end of Handle_IRq for what the hypervisor handled itself.
BugDeactivateClearsStatus ==
    /\ Handler("deactivate")
    /\ active' = active \ {irqNr}
    /\ irq' = "check"
    /\ ris' = FALSE
    /\ UNCHANGED <<cpu, irqNr, elr, vmState, vmRes, console, fifo, enabled, typed>>

Deactivate ==
    /\ Handler("deactivate")
    /\ active' = active \ {irqNr}
    /\ irq' = "check"
    /\ UNCHANGED <<cpu, irqNr, elr, vmState, vmRes, console, uart, enabled, typed>>

\* The end of IRq_Handler: act on a request to stop, or return to what was interrupted.
BugCheckShutdownReturns ==
    /\ Handler("check")
    /\ irq' = "none"
    /\ UNCHANGED <<cpu, irqNr, elr, vmState, vmRes, console, uart, active, enabled, typed>>

CheckShutdown ==
    /\ Handler("check")
    /\ IF vmState = "request_shutdown"
       THEN Stop_VM
       ELSE irq' = "none" /\ UNCHANGED <<cpu, vmState, vmRes, enabled>>
    /\ UNCHANGED <<irqNr, elr, console, uart, active, typed>>

\* Asleep until an interrupt, dead in Fault_Mode's loop, or returning to an eret for ever.
Idle ==
    /\ \/ Foreground("wfi")
       \/ cpu = "fault"
       \/ Foreground("eret") /\ elr = "hyp"
    /\ UNCHANGED vars

-----------------------------------------------------------------------------
AppNext ==
    \/ CreateVmManager \/ GetChar \/ Wfi
    \/ StartVirtIC \/ MapRegion \/ StartDevices \/ StartRun
    \/ LoadElr \/ EnterGuest

GuestNext ==
    \/ GuestReadUart \/ GuestStray
    \/ \E l \in GuestLines: GuestEoi(l) \/ \E on \in BOOLEAN: GuestSetLine(l, on)

IrqNext ==
    \/ Route \/ UartStatus \/ UartRx \/ UartDrained \/ Deactivate \/ CheckShutdown

Next ==
    \/ \E c \in Keys: Type(c)
    \/ AppNext
    \/ GuestNext
    \/ \E nr \in GuestLines \union {UartIrq}: TakeIrq(nr)
    \/ IrqNext
    \/ Idle

(***************************************************************************)
(* The CPU always executes its next instruction, so EL2 code progresses.   *)
(* An unmasked interrupt is taken before the next instruction: a guest     *)
(* line, once acknowledged, waits for an instruction of the guest, so it   *)
(* cannot keep the UART out.  Keys and the guest promise nothing.          *)
(***************************************************************************)
Fairness ==
    /\ WF_vars(AppNext)
    /\ WF_vars(IrqNext)
    /\ SF_vars(TakeIrq(UartIrq))

Spec == Init /\ [][Next]_vars /\ Fairness

-----------------------------------------------------------------------------
TypeOK ==
    /\ cpu \in CpuSteps
    /\ irq \in IrqSteps
    /\ irqNr \in GuestLines \union {UartIrq}
    /\ elr \in {"hyp", "guest"}
    /\ vmState \in {"stopped", "running", "request_shutdown"}
    /\ vState \in {"Stopped", "Started"}
    /\ mapped \in 0..NrRegions
    /\ virtUart \in BOOLEAN
    /\ traps \in [Devices -> 0..1]
    /\ cmdMode \in BOOLEAN
    /\ rx \in Seq(Keys) /\ Len(rx) <= RxSize
    /\ fifo \in Seq(Keys) /\ Len(fifo) <= FifoSize
    /\ ris \in BOOLEAN
    /\ active \subseteq GuestLines \union {UartIrq}
    /\ enabled \subseteq GuestLines
    /\ typed \in 0..MaxTyped

\* Whenever the CPU is in the guest, the VM is running with every region mapped and
\* each emulated device trapped exactly once, whatever was stopped and started before.
GuestFullyBacked ==
    cpu \in SwitchSteps \union {"guest"} =>
        /\ vmState # "stopped"
        /\ vState = "Started"
        /\ mapped = NrRegions
        /\ traps = [d \in Devices |-> 1]

\* A shutdown request never survives the interrupt handler that raised it: neither
\* the guest nor the command line ever executes with a request pending.
RequestStaysInHandler ==
    vmState = "request_shutdown" => irq # "none"

RunningOwnsCpu ==
    vmState # "stopped" => cpu \in SwitchSteps \union {"guest", "fault"}

StoppedIsClean ==
    cpu \in AppSteps =>
        /\ vState = "Stopped"
        /\ mapped = 0
        /\ traps["gicd"] = 0 /\ traps["gicr"] = 0
        /\ enabled = {}

GuestLineNeedsVm ==
    irq = "route" /\ irqNr \in GuestLines => vmState = "running"

\* Whatever order the handlers ran in: a VM that is not stopped owns the CPU, so that no
\* command line or start sequence runs under it and Start_VM never finds a VM it would
\* start a second time; with the command line back, the stopped VM has left nothing
\* mapped, no GIC trap and no physical line enabled; and a guest's line never interrupts
\* a hypervisor without a VM, which would have no handler for it.
StateAgrees == RunningOwnsCpu /\ StoppedIsClean /\ GuestLineNeedsVm

\* A handler was left through Stop_VM before it could deactivate the UART interrupt.
HandlerAbandoned == irq = "none" /\ UartIrq \in active

\* A requested shutdown takes place.
ShutdownHappens ==
    vmState = "request_shutdown" ~> vmState = "stopped"

\* Every key leaves the UART's FIFO, whatever the CPU does when it comes, unless the
\* machine faulted or a handler was abandoned.
UartServiced ==
    fifo # <<>> ~> (fifo = <<>> \/ cpu = "fault" \/ HandlerAbandoned)

-----------------------------------------------------------------------------
(* What a reader of the code's comments would expect, and the code does not do. *)

\* console.cpp: the first Stop_VM only notifies, and the VM is stopped "in the right
\* place", outside the UART handler; so a handled UART interrupt is always deactivated.
UartAlwaysDeactivated == irq = "none" => UartIrq \notin active

\* vector.S: Switch_EL12 does not return to the hypervisor's running context.
SwitchNeverReturns == Foreground("eret") => elr = "guest"

\* main.cpp: "we are ready to receive interrupts" once they are unmasked.
ReadyForInterrupts == irq # "none" => cpu # "boot"

-----------------------------------------------------------------------------
(* The refinement mapping to VmContract. *)

RegionRes(i) == <<"region", i>>
DeviceRes(d) == <<"device", d>>

ContractResources == {RegionRes(i) : i \in 1..NrRegions} \union {DeviceRes(d) : d \in Devices}

ContractVm == IF vmState = "stopped" THEN "off"
              ELSE IF vmState = "running" THEN "on" ELSE "stopping"

ContractOwner == IF cpu = "fault" THEN "dead"
                 ELSE IF Foreground("guest") THEN "guest" ELSE "hyp"

ContractHeld == {RegionRes(i) : i \in 1..mapped}
                \union {DeviceRes(d) : d \in {x \in Devices : traps[x] > 0}}

Contract == INSTANCE VmContract WITH
    Resources <- ContractResources,
    Kept      <- {DeviceRes("uart")},
    vm        <- ContractVm,
    owner     <- ContractOwner,
    held      <- ContractHeld

\* The hypervisor keeps the contract: the guest is entered, left, launched and torn down
\* only in the order, and with the resources, that VmContract allows.
ContractSpec == Contract!Spec
=============================================================================
