-------------------------- MODULE Hypervisor_proofs --------------------------
(***************************************************************************)
(* Proofs about Hypervisor for any set of guest lines, any number of       *)
(* regions and keys, and any buffer sizes.                                 *)
(*                                                                         *)
(* The safety properties are not inductive: that the guest is backed when  *)
(* it is entered depends on what every earlier step of Start_VM left, and  *)
(* that a request stays in the handler depends on which interrupt may have *)
(* raised it.  IInv adds, for every place the foreground can be, what has  *)
(* been acquired by then, and, for every step of the handler, which        *)
(* interrupt and which vm_state can have led there.                        *)
(***************************************************************************)
EXTENDS Hypervisor, TLAPS

(* The two queues of keys: nothing else depends on what they hold. *)
Queues ==
    /\ rx \in Seq(Keys)
    /\ Len(rx) <= RxSize
    /\ fifo \in Seq(Keys)
    /\ Len(fifo) <= FifoSize
    /\ ris \in BOOLEAN
    /\ typed \in 0..MaxTyped

(* The types of everything but the queues. *)
ControlTypes ==
    /\ cpu \in CpuSteps
    /\ irq \in IrqSteps
    /\ irqNr \in GuestLines \union {UartIrq}
    /\ elr \in {"hyp", "guest"}
    /\ vmState \in {"stopped", "running", "request_shutdown"}
    /\ vState \in {"Stopped", "Started"}
    /\ mapped \in 0..NrRegions
    /\ virtUart \in BOOLEAN
    /\ traps \in [Devices -> 0..1]
    /\ cmdMode \in BOOLEAN
    /\ active \subseteq GuestLines \union {UartIrq}
    /\ enabled \subseteq GuestLines

(* The virtual UART registers its trap when it is created, and is never deleted. *)
UartTrapped == traps["uart"] = IF virtUart THEN 1 ELSE 0

(* The virtual GIC and its two traps come and go together. *)
GicTrapped == LET n == IF vState = "Started" THEN 1 ELSE 0
              IN  traps["gicd"] = n /\ traps["gicr"] = n

(* What the foreground has acquired where it is; nothing is known of a fault. *)
Progress ==
    /\ cpu \in {"boot"} \union AppSteps \union {"start_vic"} =>
          vState = "Stopped" /\ mapped = 0
    /\ cpu \in {"start_alloc", "start_devices", "start_run"} \union SwitchSteps
               \union {"guest"} => vState = "Started"
    /\ cpu = "start_alloc" => mapped < NrRegions
    /\ cpu \in {"start_devices", "start_run"} \union SwitchSteps \union {"guest"} =>
          mapped = NrRegions
    /\ cpu \in {"start_run"} \union SwitchSteps \union {"guest"} => virtUart

(* vm_state is "stopped" up to the switch and not after it, and physical lines are *)
(* enabled for a VM only.                                                          *)
StateOfCpu ==
    /\ cpu \in {"boot"} \union AppSteps \union StartSteps => vmState = "stopped"
    /\ cpu \in SwitchSteps \union {"guest"} => vmState # "stopped"
    /\ vmState = "stopped" => enabled = {}

(* Which interrupt and which vm_state each step of the handler can see. *)
HandlerState ==
    /\ vmState = "request_shutdown" => irq \in {"drain", "deactivate", "check"}
    /\ irq = "route" /\ irqNr \in GuestLines => vmState = "running"

Control ==
    ControlTypes /\ UartTrapped /\ GicTrapped /\ Progress /\ StateOfCpu /\ HandlerState

IInv == Queues /\ Control

-----------------------------------------------------------------------------
(* A key offered to the receive ring buffer leaves it well typed and within its size. *)
LEMMA RxInType ==
    ASSUME NEW q \in Seq(Keys), Len(q) <= RxSize, NEW c \in Keys
    PROVE  RxIn(q, c) \in Seq(Keys) /\ Len(RxIn(q, c)) <= RxSize
BY SizesAssumption DEF RxIn

(* Taking the head off a queue of keys leaves a shorter queue of keys. *)
LEMMA TailType ==
    ASSUME NEW q \in Seq(Keys), q # <<>>
    PROVE  Tail(q) \in Seq(Keys) /\ Len(Tail(q)) < Len(q) /\ Head(q) \in Keys
OBVIOUS

(* Every step keeps the queues typed and bounded: console.cpp's buffer never holds *)
(* more than its size, whatever the keys and however late they are read.           *)
LEMMA QueuesStep == Queues /\ [Next]_vars => Queues'
<1> SUFFICES ASSUME Queues, [Next]_vars PROVE Queues'
    OBVIOUS
<1> USE DEF Queues
<1>1. ASSUME NEW c \in Keys, Type(c) PROVE Queues'
    <2>1. fifo' \in Seq(Keys) /\ Len(fifo') = Len(fifo) + 1
        BY <1>1 DEF Type
    <2>2. rx' = rx /\ typed' = typed + 1 /\ typed < MaxTyped /\ ris' \in BOOLEAN
        BY <1>1 DEF Type, console
    <2>3. Len(fifo') <= FifoSize
        BY <1>1, <2>1, SizesAssumption DEF Type
    <2> QED BY <2>1, <2>2, <2>3, SizesAssumption
<1>2. ASSUME GetChar PROVE Queues'
    <2>1. rx' = rx \/ (rx # <<>> /\ rx' = Tail(rx))
        BY <1>2 DEF GetChar
    <2>2. rx' \in Seq(Keys) /\ Len(rx') <= RxSize
        BY <2>1, TailType, SizesAssumption
    <2> QED BY <1>2, <2>2 DEF GetChar, uart
<1>3. ASSUME GuestReadUart PROVE Queues'
    <2>1. rx' = rx \/ (rx # <<>> /\ rx' = Tail(rx))
        BY <1>3 DEF GuestReadUart
    <2>2. rx' \in Seq(Keys) /\ Len(rx') <= RxSize
        BY <2>1, TailType, SizesAssumption
    <2> QED BY <1>3, <2>2 DEF GuestReadUart, uart
<1>4. ASSUME UartRx PROVE Queues'
    <2>1. fifo' \in Seq(Keys) /\ Len(fifo') <= FifoSize /\ Head(fifo) \in Keys
        BY <1>4, TailType, SizesAssumption DEF UartRx
    <2>2. CmdKey \in Keys
        BY DEF Keys
    <2>3. \/ rx' = rx
          \/ rx' = RxIn(rx, Head(fifo))
          \/ rx' = RxIn(RxIn(rx, CmdKey), Head(fifo))
        BY <1>4 DEF UartRx, RxChar
    <2>4. rx' \in Seq(Keys) /\ Len(rx') <= RxSize
        BY <2>1, <2>2, <2>3, RxInType
    <2> QED BY <1>4, <2>1, <2>4 DEF UartRx
<1>5. ASSUME AppNext, ~GetChar PROVE Queues'
    BY <1>5 DEF AppNext, CreateVmManager, Wfi, StartVirtIC, MapRegion, StartDevices, StartRun,
       LoadElr, EnterGuest, console, uart
<1>6. ASSUME GuestNext, ~GuestReadUart PROVE Queues'
    BY <1>6 DEF GuestNext, GuestStray, GuestEoi, GuestSetLine, console, uart
<1>7. ASSUME NEW nr \in GuestLines \union {UartIrq}, TakeIrq(nr) PROVE Queues'
    BY <1>7 DEF TakeIrq, console, uart
<1>8. ASSUME IrqNext, ~UartRx PROVE Queues'
    BY <1>8 DEF IrqNext, Route, UartStatus, UartDrained, Deactivate, CheckShutdown, console, uart
<1>9. CASE UNCHANGED vars
    BY <1>9 DEF vars, console, uart
<1> QED
    BY <1>1, <1>2, <1>3, <1>4, <1>5, <1>6, <1>7, <1>8, <1>9 DEF Next, Idle

-----------------------------------------------------------------------------
(* Stop_VM, called with the VM's resources in place and from a handler that may *)
(* return, keeps the control state whether it requests, acts or does nothing.   *)
LEMMA StopVmControl ==
    ASSUME Control, cpu # "fault", irq \in {"drain", "check"}, Stop_VM,
           UNCHANGED <<irqNr, elr, active>>, cmdMode' \in BOOLEAN
    PROVE  Control'
<1> USE SizesAssumption DEF Control, ControlTypes
<1>1. CASE vmState # "request_shutdown"
    BY <1>1 DEF Stop_VM, vmRes, UartTrapped, GicTrapped, Progress, StateOfCpu, HandlerState,
       CpuSteps, AppSteps, StartSteps, SwitchSteps
<1>2. CASE vmState = "request_shutdown"
    <2>1. Teardown
        BY <1>2 DEF Stop_VM
    <2>2. vState = "Started" /\ virtUart /\ traps = [d \in Devices |-> 1]
        BY <1>2 DEF StateOfCpu, Progress, UartTrapped, GicTrapped, CpuSteps, AppSteps,
           StartSteps, SwitchSteps, Devices
    <2>3. traps' = [d \in Devices |-> IF d = "uart" THEN 1 ELSE 0]
        <3>1. StartVirtualDevices(traps) = traps
            BY <2>2 DEF StartVirtualDevices
        <3>2. traps' = [traps EXCEPT !["gicd"] = @ - 1, !["gicr"] = @ - 1]
            BY <2>1, <2>2, <3>1 DEF Teardown, StopVirtIC
        <3>3. \A d \in Devices: traps'[d] = IF d = "uart" THEN 1 ELSE 0
            BY <2>2, <3>2 DEF Devices
        <3>4. traps' \in [Devices -> Int]
            BY <2>2, <3>2 DEF Devices
        <3> QED BY <3>3, <3>4
    <2>4. ControlTypes'
        BY <2>1, <2>3 DEF Teardown, CpuSteps, AppSteps, IrqSteps, Devices
    <2>5. UartTrapped' /\ GicTrapped'
        BY <2>1, <2>3 DEF Teardown, UartTrapped, GicTrapped, Devices
    <2>6. Progress' /\ StateOfCpu' /\ HandlerState'
        BY <2>1 DEF Teardown, Progress, StateOfCpu, HandlerState, AppSteps, StartSteps,
           SwitchSteps
    <2> QED BY <2>4, <2>5, <2>6
<1> QED BY <1>1, <1>2

(* Every step keeps the control state: one step per action. *)
LEMMA ControlStep == Control /\ [Next]_vars => Control'
<1> SUFFICES ASSUME Control, [Next]_vars PROVE Control'
    OBVIOUS
<1> USE SizesAssumption DEF Control, ControlTypes, UartTrapped, GicTrapped, Progress,
        StateOfCpu, HandlerState, CpuSteps, IrqSteps, AppSteps, StartSteps, SwitchSteps, Devices
<1>1. ASSUME NEW c \in Keys, Type(c) PROVE Control'
    BY <1>1 DEF Type, vmRes, console
<1>2. ASSUME CreateVmManager PROVE Control'
    BY <1>2 DEF CreateVmManager, Foreground, vmRes, console
<1>3. ASSUME GetChar PROVE Control'
    BY <1>3 DEF GetChar, Foreground, vmRes
<1>4. ASSUME Wfi PROVE Control'
    BY <1>4 DEF Wfi, Foreground, vmRes, console
<1>5. ASSUME StartVirtIC PROVE Control'
    BY <1>5 DEF StartVirtIC, Foreground, console
<1>6. ASSUME MapRegion PROVE Control'
    BY <1>6 DEF MapRegion, Foreground, console
<1>7. ASSUME StartDevices PROVE Control'
    BY <1>7 DEF StartDevices, StartVirtualDevices, Foreground, console
<1>8. ASSUME StartRun PROVE Control'
    BY <1>8 DEF StartRun, Foreground, vmRes, console
<1>9. ASSUME LoadElr PROVE Control'
    BY <1>9 DEF LoadElr, Foreground, vmRes, console
<1>10. ASSUME EnterGuest PROVE Control'
    BY <1>10 DEF EnterGuest, Foreground, vmRes, console
<1>11. ASSUME GuestReadUart PROVE Control'
    BY <1>11 DEF GuestReadUart, Foreground, vmRes
<1>12. ASSUME GuestStray PROVE Control'
    BY <1>12 DEF GuestStray, Foreground, vmRes, console
<1>13. ASSUME NEW l \in GuestLines, GuestEoi(l) PROVE Control'
    BY <1>13 DEF GuestEoi, Foreground, vmRes, console
<1>14. ASSUME NEW l \in GuestLines, NEW on \in BOOLEAN, GuestSetLine(l, on) PROVE Control'
    BY <1>14 DEF GuestSetLine, Foreground, vmRes, console
<1>15. ASSUME NEW nr \in GuestLines \union {UartIrq}, TakeIrq(nr) PROVE Control'
    BY <1>15, UartAssumption DEF TakeIrq, Pending, Foreground, vmRes, console
<1>16. ASSUME Route PROVE Control'
    BY <1>16 DEF Route, Handler, Inject, vmRes, console
<1>17. ASSUME UartStatus PROVE Control'
    BY <1>17 DEF UartStatus, Handler, vmRes, console
<1>18. ASSUME UartDrained PROVE Control'
    BY <1>18 DEF UartDrained, Handler, Inject, vmRes, console
<1>19. ASSUME Deactivate PROVE Control'
    BY <1>19 DEF Deactivate, Handler, vmRes, console
<1>20. ASSUME UartRx PROVE Control'
    <2>1. CASE Stop_VM /\ cmdMode' \in BOOLEAN
        BY <1>20, <2>1, StopVmControl DEF UartRx, Handler
    <2>2. CASE UNCHANGED <<cpu, irq, vmState, vmRes, enabled>> /\ cmdMode' \in BOOLEAN
        BY <1>20, <2>2 DEF UartRx, vmRes
    <2> QED BY <1>20, <2>1, <2>2 DEF UartRx, RxChar
<1>21. ASSUME CheckShutdown PROVE Control'
    <2>1. CASE vmState = "request_shutdown"
        BY <1>21, <2>1, StopVmControl DEF CheckShutdown, Handler, console
    <2>2. CASE vmState # "request_shutdown"
        BY <1>21, <2>2 DEF CheckShutdown, Handler, vmRes, console
    <2> QED BY <2>1, <2>2
<1>22. CASE UNCHANGED vars
    BY <1>22 DEF vars, vmRes, console
<1> QED
    BY <1>1, <1>2, <1>3, <1>4, <1>5, <1>6, <1>7, <1>8, <1>9, <1>10, <1>11, <1>12, <1>13, <1>14, <1>15, <1>16, <1>17, <1>18, <1>19, <1>20, <1>21, <1>22
    DEF Next, AppNext, GuestNext, IrqNext, Idle

-----------------------------------------------------------------------------
(* The inductive invariant holds in every reachable state. *)
THEOREM Invariance == Spec => []IInv
<1>1. ASSUME Init PROVE IInv
    <2>1. rx \in Seq(Keys) /\ Len(rx) <= RxSize /\ fifo \in Seq(Keys) /\ Len(fifo) <= FifoSize
        BY <1>1, SizesAssumption DEF Init
    <2>2. ris \in BOOLEAN /\ virtUart \in BOOLEAN /\ cmdMode \in BOOLEAN
        BY <1>1 DEF Init
    <2>3. typed \in 0..MaxTyped /\ mapped \in 0..NrRegions
        BY <1>1, SizesAssumption DEF Init
    <2>4. traps \in [Devices -> 0..1]
        BY <1>1 DEF Init, Devices
    <2>5. ControlTypes
        BY <1>1, <2>2, <2>3, <2>4 DEF Init, ControlTypes, CpuSteps, IrqSteps
    <2>6. UartTrapped /\ GicTrapped
        BY <1>1 DEF Init, UartTrapped, GicTrapped, Devices
    <2>7. Progress /\ StateOfCpu /\ HandlerState
        BY <1>1, SizesAssumption DEF Init, Progress, StateOfCpu, HandlerState, AppSteps,
           StartSteps, SwitchSteps
    <2> QED BY <2>1, <2>2, <2>3, <2>5, <2>6, <2>7 DEF IInv, Queues, Control
<1>2. IInv /\ [Next]_vars => IInv'
    BY QueuesStep, ControlStep DEF IInv
<1> QED BY <1>1, <1>2, PTL DEF Spec

(* Every variable keeps its type; in particular no device is ever trapped twice. *)
THEOREM TypeCorrect == Spec => []TypeOK
<1>1. IInv => TypeOK
    BY DEF IInv, Queues, Control, ControlTypes, TypeOK
<1> QED BY <1>1, Invariance, PTL

(* No interleaving of keys, interrupts, starts and stops lets a guest execute without all
   of its regions and traps. *)
THEOREM GuestIsBacked == Spec => []GuestFullyBacked
<1>1. IInv => GuestFullyBacked
    BY DEF IInv, Control, ControlTypes, CpuSteps, AppSteps, StartSteps, SwitchSteps, Progress, UartTrapped, GicTrapped, StateOfCpu, Devices, GuestFullyBacked
<1> QED BY <1>1, Invariance, PTL

(* A shutdown request is acted on before the handler that raised it returns. *)
THEOREM RequestIsHandled == Spec => []RequestStaysInHandler
<1>1. IInv => RequestStaysInHandler
    BY DEF IInv, Control, HandlerState, RequestStaysInHandler
<1> QED BY <1>1, Invariance, PTL

(* Nothing but the guest, the way into it, or a fault holds the CPU under a live VM. *)
THEOREM RunningVmOwnsCpu == Spec => []RunningOwnsCpu
<1>1. IInv => RunningOwnsCpu
    BY DEF IInv, Control, ControlTypes, CpuSteps, AppSteps, StartSteps, SwitchSteps, StateOfCpu, RunningOwnsCpu
<1> QED BY <1>1, Invariance, PTL

(* The command line never runs with anything of a stopped VM left but the UART trap. *)
THEOREM StopLeavesNothing == Spec => []StoppedIsClean
<1>1. IInv => StoppedIsClean
    BY DEF IInv, Control, ControlTypes, CpuSteps, AppSteps, StartSteps, SwitchSteps, Progress, GicTrapped, StateOfCpu, StoppedIsClean
<1> QED BY <1>1, Invariance, PTL

(* Handle_IRq never sees a guest's line without a running VM to inject it into. *)
THEOREM GuestLineHasVm == Spec => []GuestLineNeedsVm
<1>1. IInv => GuestLineNeedsVm
    BY DEF IInv, Control, HandlerState, GuestLineNeedsVm
<1> QED BY <1>1, Invariance, PTL

(* The VM's state, the CPU, the resources and the lines never disagree. *)
THEOREM StatesAgree == Spec => []StateAgrees
BY RunningVmOwnsCpu, StopLeavesNothing, GuestLineHasVm, PTL DEF StateAgrees

-----------------------------------------------------------------------------
(* The hypervisor implements its contract. *)

(* With every region and trap in place, everything the contract lists is held. *)
LEMMA AllHeld ==
    ASSUME mapped = NrRegions, \A d \in Devices: traps[d] > 0
    PROVE  ContractHeld = ContractResources
BY DEF ContractHeld, ContractResources

(* Acquiring never gives anything back. *)
LEMMA HeldGrows ==
    ASSUME mapped \in Nat, mapped' \in Nat, mapped <= mapped', mapped' <= NrRegions,
           NrRegions \in Nat,
           \A d \in Devices: traps[d] > 0 => traps'[d] > 0
    PROVE  ContractHeld' \in SUBSET ContractResources /\ ContractHeld \subseteq ContractHeld'
BY DEF ContractHeld, ContractResources

(* What Stop_VM does is the contract's request, its release, or nothing. *)
LEMMA StopVmRefines ==
    ASSUME Control, cpu # "fault", irq \in {"drain", "check"}, Stop_VM
    PROVE  [Contract!Next]_(Contract!vars)
<1>1. CASE vmState = "running"
    <2>1. Contract!Request
        BY <1>1 DEF Stop_VM, Contract!Request, ContractVm, ContractOwner, ContractHeld,
           Foreground, vmRes
    <2> QED BY <2>1 DEF Contract!Next
<1>2. CASE vmState = "request_shutdown"
    <2>1. Teardown
        BY <1>2 DEF Stop_VM
    <2>2. vState = "Started" /\ virtUart /\ traps = [d \in Devices |-> 1]
        BY <1>2 DEF Control, ControlTypes, StateOfCpu, Progress, UartTrapped, GicTrapped,
           CpuSteps, AppSteps, StartSteps, SwitchSteps, Devices
    <2>3. traps' = [traps EXCEPT !["gicd"] = @ - 1, !["gicr"] = @ - 1]
        BY <2>1, <2>2 DEF Teardown, StopVirtIC, StartVirtualDevices
    <2>4. \A d \in Devices: traps'[d] > 0 <=> d = "uart"
        BY <2>2, <2>3 DEF Devices
    <2>5. mapped' = 0 /\ 1..mapped' = {}
        BY <2>1 DEF Teardown
    <2>6. ContractHeld' = {DeviceRes("uart")}
        BY <2>4, <2>5 DEF ContractHeld, Devices
    <2>7. DeviceRes("uart") \in ContractHeld
        BY <2>2 DEF ContractHeld, Devices
    <2>8. Contract!Release
        BY <1>2, <2>1, <2>6, <2>7 DEF Teardown, Contract!Release, ContractVm, ContractOwner,
           Foreground
    <2> QED BY <2>8 DEF Contract!Next
<1>3. CASE vmState = "stopped"
    BY <1>3 DEF Stop_VM, Contract!vars, ContractVm, ContractOwner, ContractHeld, Foreground, vmRes
<1> QED BY <1>1, <1>2, <1>3 DEF Control, ControlTypes

(* Each step of the hypervisor is a step of the contract or changes nothing it sees. *)
LEMMA StepRefines ==
    ASSUME Control, Control', [Next]_vars
    PROVE  [Contract!Next]_(Contract!vars)
<1> USE DEF Contract!Next, Contract!vars, ContractVm, ContractOwner, Foreground
<1>1. ASSUME StartVirtIC \/ MapRegion \/ StartDevices PROVE Contract!Acquire
    <2>1. vmState = "stopped" /\ vmState' = "stopped" /\ irq = "none" /\ irq' = "none"
        BY <1>1 DEF StartVirtIC, MapRegion, StartDevices, Control, StateOfCpu, StartSteps
    <2>2. cpu \notin {"guest", "fault"} /\ cpu' \notin {"guest", "fault"}
        BY <1>1 DEF StartVirtIC, MapRegion, StartDevices, Control, Progress
    <2>3. mapped <= mapped' /\ \A d \in Devices: traps[d] > 0 => traps'[d] > 0
        BY <1>1, SizesAssumption DEF StartVirtIC, MapRegion, StartDevices, StartVirtualDevices,
           Control, ControlTypes, Devices
    <2>4. ContractHeld' \in SUBSET ContractResources /\ ContractHeld \subseteq ContractHeld'
        BY <2>3, HeldGrows, SizesAssumption DEF Control, ControlTypes
    <2> QED BY <2>1, <2>2, <2>4 DEF Contract!Acquire
<1>2. ASSUME StartRun PROVE Contract!Launch
    <2>1. mapped = NrRegions /\ \A d \in Devices: traps[d] > 0
        BY <1>2 DEF StartRun, Control, Progress, GicTrapped, UartTrapped, Devices
    <2>2. ContractHeld = ContractResources
        BY <2>1, AllHeld
    <2> QED BY <1>2, <2>2 DEF StartRun, Contract!Launch, Control, StateOfCpu, StartSteps,
           ContractHeld, vmRes
<1>3. ASSUME EnterGuest PROVE Contract!Enter
    BY <1>3 DEF EnterGuest, Contract!Enter, Control, ControlTypes, StateOfCpu, HandlerState,
       SwitchSteps, ContractHeld, vmRes
<1>4. ASSUME NEW c \in Keys, Type(c) PROVE UNCHANGED Contract!vars
    BY <1>4 DEF Type, ContractHeld, vmRes
<1>5. ASSUME CreateVmManager \/ GetChar \/ Wfi \/ LoadElr PROVE UNCHANGED Contract!vars
    BY <1>5 DEF CreateVmManager, GetChar, Wfi, LoadElr, ContractHeld, vmRes
<1>6. ASSUME GuestReadUart \/ GuestStray PROVE Contract!Die \/ UNCHANGED Contract!vars
    BY <1>6 DEF GuestReadUart, GuestStray, Contract!Die, ContractHeld, vmRes
<1>7. ASSUME NEW l \in GuestLines, NEW on \in BOOLEAN, GuestEoi(l) \/ GuestSetLine(l, on)
      PROVE  Contract!Die \/ UNCHANGED Contract!vars
    BY <1>7 DEF GuestEoi, GuestSetLine, Contract!Die, ContractHeld, vmRes
<1>8. ASSUME NEW nr \in GuestLines \union {UartIrq}, TakeIrq(nr)
      PROVE  Contract!Leave \/ UNCHANGED Contract!vars
    BY <1>8 DEF TakeIrq, Contract!Leave, ContractHeld, vmRes
<1>9. ASSUME Route \/ UartDrained PROVE Contract!Die \/ UNCHANGED Contract!vars
    BY <1>9 DEF Route, UartDrained, Handler, Inject, Contract!Die, ContractHeld, vmRes
<1>10. ASSUME UartStatus \/ Deactivate PROVE UNCHANGED Contract!vars
    BY <1>10 DEF UartStatus, Deactivate, Handler, ContractHeld, vmRes
<1>11. ASSUME UartRx PROVE [Contract!Next]_(Contract!vars)
    <2>1. CASE Stop_VM
        BY <1>11, <2>1, StopVmRefines DEF UartRx, Handler
    <2>2. CASE UNCHANGED <<cpu, irq, vmState, vmRes, enabled>>
        BY <2>2 DEF ContractHeld, vmRes
    <2> QED BY <1>11, <2>1, <2>2 DEF UartRx, RxChar
<1>12. ASSUME CheckShutdown PROVE [Contract!Next]_(Contract!vars)
    <2>1. CASE vmState = "request_shutdown"
        BY <1>12, <2>1, StopVmRefines DEF CheckShutdown, Handler
    <2>2. CASE vmState # "request_shutdown" /\ cpu = "guest"
        BY <1>12, <2>2 DEF CheckShutdown, Handler, Contract!Enter, Control, ControlTypes,
           StateOfCpu, SwitchSteps, ContractHeld, vmRes
    <2>3. CASE vmState # "request_shutdown" /\ cpu # "guest"
        BY <1>12, <2>3 DEF CheckShutdown, Handler, ContractHeld, vmRes
    <2> QED BY <2>1, <2>2, <2>3
<1>13. CASE UNCHANGED vars
    BY <1>13 DEF vars, ContractHeld, vmRes
<1> QED
    BY <1>1, <1>2, <1>3, <1>4, <1>5, <1>6, <1>7, <1>8, <1>9, <1>10, <1>11, <1>12, <1>13
    DEF Next, AppNext, GuestNext, IrqNext, Idle

(* Whoever reads VmContract knows what the hypervisor does with the CPU and the VM. *)
THEOREM ContractImplemented == Spec => ContractSpec
<1>1. Init => Contract!Init
    BY DEF Init, Contract!Init, ContractVm, ContractOwner, ContractHeld, Foreground, Devices
<1>2. IInv /\ IInv' /\ [Next]_vars => [Contract!Next]_(Contract!vars)
    BY StepRefines DEF IInv
<1> QED BY <1>1, <1>2, Invariance, PTL DEF Spec, ContractSpec, Contract!Spec
==============================================================================
