------------------------------ MODULE Asteroid ------------------------------
(***************************************************************************)
(* The demonstration guest on VirtGic: Asteroid's boot, its interrupt core *)
(* and its two interrupt sources, the terminal and the virtual timer, with *)
(* what Saturn does for them.  Where VirtGic lets a guest do anything,     *)
(* here it does what its code says, which VirtGic allows (GuestOfVirtGic   *)
(* of Asteroid_proofs).                                                    *)
(*                                                                         *)
(* Asteroid masks IRQs in its handlers, but for the eret at their end;     *)
(* Saturn interrupts it between any two steps, and may stop the VM there   *)
(* and start it again.  Keys are counted: their order is the ring buffer's *)
(* business, and Asteroid writes each one back to the terminal as it reads *)
(* it.  The drain of the FIFO, atomic here, is interleaved with the        *)
(* terminal in Hypervisor, where the keys that stop and start the VM are,  *)
(* too.  Asteroid's console and heap are copies of Saturn's.               *)
(*                                                                         *)
(* An operator whose name starts with Bug is not part of the model.        *)
(***************************************************************************)
EXTENDS VirtGic

CONSTANTS
    TimerIrq,   \* the virtual timer's line, assigned to the guest
    RxSize,     \* _rx_size
    MaxKeys,    \* bound of the model: keys typed for the guest
    MaxTicks,   \* bound of the model: times the timer expires
    MaxStops    \* bound of the model: times the VM is stopped

ASSUME AsteroidTimer == TimerIrq \in Owned /\ TimerIrq < FirstSPI
ASSUME AsteroidWrites == {{UartIrq % WordSize}, {TimerIrq}} \subseteq Writes
ASSUME AsteroidBounds == RxSize \in Nat \ {0} /\ {MaxKeys, MaxTicks, MaxStops} \subseteq Nat

VARIABLES
    fifo,       \* keys in the receive FIFO of the UART
    rx,         \* keys in Console::rxBuffer of Saturn
    pc,         \* Asteroid's Main: the next step
    at,         \* its exception handler: the next step, or "none"
    id,         \* the interrupt it handles
    ret,        \* the step it returns to: ELR_EL1 in its frame
    irqTable,   \* the lines with a handler of their own in IRq_Table
    highest,    \* ICH_AP1R: a priority is active, nothing else is signalled
    timerOn,    \* CNTV_CTL_EL0
    due,        \* the timer's line is asserted: CNTV_CVAL_EL0 has passed
    keys, ticks, stops,
    \* history
    quiet,      \* keys handed to Saturn's console that no interrupt announces
    left        \* what stopped VMs left in the list registers

guest  == <<pc, at, id, ret, irqTable>>
timer  == <<timerOn, due>>
counts == <<keys, ticks, stops>>
asteroidVars == <<vars, fifo, rx, guest, highest, timer, counts, quiet, left>>

InitAsteroid ==
    /\ Init
    /\ fifo = 0 /\ rx = 0
    /\ pc = "uart" /\ at = "none" /\ id = 0 /\ ret = "none" /\ irqTable = {}
    /\ highest = FALSE
    /\ timerOn = FALSE /\ due = FALSE
    /\ keys = 0 /\ ticks = 0 /\ stops = 0
    /\ quiet = 0 /\ left = {}

-----------------------------------------------------------------------------
(* The outside. *)

TypeKey ==
    /\ ~fault
    /\ keys < MaxKeys
    /\ keys' = keys + 1
    /\ fifo' = fifo + 1
    /\ UNCHANGED <<vars, rx, guest, highest, timer, ticks, stops, quiet, left>>

TimerExpires ==
    /\ timerOn /\ ~due /\ ticks < MaxTicks
    /\ LineAsserts(TimerIrq)
    /\ due' = TRUE
    /\ ticks' = ticks + 1
    /\ UNCHANGED <<fifo, rx, guest, highest, timerOn, keys, stops, quiet, left>>

-----------------------------------------------------------------------------
(* Saturn. *)

Least(m, n) == IF m < n THEN m ELSE n
Accepted == Least(fifo, RxSize - rx)

\* UartPl011::HandleIRq: the FIFO is drained, keys beyond the buffer are lost, and a running
\* guest is told once, however many there were.
HandleUart ==
    /\ fifo > 0
    /\ TakeUart
    /\ fifo' = 0
    /\ rx' = rx + Accepted
    /\ quiet' = quiet + Accepted - IF lrs' # lrs THEN Least(1, quiet + Accepted) ELSE 0
    /\ UNCHANGED <<guest, highest, timer, counts, left>>

\* The same without a VM; the command line may read the keys before the next start.
HandleUartStopped ==
    /\ ~fault /\ ~running
    /\ fifo > 0
    /\ fifo' = 0
    /\ rx' = rx + Accepted
    /\ UNCHANGED <<vars, guest, highest, timer, counts, quiet, left>>

HandleTimer ==
    /\ TakeLine(TimerIrq)
    /\ UNCHANGED <<fifo, rx, guest, highest, timer, counts, quiet, left>>

HandleMaintenance ==
    /\ TakeMaintenance
    /\ UNCHANGED <<fifo, rx, guest, highest, timer, counts, quiet, left>>

\* Start_VM loads the image again.  The CPU interface keeps its active priority, the list
\* registers what they hold, and the timer its registers.
Start ==
    /\ StartVm
    /\ rx' \in 0 .. rx
    /\ quiet' = rx'
    /\ pc' = "uart" /\ at' = "none" /\ id' = 0 /\ ret' = "none" /\ irqTable' = {}
    /\ UNCHANGED <<fifo, highest, timer, counts, left>>

Stop ==
    /\ stops < MaxStops
    /\ StopVm
    /\ stops' = stops + 1
    /\ left' = left \union {lrs[i].state : i \in LRs}
    /\ UNCHANGED <<fifo, rx, guest, highest, timer, keys, ticks, quiet>>

-----------------------------------------------------------------------------
(* Asteroid's Main.  IRQs are unmasked by its step "unmask". *)

Main(step, next) ==
    /\ ~fault /\ running
    /\ at = "none"
    /\ pc = step
    /\ pc' = next
    /\ UNCHANGED <<fifo, rx, at, id, ret, highest, counts, quiet, left>>

\* IC_Core::Register_IRq_Handler: the table, then one bit of ISENABLER, which traps.
BugRegister_IRq_HandlerByBit(l) ==
    /\ irqTable' = irqTable \union {l % WordSize}
    /\ IF l < FirstSPI THEN RedistSetEnable({l})
       ELSE DistSetEnable(l \div WordSize, {l % WordSize})

Register_IRq_Handler(l) ==
    /\ irqTable' = irqTable \union {l}
    /\ IF l < FirstSPI THEN RedistSetEnable({l})
       ELSE DistSetEnable(l \div WordSize, {l % WordSize})

RegisterUart ==
    /\ Main("uart", "unmask")
    /\ Register_IRq_Handler(UartIrq)
    /\ UNCHANGED timer

LocalIRqEnable ==
    /\ Main("unmask", "timer_off")
    /\ UNCHANGED <<vars, irqTable, timer>>

\* Timer_App.  A timer that is off withdraws its line.
Withdrawn == phPending \ {TimerIrq}

TimerOff ==
    /\ Main("timer_off", "timer_register")
    /\ timerOn' = FALSE /\ due' = FALSE
    /\ phPending' = Withdrawn
    /\ UNCHANGED <<running, fault, phActive, phEnabled, distEnabled, redistEnabled, lrs, oneBit,
                   irqTable>>

RegisterTimer ==
    /\ Main("timer_register", "timer_on")
    /\ Register_IRq_Handler(TimerIrq)
    /\ UNCHANGED timer

TimerOn ==
    /\ Main("timer_on", "loop")
    /\ timerOn' = TRUE
    /\ UNCHANGED <<vars, irqTable, due>>

-----------------------------------------------------------------------------
(* Asteroid's IC_Core::Handle_IRq, one access to a register at a time. *)

\* The vector unmasks IRQs before its eret, when ELR_EL1 is loaded.
Unmasked == pc \notin {"uart", "unmask"} /\ at \in {"none", "eret"}

In(step) ==
    /\ ~fault /\ running
    /\ at = step

Entry(l) ==
    IF l \notin irqTable THEN "eoi" ELSE IF l = UartIrq THEN "ris" ELSE "tick"

\* ICC_IAR1_EL1, then the handler of the table; Default_Handler only prints.
Acknowledge(i) ==
    /\ Unmasked
    /\ ~highest
    /\ GuestAck(i)
    /\ highest' = TRUE
    /\ id' = lrs[i].nr
    /\ ret' = at
    /\ at' = Entry(lrs[i].nr)
    /\ UNCHANGED <<fifo, rx, pc, irqTable, timer, counts, quiet, left>>

\* UartPl011::HandleIRq: the virtual RIS has the RX bit while Saturn's buffer has keys, and
\* ICR is ignored.
ReadRIS ==
    /\ In("ris")
    /\ at' = IF rx > 0 THEN "tdr" ELSE "eoi"
    /\ UNCHANGED <<vars, fifo, rx, pc, id, ret, irqTable, highest, timer, counts, quiet, left>>

\* One key is read and written back.
ReadTDR ==
    /\ In("tdr")
    /\ rx' = rx - Least(1, rx)
    /\ at' = "eoi"
    /\ UNCHANGED <<vars, fifo, pc, id, ret, irqTable, highest, timer, counts, quiet, left>>

\* Timer_IRq_Handler moves CNTV_CVAL_EL0 one period on, which may have passed already.
Tick ==
    /\ In("tick")
    /\ at' = "eoi"
    /\ \/ /\ due' = FALSE
          /\ phPending' = Withdrawn
          /\ UNCHANGED ticks
       \/ /\ timerOn /\ ticks < MaxTicks
          /\ due' = TRUE
          /\ phPending' = phPending \union {TimerIrq}
          /\ ticks' = ticks + 1
    /\ UNCHANGED <<running, fault, phActive, phEnabled, distEnabled, redistEnabled, lrs, oneBit>>
    /\ UNCHANGED <<fifo, rx, pc, id, ret, irqTable, highest, timerOn, keys, stops, quiet, left>>

\* ICC_EOIR1_EL1 only drops the priority, ...
BugDropPriorityNot ==
    /\ In("eoi")
    /\ at' = "dir"
    /\ UNCHANGED <<vars, fifo, rx, pc, id, ret, irqTable, highest, timer, counts, quiet, left>>

DropPriority ==
    /\ In("eoi")
    /\ at' = "dir"
    /\ highest' = FALSE
    /\ UNCHANGED <<vars, fifo, rx, pc, id, ret, irqTable, timer, counts, quiet, left>>

\* ... and ICC_DIR_EL1 deactivates.
Deactivate(i) ==
    /\ In("dir")
    /\ lrs[i].nr = id
    /\ GuestDeactivate(i)
    /\ at' = "eret"
    /\ UNCHANGED <<fifo, rx, pc, id, ret, irqTable, highest, timer, counts, quiet, left>>

\* An interrupt taken at the eret has put the eret's own address into ELR_EL1: its handler
\* returns there, to itself, and what was interrupted first is never resumed.
Return ==
    /\ In("eret")
    /\ ret = "none"
    /\ at' = "none"
    /\ UNCHANGED <<vars, fifo, rx, pc, id, ret, irqTable, highest, timer, counts, quiet, left>>

Adrift == at = "eret" /\ ret = "eret"

\* The endless loop of Demo_Application, an eret to itself, and Saturn's Fault.
Loop ==
    /\ \/ running /\ pc = "loop" /\ at = "none"
       \/ running /\ Adrift
       \/ fault
    /\ UNCHANGED asteroidVars

-----------------------------------------------------------------------------
Boot == RegisterUart \/ LocalIRqEnable \/ TimerOff \/ RegisterTimer \/ TimerOn

Handler ==
    \/ ReadRIS \/ ReadTDR \/ Tick \/ DropPriority \/ Return
    \/ \E i \in LRs: Acknowledge(i) \/ Deactivate(i)

NextAsteroid ==
    \/ TypeKey \/ TimerExpires
    \/ HandleUart \/ HandleUartStopped \/ HandleTimer \/ HandleMaintenance
    \/ Start \/ Stop
    \/ Boot \/ Handler
    \/ Loop

\* The guest's CPU runs, and the GIC signals what is pending.
SpecAsteroid ==
    /\ InitAsteroid /\ [][NextAsteroid]_asteroidVars
    /\ WF_asteroidVars(Boot \/ Handler)
    /\ WF_asteroidVars(HandleTimer)

-----------------------------------------------------------------------------
\* Interrupts of the UART that Asteroid has still to act on.
Announced ==
    Cardinality({i \in LRs : lrs[i].state = "pending" /\ lrs[i].nr = UartIrq})
    + IF at \in {"ris", "tdr"} THEN 1 ELSE 0

\* Every interrupt has a cause and every key an interrupt: Saturn holds no more keys for
\* the guest than there are interrupts on their way to it and keys it was never told of,
\* the second and later ones of a burst and those typed before it listened; and a tick is
\* counted only while the timer is due, if no earlier VM left an interrupt behind.
InterruptsHaveCause ==
    /\ running => rx <= quiet + Announced
    /\ at = "tick" /\ left \subseteq {"invalid"} => due

Left(cond)   == fault \/ ~running \/ cond
Served(cond) == Left(cond \/ "active" \in left)

\* A guest that is left alone is served: in the end it has booted, it has read every key it
\* was told of, and a timer that is due is handled.  Not so after a VM was stopped in the
\* middle of a handler: its active priority and its active line bar the interrupts of the
\* next VM.  Boot, and with it the timer, also fails when a handler's return is interrupted.
GuestServed ==
    /\ <>[](Left(pc = "loop" \/ Adrift))
    /\ <>[](Served(rx <= quiet))
    /\ due ~> Served(~due \/ Adrift)
=============================================================================
