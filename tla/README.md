# Verification of Project Saturn

TLA+ models of the Saturn hypervisor (`src/source`) and of its demonstration guest
(`src/tools/asteroid`), the TLC runs that check them on small instances, and TLAPS proofs
of what holds for every instance. File names below are relative to `src/source` unless they
end in `.tla` or `.cfg`.

Saturn is a static hypervisor for AArch64: one CPU, one virtual machine whose memory
regions and interrupts are fixed by a configuration file, a command line at EL2 from which
the VM is started, and a key sequence (Ctrl-i s) that stops it. There are no threads. What
makes it hard is that everything runs on one CPU in layers that interrupt each other: the
command line by the UART's interrupt handler, the guest by interrupts and by the traps of
its own accesses; that the VM is stopped from inside an interrupt handler by throwing the
stack away; and that state is shared between all of these without locks.

## Inventory

| Component | Source | State | Operations | What makes it correct |
|---|---|---|---|---|
| VM manager | `core/vmm/vm_manager.cpp` | `vmState` | `Start_VM`, `Stop_VM` | the guest runs only with all its resources; a stop gives them back; requests are acted on |
| VM configuration | `core/vmm/vm_config.cpp` | region table, interrupt mask | assign, allocate, free, own | every region mapped once, every owned line disabled on stop |
| Exceptions | `core/vector.S`, `core/exceptions.cpp` | saved frame, ELR/SPSR | IRQ entry, guest abort, `Switch_EL12`, Fault Mode | returns to what was interrupted with its registers; the request check ends every IRQ |
| Interrupt core | `core/ic/ic_core.cpp`, `core/ic/gic/*` | handler table, physical GIC | construction, `Handle_IRq`, enable, disable, inject | only expected interrupts arrive; own ones are deactivated, guest ones injected and left active |
| Virtual interrupt controller | `core/ic/virt/*` | list registers, virtual registers | inject, maintenance, trapped reads and writes, start, stop | no interrupt lost or delivered twice, list registers come back |
| UART driver | `bsp/.../uart_pl011.cpp` | FIFO, status | `HandleIRq`, `Tx` | every key leaves the FIFO and the guest hears of it |
| Virtual UART | `bsp/.../virt_uart_pl011.cpp`, `platform.cpp` | emulated registers | trapped reads and writes | exists, trapped once, while a guest runs |
| Console | `core/console.cpp` | `cmdMode`, two ring buffers, print format | `RxChar`, `GetChar`, output operators | keys in order; the command key reaches the hypervisor; a line is printed in its own format |
| Ring buffer | `include/ringbuffer` | slots, Head, Tail, Fill | `In`, `Out` | a bounded queue |
| Command line | `apps/cmdline/cmdline.cpp` | the line being edited | edit, parse, execute | executes what is on the screen |
| Heap, lists | `core/heap.cpp`, `include/lib/list` | five pools, two lists each | `Alloc`, `Free` | a block is free or allocated, never both or neither |
| MMU | `core/mm/mmu.cpp` | page tables of EL2 and stage 2 | map, unmap | translation is the configuration; tables form a tree and return to the heap |
| Memory traps | `core/mm/trap.cpp`, `include/mtrap` | list of regions | register, remove, dispatch, decode | an access reaches the device that owns the address, and the register it names |
| OS storage | `bsp/.../storage.cpp` | image table | `Load_Images` | images copied through mappings that are gone afterwards |
| Boot | `core/main.cpp`, `boot/head.S` | -- | construction order | nothing used before it exists |
| Asteroid | `tools/asteroid` | handler table, timer, echo | boot, `Handle_IRq`, `UartPl011`, `Timer_App` | it is served: keys are echoed, ticks are counted |

Interaction. `Handle_IRq` asks the manager for `vmState` and the configuration for
ownership, and either injects through the virtual controller or calls a handler. The UART's
handler feeds `Console::RxChar`, which fills the receive buffer or calls `Stop_VM`, and then
injects the UART's line into a running guest. The first call of `Stop_VM` only records the
request; `IRq_Handler` makes the second call after `Handle_IRq` has returned. The second
call unmaps the regions, disables the lines, deletes the virtual controller's frames, resets
the stack and starts a new command line, and never returns. The command line's `GetChar`
sleeps in `wfi` until an interrupt puts a key in the buffer. A guest's access to an unmapped
address traps; `Do_Memory_Trap` finds the emulated device or Saturn stops in Fault Mode.
Foreground and handlers print through one console object, so they share its format.

The hard behaviours are listed one by one in `PROJECT.json` under `hazards`, each at its
line, with the properties that cover it or the reason why none does.

## Modules

```
VmContract  <== Hypervisor                      (<== implements)
VirtGic     <== IcCore                          (IcCore, Asteroid extend VirtGic)
VirtGic     <== Asteroid
HeapContract <== Heap         QueueContract <== RingBuffer
ConsoleOutput --> CommandLine                   (--> is extended by)
Mmu, Devices, each alone
```

### `Hypervisor.tla`, `VmContract.tla` -- the life of the VM

The foreground is `cpu`: boot, the command line (`getchar`, `wfi_next`, `wfi`), the start
sequence of `Start_VM` (`start_vic`, `start_alloc`, `start_devices`, `start_run`), the
switch (`switch`, `eret`), the `guest`, or Fault Mode (`fault`). On top of it runs at most
one interrupt handler, whose progress is `irq`: `route` (the decision of `Handle_IRq`),
`status` and `drain` (`UartPl011::HandleIRq`, one step per character), `deactivate`, `check`
(the end of `IRq_Handler`). The vectors mask interrupts, so a handler is interrupted by
nothing but the arrival of keys in the FIFO; a foreground step is interrupted anywhere
between two steps. `vmState`, `vState`, `cmdMode` and `virtUart` are the members of the same
name; `traps` counts the trap regions each emulated device has registered, `mapped` the
regions mapped so far; `active` and `enabled` are the physical GIC's registers. `elr` is
ELR_EL2, kept because `Switch_EL12` loads it with interrupts unmasked; SPSR_EL2, which it
loads two instructions before (`core/vector.S:63-67`), is loaded with it in one step
(`LoadElr`), so that an interrupt between the two is not seen. No property depends on it. A key is one of four
classes, the receive buffer is a bounded queue, an injection succeeds, is dropped or faults.

`VmContract` has three variables: whether the VM is off, on or stopping, who owns the CPU,
which resources are held. Resources are acquired only while it is off, it is launched only
when all are held, entered only while it is on, and gives back everything but what is kept
in one step. `Hypervisor` implements it (`ContractSpec`): the virtual UART's trap is the one
resource that is kept.

### `VirtGic.tla` -- the shared interrupt controller

The guest's virtual enables, the physical ones behind them, the list registers and the
maintenance interrupt. Traps and handlers run with interrupts masked on the only CPU, so
each is one action. The guest may write any of `Writes` to an enable register, acknowledge
and deactivate; devices assert and withdraw lines at any time; the VM stops and starts at
any time. A VM starts with the distributor's enables that the boot state holds, any of
`BootStates`. `oneBit` is history: every write to a register so far named at most one line,
which is what `NoLineLost` and `EnablesAgree` need, since a write that names several lines
is passed to `Enable_Line` or `Disable_Line` for one of them only.

### `IcCore.tla` -- construction and dispatch

The constructors of distributor, redistributor, CPU interface, handler table and UART
driver, from any set of lines the firmware left enabled, active, grouped or routed; the
physical bits of the lines that are not the guest's, the SGIs' among them; `Handle_IRq` for
every line; and `GicVirtIC::Start` with the registers saved at boot. What it adds to `VirtGic`
are the variables named `own...`, `group1`, `routed`, `linesNumber`, `saved`, `handler` and
`abandoned`.

`linesNumber` is not initialised and lies in heap memory that nobody clears, so it starts as
any of `HeapValues`, and `Save_State` copies as many enables as it promises (`Copied`). If it
promises more than the arrays have, what is saved is any of `BootStates`, or the copying
aborts (`SaveStateAborts`). `Redistributor` disables the PPIs and enables all SGIs, and leaves
pending what is pending.

A VM is stopped by the UART's handler (`UartStopsVm`), in one of two ways: by a request, which
`IRq_Handler` acts on after `Handle_IRq` has deactivated the line, or, with two shutdown keys
in one drain, inside the handler, which then never returns and leaves the line active
(`abandoned`; the `double_shutdown` run shows how).

`IcCore` implements `VirtGic` (`VirtGicSpec`): until construction is over the guest's lines are
read as they will be at its end, and the boot states of `VirtGic` are all sets of lines.

### `Asteroid.tla` -- a guest on the virtual controller

Extends `VirtGic` with Asteroid's boot, its exception handler one register access at a time,
its terminal and its timer, and with what Saturn's UART handler does for it. `pc` is the
boot, `at` the handler, `id` the interrupt in hand, `ret` where its `eret` goes. `quiet` and
`left` are history: keys Saturn holds that no interrupt announces, and the states stopped
VMs left in list registers. Asteroid unmasks IRQs before its `eret`; an interrupt taken
there returns to that `eret` for ever (`Adrift`), while its handlers go on working.

### `Devices.tla`, `MCDevices.tla` -- loads and stores of the guest

What one trapped access does, from the guest's registers through the vector's frame,
`Do_Memory_Trap`'s decoding of the syndrome and the device's `Read` or `Write` back to the
guest's registers, with the widths the code uses. The three devices are the virtual
distributor (its whole register map: `Single`, the arrays, and where they begin), the virtual
redistributor and the virtual UART. A word is the set of its bits. `MCDevices` chooses the
offsets.

### `ConsoleOutput.tla`, `CommandLine.tla` -- the terminal

`ConsoleOutput` is `Console`'s format and its operators, without variables: `Step` prints one
token (a level, a base, the fill flag, a numeral, a string, the end of the line) and gives
the format that follows. `CommandLine` is the editor, the parser, every command, and
`RxChar` in the UART's handler, which prints with the same format between any two steps of
the foreground. `screen` is the command as the user sees it, `erased` and `overslept` are
history, so are `line`, `shown` and `disturbed`.

### `Mmu.tla`, `MCMmu.tla` -- the translation tables

An address is the number of a page and a table has `Entries` entries. `l1` holds the level 1
table of each of the two MMUs (`PTable1`), `mem` every other table, `free` the pages of the
heap that can become tables; `op`, `region` and `start` are the call in progress and how far
its loop has come. One round of `MemoryMap`'s loop is one of `Map_L1_Block`, `Map_L1_PTable`,
`Map_L2_Block`, `Map_L2_PTable`, `Map_L3_Page`; one of `MemoryUnmap`'s is `UnmapL1Block`,
`UnmapL2Block` or `UnmapL3Page`; `Free_Empty_Tables` ends it. A round that finds what it
cannot use calls `Fault()`. `Walk` is what the hardware makes of the tables. The regions of
one MMU do not overlap, as in both board configurations. `MCMmu.tla` holds the regions of the
run; `Mmu_proofs` proves the same properties for any.

### `Heap.tla`, `HeapContract.tla`, `MCHeap.tla` -- heap, lists, trap list

`h` holds the links of all list nodes and the heads of all lists, so each method of
`lib::List` is a function from one `h` to the next (`PushBack`, `PopFront`, `Find`, `Erase`),
and the heap's and the traps' operations are compositions of them. An element of a pool's
array and a node that lives in a block are different nodes. A freed block forgets what it
held, so that a use after free shows. `HeapContract` is the same without a pointer:
first-in-first-out queues of blocks, first fit from the smallest pool, and a sequence of
traps.

### `RingBuffer.tla`, `QueueContract.tla` -- the console's buffers

`In` is one step, as it runs in the interrupt handler or uninterrupted; `Out` is five, one
per access to shared state, with the load and the store of `Fill--` apart, because the
makefiles build without optimisation. `instance` chooses between the early transmit buffer
(overwrites, is not interrupted) and the receive buffer (ignores, is). `puts`, `unread`,
`got` and `raced` are history.

### How they fit together

`Hypervisor` is the whole system with each part reduced to what the VM's life depends on: its
receive buffer is the queue `RingBuffer` is until the race, its `mapped` counts regions that
`Mmu` maps, its `traps` counts registrations that `Heap` keeps in a list, its injections are
`VirtGic`'s. `VirtGic` is both the contract of the interrupt path, which `IcCore` implements,
and the controller `Asteroid` runs on: what is proved of it holds of both. `CommandLine` and
`Asteroid` each take one end of the UART, with the receive buffer as a queue or a count.

An operator whose name starts with `Bug` is a mistake the definition of the same name could
contain. It is used by no specification; substituting it makes the run that checks the
property it is listed with in `PROJECT.json` fail.

## Runs

| Run | Module | Distinct states | What it shows |
|---|---|---|---|
| `hypervisor` | `Hypervisor` | 196,868 | all of the VM's life, over every interleaving of keys, interrupts, guest accesses and the command line; implements `VmContract` |
| `virtgic` | `VirtGic` | 200,064 | list registers and lines stay consistent whatever the guest writes, and nothing is lost for one that writes one bit at a time |
| `ic_core` | `IcCore` | 455,136 | construction over whatever the firmware left and the heap's memory held, dispatch, stops and restarts; implements `VirtGic` |
| `asteroid` | `Asteroid` | 410,175 | interrupts of a real guest have causes, and it is served |
| `mmu` | `MCMmu` | 1,456 | both address spaces are what the mapped regions say; tables form a forest and come back; only a lack of tables faults |
| `heap` | `MCHeap` | 9,312 | lists stay intact, blocks are conserved, traps are dispatched; implements `HeapContract` |
| `devices` | `MCDevices` | 68,278 | what a trapped load and store change, and what they do not |
| `console` | `CommandLine` | 273,709 | the command executed is the one on the screen, lines are printed in their own format, keys are taken |
| `ringbuffer` | `RingBuffer` | 7,109 | where the receive buffer's race is and where it is not; the transmit buffer implements `QueueContract` |
| `double_shutdown` | `Hypervisor` | violated | `UartAlwaysDeactivated`: the VM can be stopped inside the UART handler |
| `switch_el12` | `Hypervisor` | violated | `SwitchNeverReturns`: an interrupt inside `Switch_EL12` makes it return to EL2 |
| `boot_irq` | `Hypervisor` | violated | `ReadyForInterrupts`: an interrupt before `VM_Manager` exists uses a null pointer |

The three violated runs are disagreements between the code and a comment in it, described
under `findings` in `PROJECT.json` with the lines of both.

### What the main properties say

- `GuestFullyBacked`, `StateAgrees` (`RunningOwnsCpu`, `StoppedIsClean`, `GuestLineNeedsVm`):
  the pieces of the VM's state, kept in five components, never disagree while anything could
  see it.
- `RequestStaysInHandler`, `ShutdownHappens`: a request to stop is acted on before the handler
  that received it returns to the guest, and a stop that was asked for happens.
- `UartServiced`: no key stays in the FIFO for ever.
- `HwLineOnce`: the GIC's rule that a physical line is in one list register at most, which the
  code relies on and checks nowhere, and that it stays active meanwhile, over restarts.
  `LrsKeepInterrupts`: an injected interrupt stays until the guest deactivates it.
- `EnablesAgree`, `NoLineLost`: for a guest that writes one bit at a time the emulated and the
  physical enables agree, and a line that is active is in a list register.
- `OnlyExpected`: once construction is over nothing is signalled but a running guest's lines,
  the lines of Saturn that have a handler registered, and SGIs, which are all enabled and which
  the default handler only reports; whatever the firmware left on. No line of Saturn's stays
  active but the UART's after a handler that did not return. `VirtGicSpec`: whatever the
  uninitialised `linesNumber` was, no line of the guest is enabled or active when construction
  ends, and dispatch, stops and starts are `VirtGic`'s; which enables a VM starts with is left
  open, as the code leaves it. `LrsReclaimed`: list registers come back.
- `InterruptsHaveCause`: Saturn holds no more keys than there are interrupts on their way to
  the guest and keys it never announced (`quiet`: it notifies once per burst), and a tick is
  counted only when the timer is due. `GuestServed`: Asteroid boots, reads every key it was
  told of and handles its timer, unless the VM was stopped inside a handler before (its
  active priority outlives it), a return was interrupted (`Adrift`), or Saturn is in Fault
  Mode. Without any one of the exemptions the property fails.
- `DecodeSound`, `LoadLikeHardware`, `StoreReadsBack`: no offset reaches outside the virtual
  distributor's arrays; a load changes its target only and leaves there what
  hardware would, the bytes of the register that the access has, and zeros (`Hardware`); a store
  changes its register only, and reads back. Exempt are the loads for which the code differs: a
  value with bits beyond the access (`Surplus`), a target with old bits that the read leaves
  alone (`LeftAlone`, the upper half), registers the devices do not know; and what a store of
  register 31 stores. Read-back is of the registers the code stores as they are
  (`PlainFields`).
- `LineIntact`: what is on the screen after a line is what the line says, whatever was printed
  before it; unless the handler printed in the middle. `InputEnds`, `CommandIsScreen`: the
  string that is parsed ends in its buffer and is what is on the screen, unless it was too
  long; a character taken back at the end stays in the buffer. `KeysTaken`: a key is taken,
  unless it came between the failed `Out` and the `wfi` (`overslept`).
- `TranslationIsConfigured`, `OnlyOwnPages`: maps and unmaps in any order have no effect on
  each other's regions, between calls and during one. `TablesAccounted`: no table is shared,
  freed twice or lost, and only a lack of tables faults.
- `NoWriteAfterFree`, `BlocksAccounted`, `TrapDispatch`: the list that owns its nodes and the
  lists that do not share one allocator without a dangling pointer.
- `SafeUntilRace`: an interrupt between any two steps of `Out` does no harm except between the
  load and the store of the count. After that keys may come late, out of order or again, but
  (`NothingInvented`, `TypeOK`) the count never wraps and nothing that was not typed is
  returned.

### Bounds, and why they are enough

- `Hypervisor`: `MaxTyped = 6`: a start, a shutdown (two keys) and a second start leave two
  keys over; or a start, two shutdowns in one FIFO and one more key. `FifoSize = RxSize = 2`:
  both can be empty, partly full and full, and a full one meets one more key. `NrRegions = 2`:
  a VM can be partly mapped. One guest line besides the UART's.
- `VirtGic`, `IcCore`, `Asteroid`: two registers of two lines (three for `IcCore`, whose first
  one holds an SGI, a PPI of the guest's and the maintenance interrupt, and whose second one an
  SPI of nobody's, one of the guest's and the UART's), so that a write can hit one line, two, or
  the first of the next register; the first register is the redistributor's. Two list registers
  (three for Asteroid) with a mask of four, so that they run out and the mask exceeds them.
  `VirtGic` writes every subset of a register; `IcCore` starts from firmware that left all lines
  or none on, chosen apart for each of its registers, and from a word in the heap that promises
  no lines, all of them, or more (`HeapValues`). A boot state shows some of the guest's lines as
  enabled or none. Asteroid
  gets three keys into a buffer of two, two ticks and one stop, which can fall between any
  two of its steps, with a start before and after it.
- `Devices`: 256 lines, one owned line in each half of the map. `MCDevices` takes the first
  and last offset of every array, those just outside it, and every register of the other two
  devices; accesses of four and eight bytes, into registers with bits in every part that some
  access leaves alone, and narrow ones of the 64-bit registers; two accesses in a row, so that
  the second sees
  what the first did.
- `CommandLine`: `MaxLen = 3`, the length of `vm start` in the model's letters; four keys can
  overrun it, take characters back, or print from the handler twice while a line is under way.
  Behaviours also start with the command typed in and with the guest running, which would use
  up the keys. `MaxSteps = 40` is enough for the handler's longest line (eight tokens
  of at most five steps) and `MaxDigits = 20` the digits of 64 bits.
- `Mmu`: three entries in a table, the smallest number with an entry before, in and behind; 27
  pages. Six regions make five or six tables with a pool of five, so the pool runs dry in some
  orders; they hold blocks and pages in one table, a region that is not aligned physically,
  one that crosses a level 1 entry, a level 1 block and neighbours of Saturn's own page.
- `Heap`: two blocks per pool, three pools, three traps with regions that touch. Every list is
  empty, single, full; a node is removed from the front, the middle and the end of the trap
  list; requests fall through one and two pools and fail.
- `RingBuffer`: three slots and eight elements, more than two turns.

Deadlock is checked in all runs but `ringbuffer`, which ends when the last element has been put
in and taken out.

### Fairness

- `Hypervisor`: weak fairness of the foreground (`AppNext`) and of the handler (`IrqNext`),
  because the CPU always executes its next instruction, and strong fairness of taking the
  UART's interrupt: it is level-triggered and taken at the next instruction with interrupts
  unmasked, but each handler masks it again. Keys and the guest have none: nobody need type,
  and a guest may loop.
- `IcCore`: weak fairness of taking the maintenance interrupt, which stays
  asserted until it is served, and every handler ends.
- `Asteroid`: weak fairness of the guest's own steps, which it takes whenever Saturn is not in
  a handler, and of Saturn taking the timer's line. Keys, stops and starts have none.
- `CommandLine`: weak fairness of the foreground. A guest need not read.
- `RingBuffer`: weak fairness of `Out`, which `GetChar` and `RegisterUart` call again until
  they have what they want.
- `VirtGic`, `Mmu`, `Heap` and `Devices` claim no liveness.

## Proofs

TLAPS checks, for every value of the constants that satisfies the named assumptions, in eight
modules that each extend the one they are named after (`Asteroid_proofs` also holds the proofs
about `VirtGic`, which `Asteroid` and `IcCore` run on):

| Module | Theorems | Assumptions |
|---|---|---|
| `Hypervisor_proofs` | `TypeCorrect`, `GuestIsBacked`, `RequestIsHandled`, `StatesAgree` and its three parts, `ContractImplemented` | `UartAssumption`, `SizesAssumption`, `KeysAssumption` |
| `Asteroid_proofs`, of `VirtGic` | `TypeCorrect`, `OneListRegisterPerLine`, `StoppedVmSilent`, `GuestHeard`, `NothingLost`, `InterruptsKept` | `GicSizes`, `GicLines`, `GicWrites`, `GicBootStates` |
| `Asteroid_proofs`, of `Asteroid` | `GuestOfVirtGic`, `CausesKept`, `AsteroidLosesNothing` | those of `VirtGic`, `AsteroidTimer`, `AsteroidWrites`, `AsteroidBounds` |
| `IcCore_proofs` | `ImplementsVirtGic`, `OnlyExpectedSignalled` | those of `VirtGic`, `CoreLines`, `FirmwareLines`, `HeapWords` |
| `CommandLine_proofs` | `TypeAlwaysOK`, `InputAlwaysEnds`, `EditorSafe`, `LinesAlwaysIntact`, `ToStrIsNumeral` | `EditorSizes`, `EditorAddress` |
| `Devices_proofs` | `TypeAlwaysOK`, `DecodeAlwaysSound`, `LoadsLikeHardware`, `StoresReadBack` | `DeviceLines`, `DeviceOffsets`, `DeviceBounds`, `DeviceValues` |
| `RingBuffer_proofs` | `TypeCorrect`, `ReadsOnlyWritten`, `SafeOutsideWindow`, `MessagesInOrder` | `RingSizes` |
| `Heap_proofs` | `HeapAlwaysSound`, `TypeAlwaysOK`, `BlocksAlwaysAccounted`, `NeverWritesAfterFree`, `TrapsAlwaysDispatched`, `HeapImplementsContract` | `HeapSizes`, `HeapRegions`, `HeapConfiguration` |
| `Mmu_proofs` | `TypeCorrect`, `CallsKeepToTheirPages`, `AddressSpacesAreConfigured`, `AllTablesAccounted` and its part `TablesFormForest` | `MmuSizes`, `MmuTables`, `MmuRegions`, `MmuConfiguration`, `MmuL1Blocks` |

Few of these properties are inductive as they stand; the invariants that carry them:

- `Hypervisor`: `Queues /\ Control`. `Queues` types the two buffers and depends on nothing
  else. `Control` adds, to the types, for every place of the foreground what has been acquired
  by then (`Progress`), which `vmState` it can see (`StateOfCpu`), which interrupt and state
  each step of the handler can see (`HandlerState`), and that trap registrations follow the
  objects that own them (`UartTrapped`, `GicTrapped`). The refinement maps each step to one
  action of `VmContract` or a stutter under that invariant; `StopVmRefines` is the case of
  `Stop_VM`, which is reached from two places.
- `VirtGic`: that a line is in one list register only follows from its being active while it is
  in one: `Handle_IRq` takes a line only when it is not active, and deactivation frees the one
  register that holds it. `Heard` is the invariant of the one-bit guest: with every write
  naming at most one line, what the guest enabled is what is physically enabled, and an active
  line of a running guest is in a list register.
- `IcCore`: `CoreInv` says what each step of the construction has achieved (which of the
  firmware's enables and active bits are gone by then, that `saved` names lines, and from which
  step on `linesNumber` is the number of lines) and that no line
  is without a handler by then; the maintenance handler is that of its own line alone. Under it each
  step is one of `VirtGic`'s or leaves its variables alone: whatever was saved is one of the boot
  states. `OnlyExpected` also needs that of Saturn's lines only the SGIs are enabled without a
  handler of their own, and that none is active but the one an abandoned handler left
  (`OwnInv`).
- `Asteroid`: each step is one of `VirtGic` or changes none of its variables (`AsteroidStep`),
  so `Invariance` and `NothingLost` of `VirtGic` hold of it without another proof. `CausesKept`
  needs `AInv`: types (`GuestType`), that the timer's line is asserted only when the timer is due
  and enabled only once it is registered (`TimerLine`), that a timer interrupt in a list
  register or in hand is due unless a stopped VM left something behind (`CleanTimer`), and the count of keys against the list registers
  that announce them (`KeysTold`), which is a fact about cardinalities.
- `CommandLine`: `EditorInv` adds the types and that the cursor is never right of the end of the
  visible text; without it an erase could take a character off an empty
  screen. `OutputInv` carries `LineIntact`, which speaks of complete lines only. `LineGoesOn`
  says of an incomplete one that what is on the screen, continued by what is left to do of it in
  the format of the moment, is what the line says. That it is kept is `StepDoes`: the text a
  step prints and the tokens it leaves together do what its token means (`Meaning`; `All` for a
  sequence), whatever the format was. That it holds when the next line begins needs the format
  behind the last one: without base and fill (`FormatReset`), and without a level unless the line
  starts with `Raw` (`FirstLine`; `Settled` where the parser is about to choose a line). The
  handler may print at any of these moments: `HandlerLines` says that each of its lines ends
  with a cleared format, in at most `MaxSteps` steps from whatever format it began with, and
  `GuestQuiet` that it restarts the command line only when nothing is being printed.
  `ToStrIsNumeral` says of the digit loop, for every number of at most `MaxDigits` digits, what
  `LineIntact` needs of one address.
- `Devices`: what an access does is a function of the offset, the width and the slot, so the work
  is in lemmas about these. `MapSound` is arithmetic about the register map for every
  `_gicd_nr_lines`: an offset is in one field, of one element. `OneField` and
  `WritesWhereItReads` say that `Read` and `Write`, which decode an offset apart from each other,
  decode it alike; that a store changes no other read follows. Both need the types
  (`TypeAlwaysOK`) of every register of the guest and of the devices. `WholeRegister`
  says that an access without a surplus, into a target without old bits, leaves the bits
  hardware would. The proof of
  `LoadsLikeHardware` is also how the 16-bit write of the UART's flags was found (see below): the
  property was false for any register with a bit set between 16 and 31, and no value of the
  model-checked instance had one. `MCX0` has one now.
- `RingBuffer`: the count is typed because an `Out` in progress has seen it positive, and an `In`
  can only raise it (`CountSeen`). `Written` relates the count to `head` until the writer has come
  around once: the race can only make the count too small, so no unwritten slot is read. `InOrder`
  says that, before any race, the unread slots are a window of as many slots as the count, from
  the one `Out` reads next to `head`, along which the elements grow. `MessagesInOrder` maps the
  slots to the queue's sequence (`Messages`): the unread turns of the ring, in order, of which an
  overwriting `In` drops the first. It rests on `Uninterrupted`, that nothing interrupts the
  early transmit buffer, so that `Out`'s five steps are one.
- `Heap`: the code's lists are chains of pointers and the properties walk them, which is
  recursion. `HeapInv` says instead that there is one sequence of nodes per list which the links
  represent both ways (`Represents`), no node on two of them, and that elements and trap nodes
  agree about who has a block (`Accounts`). Each list method is shown to do to the sequences
  what its name says and to leave other links alone (`PushBackAppends`, `EraseTakes`,
  `PopFrontErases`), each operation of the heap is put together from these, and `WalkOfChain`
  leads back to the walks of the properties. The least element of a set of naturals
  (`LeastNat`, see below) is the first null pointer of a walk and the smallest pool that can
  serve a request. `CleanInv`, that a block nobody has holds nothing, carries `NoWriteAfterFree`; and
  the refinement of `HeapContract` reads the queues and the trap sequence off the chains.
- `Mmu`: `TableForest` counts references, which no step can be argued about. `Forest` says the
  same of single references (`Referred`, `Single`), with the level each table is at (`Levels`)
  and Saturn's own chain in place (`Boot`), without which `Free_Empty_Tables` could take a static
  table for an empty one; that a call does not empty that chain needs `Calls`, which keeps the
  loop inside its region. On top of it, `Owned` (the pages of a block are one region's, also in
  the middle of a call) gives `OnlyOwnPages`; `Content` (what a page translates to while a call is
  under way: the pages behind `start` are done, those ahead are not) gives
  `TranslationIsConfigured`; `Needed` (a table is only where no block fits) shows that a block
  never meets a table, so that only an empty heap stops a call; `Pruned` says where an empty table
  can be, and with nothing mapped that is nowhere. The arithmetic is in lemmas about the
  quotients and remainders of the three indices; a lemma per kind of step (`WalkL1Set` to
  `WalkPrune`) says which walks it changes.

The library's induction being out of the provers' reach, what a recursive function does is
proved place by place: `LeastNat` gets the least element of a set of naturals from the pigeonhole
principle, so that there is a first place that would go wrong. `CommandLine_proofs` also shows in
this way that its recursive functions exist (`FiniteRecursion`), `ToStr` over all the numbers up to
the one it is given.

Every invariant of a passing run is a theorem. Only model-checked: liveness (`ShutdownHappens`,
`UartServiced`, `LrsReclaimed`, `GuestServed`, `KeysTaken`, `KeyIsRead`), which is out of the
prover's reach, as is what it rests on, that an action of a fair process is enabled.

## Disagreements the models show

Besides the three that are runs, modelling met these. They are in the models as the code has
them, with the properties stated around them:

- `Stop_VM` starts the emulated devices instead of stopping them (`core/vmm/vm_manager.cpp:109`):
  the virtual UART keeps its registers and its trap. `Hypervisor` keeps it as the one resource
  that outlives a VM.
- A level 1 block is entered with its address shifted by 30 bits where the entry's field begins
  at bit 12 (`core/mm/mmu.cpp:86`), so only a block at physical address 0 is right. No board
  configuration has a region that large, and `MCMmu`'s is at 0. `MmuL1Blocks` states it as the
  assumption under which the address spaces are right.
- The heap takes ten of the sixteen pages that are defined (`core/heap.cpp:165`).
- "Route all the SPIs to current CPU" (`core/ic/gic/distributor.cpp:95`): IROUTER (0x6100) is the
  router of line 32, and the loop writes IROUTER + 8 * i from i = 32 on, so its first write goes
  to line 64 and lines 32 to 63 keep the routes the firmware left (`RoutedAtBoot`). An interrupt
  Saturn needs from them depends on these, so no liveness is claimed for it. The affinity is cut
  to three bits (`:90`).
- "Save the GIC state before we modify it" (`:35`): `Save_State` copies the registers of
  `linesNumber` lines (`:149-172`), which the constructor sets only afterwards (`:51`). The
  constructor does not initialise it (`:29-30`), and the object lies in the NOLOAD section of the
  heap (`bsp/qemu-aarch64/saturn.lds:27`), of which `boot/head.S` clears nothing: what is saved is
  nothing if the memory is clear, and an overrun of the arrays if it holds too much.
- `Save_State` of the redistributor reads the wrong frame (`redistributor.cpp:105`), which reads
  as zeros: a new VM's PPIs show as disabled, as they are. What the distributor's saves is chance:
  if it saves enables of the firmware's, a guest sees SPIs as enabled that the
  constructor has disabled; `EnablesAgree` is stated for the direction that matters, that what is
  physically enabled is virtually enabled too.
- The redistributor's constructor enables the SGIs and leaves them pending
  (`redistributor.cpp:59-61`), under a comment that says it disables them: one the firmware left
  pending is reported by the default handler.
- A load of 32 bits from a virtual IROUTER (`virt_distributor.cpp:156-162`) or the virtual
  redistributor's TYPER (`virt_redistributor.cpp:61-66`) returns 64, and a 32-bit store to an
  IROUTER stores 64: the devices do not look at the size. `LoadLikeHardware` excepts the loads
  that bring more than was asked for (`Surplus`).
- The loop over the priorities of the PPIs never runs (`redistributor.cpp:51`); the handler table
  is filled for as many lines as the GIC has (`core/ic/ic_core.cpp:68`), which may be more than
  the table has.
- A load from the virtual UART's flag register writes 16 of the 32 bits that its other registers
  write (`virt_uart_pl011.cpp:56`): bits 16 to 31 of the guest's register stay what they were,
  where a PL011 reads as zero. `LoadLikeHardware` demands the register's value only of a target
  whose bits the access leaves alone are clear (`LeftAlone`).
- Asteroid waits for room in the transmitter with `&&` for `&`
  (`tools/asteroid/source/uart_pl011.cpp:78`), and unmasks IRQs before its `eret`
  (`tools/asteroid/source/vector.S:113`), see `Adrift`.

## Not modelled

- The printed frames of Fault Mode, the wording of logs.
- Memory attributes, caches and the TLB. Both MMUs' calls end in `tlbi vmalle1`; whether that
  reaches their translations is a hazard without a property.
- Priorities and trigger configuration of physical interrupts, and the SGI handler that the
  smoke tests register.
- What `Save_State` overwrites behind its arrays when `linesNumber` holds too much: any enables
  saved, or an abort, but no other damage to Saturn's data.
- List registers and active priorities the firmware left: they are taken to be empty at boot.
- Overlapping regions, sizes that are not whole pages, unaligned accesses to devices.
- The copy of the images in OS storage; its mappings are regions of `Mmu`, its output is in
  `CommandLine`.
- Asteroid's console and heap, which are copies of Saturn's, and its formatting.
- The reset code in `boot/head.S` but for the tables it builds, accessors in `include/`, the
  build scripts and the smoke tests, which are compiled with `ENABLE_TESTING` only.

## Plan

1. `Mmu` over `Heap`: tables taken from the page pool that smaller requests can also drain, a
   new command line for every stop (`apps_main.cpp:29`) until the heap is empty; a TLB as a
   cache of translations.
2. An abstract address space, a function from pages to pages, which `Mmu` implements call by
   call.
3. The trap and the frame of an exception as one more layer under `Hypervisor`, with the printed
   frames of Fault Mode going through `ConsoleOutput`.
