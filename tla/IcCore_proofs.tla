---------------------------- MODULE IcCore_proofs ----------------------------
(***************************************************************************)
(* IcCore implements VirtGic, for every state the firmware can leave, any  *)
(* word of the heap, and any number of lines and list registers.           *)
(*                                                                         *)
(* The construction must end in VirtGic's initial state: CoreInv follows   *)
(* it step by step.  Afterwards each step of IcCore is one of VirtGic or   *)
(* none, because a line that is signalled is the running guest's or one    *)
(* with a handler.                                                         *)
(***************************************************************************)
EXTENDS IcCore, TLAPS

Boots == {"dist", "redist", "cpu", "table", "uart", "ready"}

CoreInv ==
    /\ boot \in Boots
    /\ saved \subseteq Lines
    /\ phPending \subseteq Owned /\ phEnabled \subseteq Owned /\ phActive \subseteq Owned
    /\ ownEnabled \subseteq Own
    /\ MaintIrq \notin ownPending
    /\ boot # "dist" => linesNumber = NrLines
    /\ boot = "redist" => phEnabled \subseteq PPIs /\ phActive \subseteq PPIs
    /\ boot \in {"cpu", "table", "uart"} => phEnabled = {} /\ phActive = {}
    /\ boot # "ready" => ~running
    /\ fault => boot \in {"dist", "ready"}
    /\ ~running /\ boot = "ready" => phEnabled = {}
    /\ handler \in [Lines -> {"null", "default", "uart", "maintenance"}]
    /\ boot \in {"uart", "ready"} => \A l \in Lines: handler[l] # "null"
    /\ \A l \in Lines: handler[l] = "maintenance" => l = MaintIrq

(* The lines below the number of lines are all of them. *)
LEMMA LineNumbers == \A l \in Lines: l < NrLines
BY GicSizes DEF Lines, NrLines

LEMMA KnownLines ==
    /\ UartIrq \in Lines /\ UartIrq \in Own
    /\ MaintIrq \in Lines /\ MaintIrq \in Own
    /\ Owned \subseteq Lines
BY GicLines, CoreLines DEF Own

(* Every line is of one kind, and the guest's are no SGIs. *)
LEMMA LineKinds ==
    /\ \A l \in Lines: l \in SGIs \/ l \in PPIs \/ l \in SPIs
    /\ \A l \in Owned: l \in PPIs \/ l \in SPIs
    /\ \A l \in SPIs: l \notin SGIs /\ l \notin PPIs
    /\ \A l \in SGIs: l \in Own
<1>1. NrSGIs \in Int /\ FirstSPI \in Int /\ NrSGIs <= FirstSPI /\ Lines \subseteq Int
    BY GicSizes, CoreLines DEF FirstSPI, Lines
<1>2. \A l \in Lines: l \in SGIs \/ l \in PPIs \/ l \in SPIs
    BY <1>1 DEF SGIs, PPIs, SPIs
<1>3. \A l \in SPIs: l \notin SGIs /\ l \notin PPIs
    BY <1>1 DEF SGIs, PPIs, SPIs
<1>4. Owned \intersect SGIs = {} /\ SGIs \subseteq Lines
    BY CoreLines DEF SGIs
<1> QED BY <1>2, <1>3, <1>4, GicLines DEF Own

(* Whatever linesNumber was, what is saved are lines. *)
LEMMA SavedLines ==
    ASSUME phEnabled \subseteq Owned, ownEnabled \subseteq Own, NEW lines, NEW on \in SavedStates(lines)
    PROVE  on \subseteq Lines
<1>1. Copied(lines) \subseteq Lines
    BY KnownLines DEF Copied, Own
<1> QED BY <1>1, GicBootStates DEF SavedStates

(* VirtGic's injection, as seen through the refinement mapping, is the one IcCore makes. *)
LEMMA SameInjection ==
    ASSUME NEW nr, NEW hw, Inject_IRq(nr, hw), boot = "ready", boot' = "ready"
    PROVE  VG!Inject_IRq(nr, hw)
BY DEF Inject_IRq, VG!Inject_IRq, VirtEnabled, VG!VirtEnabled, FirstSPI, VG!FirstSPI, FreeLRs,
   VG!FreeLRs, ELRSR, VG!ELRSR, LRs, VG!LRs, InjectedLr, VG!InjectedLr

-----------------------------------------------------------------------------
LEMMA CoreInit == InitIc => CoreInv
<1> SUFFICES ASSUME InitIc PROVE CoreInv
    OBVIOUS
<1>1. boot = "dist" /\ saved = {} /\ phPending = {} /\ ownPending = {} /\ ~running /\ ~fault
    BY DEF InitIc
<1>2. phEnabled \subseteq Owned /\ phActive \subseteq Owned /\ ownEnabled \subseteq Own
    BY DEF InitIc
<1>3. handler = [l \in Lines |-> "null"]
    BY DEF InitIc
<1> QED BY <1>1, <1>2, <1>3 DEF CoreInv, Boots

(* Registering a handler keeps what CoreInv says of the table and of the own enables. *)
LEMMA Registering ==
    ASSUME CoreInv, NEW l \in Own, NEW h \in {"uart", "maintenance"},
           h = "maintenance" => l = MaintIrq,
           Register_IRq_Handler(l, h)
    PROVE  /\ ownEnabled' \subseteq Own
           /\ handler' \in [Lines -> {"null", "default", "uart", "maintenance"}]
           /\ (\A k \in Lines: handler[k] # "null") => \A k \in Lines: handler'[k] # "null"
           /\ \A k \in Lines: handler'[k] = "maintenance" => k = MaintIrq
BY DEF CoreInv, Register_IRq_Handler, Own

LEMMA CoreStep == CoreInv /\ [NextIc]_icVars => CoreInv'
<1> SUFFICES ASSUME CoreInv, [NextIc]_icVars PROVE CoreInv'
    OBVIOUS
<1> USE DEF CoreInv
<1>0. CASE SaveStateAborts
    BY <1>0 DEF SaveStateAborts, hvVars, bootVars
<1>1. CASE Distributor
    <2>1. saved' \subseteq Lines
        BY <1>1, SavedLines DEF Distributor
    <2>2. phEnabled' \subseteq PPIs /\ phActive' \subseteq PPIs
        BY <1>1, LineKinds DEF Distributor, Disable, Deactivate
    <2> QED BY <1>1, <2>1, <2>2 DEF Distributor, Disable, Deactivate, virtVars, Boots
<1>2. CASE Redistributor
    <2>1. phEnabled' = {} /\ phActive' = {}
        BY <1>2 DEF Redistributor, Deactivate
    <2>2. ownEnabled' \subseteq Own
        BY <1>2, LineKinds DEF Redistributor
    <2> QED BY <1>2, <2>1, <2>2 DEF Redistributor, virtVars, Boots
<1>3. CASE CpuIface
    BY <1>3 DEF CpuIface, vars, bootVars, Boots
<1>4. CASE Table
    <2>1. handler' = [l \in Lines |-> "default"]
        BY <1>4, LineNumbers DEF Table
    <2> QED BY <1>4, <2>1 DEF Table, vars, bootVars, Boots
<1>5. CASE UartDriver
    BY <1>5, KnownLines, Registering DEF UartDriver, vars, bootVars, Boots
<1>6. ASSUME NEW l \in Lines, Handle_IRq(l) PROVE CoreInv'
    <2>1. phPending' \subseteq phPending /\ ownPending' \subseteq ownPending /\ running' = running
        BY <1>6 DEF Handle_IRq, TakeLine
    <2>2. phEnabled' = phEnabled /\ phActive' \subseteq Owned
        BY <1>6 DEF Handle_IRq, TakeLine
    <2> QED BY <1>6, <2>1, <2>2 DEF Handle_IRq, bootVars
<1>7. ASSUME NEW l \in Own, OwnLineAsserts(l) PROVE CoreInv'
    BY <1>7, CoreLines DEF OwnLineAsserts, vars, bootVars
<1>8. ASSUME NEW l \in Owned, LineAsserts(l) \/ LineWithdraws(l), UNCHANGED hvVars PROVE CoreInv'
    BY <1>8 DEF LineAsserts, LineWithdraws, hvVars, bootVars
<1>9. CASE StartVirtIC
    BY <1>9, KnownLines, Registering DEF StartVirtIC, bootVars
<1>10. ASSUME Guest, UNCHANGED hvVars PROVE CoreInv'
    <2>1. running /\ running' = running /\ phPending' = phPending
        BY <1>10 DEF Guest, RedistSetEnable, DistSetEnable, DistClearEnable, GuestAck,
           GuestDeactivate
    <2>2. phEnabled' \subseteq Owned
        BY <1>10 DEF Guest, RedistSetEnable, DistSetEnable, DistClearEnable, GuestAck,
           GuestDeactivate, PhysicalSPI, PhysicalPPI
    <2>3. phActive' \subseteq phActive
        BY <1>10 DEF Guest, RedistSetEnable, DistSetEnable, DistClearEnable, GuestAck,
           GuestDeactivate
    <2> QED BY <1>10, <2>1, <2>2, <2>3 DEF hvVars, bootVars, Boots
<1>11. CASE UartStopsVm
    <2>1. phEnabled' = {} /\ UNCHANGED <<phPending, phActive>> /\ ~running'
        BY <1>11 DEF UartStopsVm, StopVm
    <2> QED BY <1>11, <2>1 DEF UartStopsVm, bootVars
<1>12. CASE UNCHANGED icVars
    BY <1>12 DEF icVars, vars, hvVars, bootVars
<1> QED
    BY <1>0, <1>1, <1>2, <1>3, <1>4, <1>5, <1>6, <1>7, <1>8, <1>9, <1>10, <1>11, <1>12
    DEF NextIc, Construction, Halted, icVars

(* The construction's invariant, and what the dispatch relies on afterwards. *)
THEOREM CoreInvariance == SpecIc => []CoreInv
BY CoreInit, CoreStep, PTL DEF SpecIc

-----------------------------------------------------------------------------
(* Every step of the interrupt core is one of VirtGic, or none. *)
LEMMA Refines ==
    ASSUME CoreInv, CoreInv', [NextIc]_icVars
    PROVE  [VG!Next]_(VG!vars)
<1> USE DEF CoreInv, VG!vars
<1>1. CASE Construction
    <2>1. UNCHANGED <<running, phPending, distEnabled, redistEnabled, lrs, oneBit>>
        BY <1>1 DEF Construction, SaveStateAborts, Distributor, Redistributor, CpuIface, Table,
           UartDriver, vars, virtVars
    <2>2. boot # "ready"
        BY <1>1 DEF Construction, SaveStateAborts, Distributor, Redistributor, CpuIface, Table,
           UartDriver
    <2>3. CASE boot' # "ready"
        BY <2>1, <2>2, <2>3
    <2>4. CASE boot' = "ready"
        <3>1. UartDriver
            BY <1>1, <2>2, <2>4 DEF Construction, SaveStateAborts, Distributor, Redistributor,
               CpuIface, Table, hvVars
        <3>2. phEnabled' = {} /\ phActive' = {} /\ ~fault'
            BY <3>1 DEF UartDriver, vars
        <3> QED BY <2>1, <2>2, <2>4, <3>2
    <2> QED BY <2>3, <2>4
<1>2. ASSUME NEW l \in Lines, Handle_IRq(l) PROVE [VG!Next]_(VG!vars)
    <2>1. boot = "ready" /\ boot' = "ready" /\ ~fault
        BY <1>2 DEF Handle_IRq
    <2>2. CASE running /\ l \in Owned
        <3>1. TakeLine(l)
            BY <1>2, <2>2 DEF Handle_IRq
        <3>2. VG!Inject_IRq(l, TRUE)
            BY <2>1, <3>1, SameInjection DEF TakeLine
        <3>3. VG!TakeLine(l)
            BY <2>1, <3>1, <3>2 DEF TakeLine, VG!TakeLine
        <3> QED BY <2>2, <3>3 DEF VG!Next
    <2>3. CASE ~(running /\ l \in Owned)
        <3>1. l \in Own
            <4>1. CASE running
                BY <2>3, <4>1 DEF Own
            <4>2. CASE ~running
                BY <1>2, <2>1, <4>2 DEF Handle_IRq, Signalled, Own
            <4> QED BY <4>1, <4>2
        <3>2. /\ Handler(handler[l])
              /\ UNCHANGED <<running, phActive, phEnabled, distEnabled, redistEnabled, oneBit>>
              /\ phPending' = phPending
            BY <1>2, <2>3, <3>1 DEF Handle_IRq, Own
        <3>3. CASE handler[l] = "uart" /\ running
            <4>1. VG!Inject_IRq(UartIrq, FALSE)
                BY <2>1, <3>2, <3>3, SameInjection DEF Handler
            <4>2. VG!TakeUart
                BY <2>1, <3>2, <3>3, <4>1 DEF VG!TakeUart
            <4> QED BY <4>2 DEF VG!Next
        <3>4. CASE handler[l] = "maintenance"
            <4>1. EISR # {}
                BY <1>2, <3>1, <3>4 DEF Handle_IRq, Signalled, Asserted, Own
            <4>2. fault' = fault /\ lrs' = [i \in LRs |-> IF i \in EISR THEN EmptyLr ELSE lrs[i]]
                BY <3>2, <3>4 DEF Handler
            <4>3. VG!TakeMaintenance
                BY <2>1, <3>2, <4>1, <4>2 DEF VG!TakeMaintenance, EISR, VG!EISR, LRs, VG!LRs,
                   EmptyLr, VG!EmptyLr
            <4> QED BY <4>3 DEF VG!Next
        <3>5. CASE handler[l] # "maintenance" /\ ~(handler[l] = "uart" /\ running)
            <4>1. handler[l] # "null"
                BY <2>1
            <4>2. UNCHANGED <<fault, lrs>>
                BY <3>2, <3>5, <4>1 DEF Handler
            <4> QED BY <2>1, <3>2, <4>2
        <3> QED BY <3>3, <3>4, <3>5
    <2> QED BY <2>2, <2>3
<1>3. ASSUME NEW l \in Own, OwnLineAsserts(l) PROVE [VG!Next]_(VG!vars)
    BY <1>3 DEF OwnLineAsserts, vars
<1>4. ASSUME NEW l \in Owned, LineAsserts(l) \/ LineWithdraws(l), UNCHANGED hvVars
      PROVE  [VG!Next]_(VG!vars)
    <2>1. VG!LineAsserts(l) \/ VG!LineWithdraws(l)
        BY <1>4 DEF LineAsserts, LineWithdraws, VG!LineAsserts, VG!LineWithdraws, hvVars
    <2> QED BY <2>1 DEF VG!Next
<1>5. CASE StartVirtIC
    <2>1. saved \in SUBSET Lines
        OBVIOUS
    <2>2. VG!StartVm
        BY <1>5, <2>1 DEF StartVirtIC, VG!StartVm
    <2> QED BY <2>2 DEF VG!Next
<1>6. ASSUME Guest, UNCHANGED hvVars PROVE [VG!Next]_(VG!vars)
    <2>1. boot = "ready" /\ boot' = "ready"
        BY <1>6 DEF hvVars, Guest, RedistSetEnable, DistSetEnable, DistClearEnable, GuestAck,
           GuestDeactivate
    <2>2. ASSUME NEW bits \in Writes, RedistSetEnable(bits) PROVE VG!Next
        <3>1. VG!RedistSetEnable(bits)
            BY <2>1, <2>2 DEF RedistSetEnable, VG!RedistSetEnable, PhysicalPPI, VG!PhysicalPPI,
               FirstLine, VG!FirstLine, FirstSetBit, VG!FirstSetBit, WordLines, VG!WordLines,
               OneLine, VG!OneLine, FirstSPI, VG!FirstSPI
        <3> QED BY <3>1 DEF VG!Next
    <2>3. ASSUME NEW bits \in Writes, NEW word \in 0 .. NrWords - 1, DistSetEnable(word, bits)
          PROVE  VG!Next
        <3>1. VG!DistSetEnable(word, bits)
            BY <2>1, <2>3 DEF DistSetEnable, VG!DistSetEnable, PhysicalSPI, VG!PhysicalSPI,
               FirstLine, VG!FirstLine, FirstSetBit, VG!FirstSetBit, WordLines, VG!WordLines,
               OneLine, VG!OneLine, FirstSPI, VG!FirstSPI
        <3> QED BY <3>1 DEF VG!Next
    <2>4. ASSUME NEW bits \in Writes, NEW word \in 0 .. NrWords - 1, DistClearEnable(word, bits)
          PROVE  VG!Next
        <3>1. VG!DistClearEnable(word, bits)
            BY <2>1, <2>4 DEF DistClearEnable, VG!DistClearEnable, PhysicalSPI, VG!PhysicalSPI,
               FirstLine, VG!FirstLine, FirstSetBit, VG!FirstSetBit, WordLines, VG!WordLines,
               OneLine, VG!OneLine, FirstSPI, VG!FirstSPI
        <3> QED BY <3>1 DEF VG!Next
    <2>5. ASSUME NEW i \in LRs, GuestAck(i) \/ GuestDeactivate(i) PROVE VG!Next
        <3>1. VG!GuestAck(i) \/ VG!GuestDeactivate(i)
            BY <2>1, <2>5 DEF GuestAck, GuestDeactivate, VG!GuestAck, VG!GuestDeactivate
        <3> QED BY <3>1 DEF VG!Next, LRs, VG!LRs
    <2> QED BY <1>6, <2>2, <2>3, <2>4, <2>5 DEF Guest
<1>7. CASE UartStopsVm
    <2>1. VG!StopVm
        BY <1>7 DEF UartStopsVm, StopVm, VG!StopVm
    <2> QED BY <2>1 DEF VG!Next
<1>8. CASE UNCHANGED icVars
    BY <1>8 DEF icVars, vars, hvVars
<1> QED
    BY <1>1, <1>2, <1>3, <1>4, <1>5, <1>6, <1>7, <1>8 DEF NextIc, Halted, icVars

(* Whatever the firmware left in the GIC, the memory held in the heap and however many lines *)
(* there are: construction ends where VirtGic starts, and everything proved of VirtGic holds *)
(* for the whole core.                                                                       *)
THEOREM ImplementsVirtGic == SpecIc => VirtGicSpec
<1>1. InitIc => VG!Init
    BY DEF InitIc, VG!Init, LRs, VG!LRs, EmptyLr, VG!EmptyLr
<1>2. CoreInv /\ CoreInv' /\ [NextIc]_icVars => [VG!Next]_(VG!vars)
    BY Refines
<1> QED BY <1>1, <1>2, CoreInvariance, PTL DEF SpecIc, VirtGicSpec, VG!Spec

-----------------------------------------------------------------------------
(* What CoreInv does not need: Saturn enables a line of its own only with a handler for it,  *)
(* except for the SGIs, and none stays active after the construction but that of an abandoned *)
(* handler.                                                                                   *)
OwnInv ==
    /\ ownActive \subseteq Own
    /\ boot = "redist" =>
          ownActive \subseteq SGIs \union PPIs /\ ownEnabled \subseteq SGIs \union PPIs
    /\ boot \in {"cpu", "table", "uart"} => ownActive = {} /\ ownEnabled \subseteq SGIs
    /\ boot = "uart" => \A l \in SGIs: handler[l] = "default"
    /\ boot # "ready" => ~abandoned
    /\ boot = "ready" =>
          /\ ownActive = IF abandoned THEN {UartIrq} ELSE {}
          /\ \A l \in ownEnabled:
                handler[l] \in {"uart", "maintenance"} \/ (l \in SGIs /\ handler[l] = "default")

LEMMA OwnStep == CoreInv /\ OwnInv /\ [NextIc]_icVars => OwnInv'
<1> SUFFICES ASSUME CoreInv, OwnInv, [NextIc]_icVars PROVE OwnInv'
    OBVIOUS
<1> USE DEF OwnInv
<1>0. CASE SaveStateAborts
    BY <1>0 DEF SaveStateAborts, hvVars, bootVars
<1>1. CASE Distributor
    <2>1. ownActive' \subseteq SGIs \union PPIs /\ ownEnabled' \subseteq SGIs \union PPIs
        BY <1>1, LineKinds DEF Distributor, Disable, Deactivate, CoreInv, Own
    <2>2. ownActive' \subseteq Own /\ boot' = "redist" /\ ~abandoned'
        BY <1>1 DEF Distributor, Deactivate
    <2> QED BY <2>1, <2>2
<1>2. CASE Redistributor
    <2>1. ownActive' = {} /\ ownEnabled' \subseteq SGIs
        BY <1>2 DEF Redistributor, Deactivate
    <2> QED BY <1>2, <2>1 DEF Redistributor
<1>3. CASE CpuIface
    BY <1>3 DEF CpuIface
<1>4. CASE Table
    <2>1. handler' = [l \in Lines |-> "default"]
        BY <1>4, LineNumbers DEF Table, CoreInv
    <2>2. SGIs \subseteq Lines
        BY DEF SGIs
    <2> QED BY <1>4, <2>1, <2>2 DEF Table
<1>5. CASE UartDriver
    <2>1. handler \in [Lines -> {"null", "default", "uart", "maintenance"}]
        BY DEF CoreInv
    <2>2. /\ handler' = [handler EXCEPT ![UartIrq] = "uart"]
          /\ ownEnabled' = ownEnabled \union {UartIrq}
        BY <1>5, KnownLines, LineNumbers DEF UartDriver, Register_IRq_Handler, CoreInv
    <2>3. \A l \in ownEnabled': handler'[l] = "uart" \/ (l \in SGIs /\ handler'[l] = "default")
        <3>1. SGIs \subseteq Lines
            BY DEF SGIs
        <3> QED BY <1>5, <2>1, <2>2, <3>1, KnownLines DEF UartDriver
    <2> QED BY <1>5, <2>3 DEF UartDriver
<1>6. ASSUME NEW l \in Lines, Handle_IRq(l) PROVE OwnInv'
    BY <1>6 DEF Handle_IRq
<1>7. ASSUME NEW l \in Own, OwnLineAsserts(l) PROVE OwnInv'
    BY <1>7 DEF OwnLineAsserts
<1>8. CASE UartStopsVm
    <2>1. /\ boot = "ready" /\ boot' = boot /\ UNCHANGED <<ownEnabled, handler>>
          /\ \/ UNCHANGED <<ownActive, abandoned>>
             \/ ownActive' = ownActive \union {UartIrq} /\ abandoned' = TRUE
        BY <1>8 DEF UartStopsVm
    <2>2. ownActive' = IF abandoned' THEN {UartIrq} ELSE {}
        BY <2>1
    <2> QED BY <2>1, <2>2, KnownLines
<1>9. CASE StartVirtIC
    <2>1. handler \in [Lines -> {"null", "default", "uart", "maintenance"}]
          /\ ownEnabled \subseteq Lines
        BY DEF CoreInv, Own
    <2>2. boot = "ready" /\ boot' = boot /\ ownActive' = ownActive /\ abandoned' = abandoned
          /\ Register_IRq_Handler(MaintIrq, "maintenance")
        BY <1>9 DEF StartVirtIC
    <2>3. \/ UNCHANGED <<handler, ownEnabled>>
          \/ /\ handler' = [handler EXCEPT ![MaintIrq] = "maintenance"]
             /\ ownEnabled' = ownEnabled \union {MaintIrq}
        BY <2>2 DEF Register_IRq_Handler
    <2>4. \A l \in ownEnabled':
            handler'[l] \in {"uart", "maintenance"} \/ (l \in SGIs /\ handler'[l] = "default")
        BY <2>1, <2>2, <2>3, KnownLines
    <2> QED BY <2>2, <2>4
<1>10. CASE UNCHANGED hvVars
    BY <1>10 DEF hvVars
<1> QED
    BY <1>0, <1>1, <1>2, <1>3, <1>4, <1>5, <1>6, <1>7, <1>8, <1>9, <1>10
    DEF NextIc, Construction, icVars

(* Once the construction is over Saturn is interrupted only by what it has a handler for, and *)
(* by SGIs, for every state the firmware can leave and every word of the heap.                *)
THEOREM OnlyExpectedSignalled == SpecIc => []OnlyExpected
<1>1. InitIc => OwnInv
    BY DEF InitIc, OwnInv
<1>2. CoreInv /\ OwnInv => OnlyExpected
    BY DEF CoreInv, OwnInv, OnlyExpected, Signalled
<1> QED BY <1>1, <1>2, OwnStep, CoreInvariance, PTL DEF SpecIc
=============================================================================
