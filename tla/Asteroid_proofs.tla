--------------------------- MODULE Asteroid_proofs ---------------------------
(***************************************************************************)
(* Proofs about VirtGic, for any guest, any number of lines and of list    *)
(* registers; then about Asteroid, the guest of the repository, for any    *)
(* number of keys.                                                         *)
(*                                                                         *)
(* VirtGic: that a line is in one list register only is not inductive: a   *)
(* step that injects a line must know that no list register holds it.  It  *)
(* follows from HwLineActive, since Handle_IRq takes a line only when it   *)
(* is not active, and deactivation frees the one register that holds it.   *)
(*                                                                         *)
(* Asteroid and what Saturn does for it is a behaviour of VirtGic, so all  *)
(* of that holds of it.  On top of it InterruptsHaveCause is inductive     *)
(* once it is known where the timer's line can be: enabled only after the  *)
(* guest registered it, in a list register only since then, and, from the  *)
(* guest's Tick to the end of its handler, in no second one.               *)
(***************************************************************************)
EXTENDS Asteroid, FiniteSetTheorems, TLAPS

-----------------------------------------------------------------------------
(* VirtGic: physical lines and the list registers that hold them. *)

(* Hardware list registers hold lines of the guest. *)
HwLineOwned == \A i \in LRs: InUse(i) /\ lrs[i].hw => lrs[i].nr \in Owned

IInv == TypeOK /\ HwLineActive /\ HwLineInOneLr /\ HwLineOwned /\ StoppedLinesOff

-----------------------------------------------------------------------------
(* What an injection can do to the list registers. *)
LEMMA InjectionWrites ==
    ASSUME TypeOK, NEW nr \in Lines, NEW hw \in BOOLEAN, Inject_IRq(nr, hw)
    PROVE  /\ fault' \in BOOLEAN
           /\ \/ lrs' = lrs
              \/ \E i \in LRs: ~InUse(i) /\ lrs' = [lrs EXCEPT ![i] = InjectedLr(nr, hw)]
<1>1. CASE VirtEnabled(nr) /\ FreeLRs # {}
    <2>1. fault' = fault
        BY <1>1 DEF Inject_IRq
    <2>2. PICK i \in FreeLRs: lrs' = [lrs EXCEPT ![i] = InjectedLr(nr, hw)]
        BY <1>1 DEF Inject_IRq
    <2>3. i \in LRs /\ ~InUse(i)
        BY DEF FreeLRs, ELRSR, InUse
    <2> QED BY <2>1, <2>2, <2>3 DEF TypeOK
<1>2. CASE ~VirtEnabled(nr)
    BY <1>2 DEF Inject_IRq, TypeOK
<1>3. CASE VirtEnabled(nr) /\ FreeLRs = {}
    BY <1>3 DEF Inject_IRq, TypeOK
<1> QED BY <1>1, <1>2, <1>3

(* The register an injection writes is well typed, in use, and of the line injected. *)
LEMMA InjectedType ==
    ASSUME NEW nr \in Lines, NEW hw \in BOOLEAN
    PROVE  /\ InjectedLr(nr, hw) \in Lr
           /\ InjectedLr(nr, hw).state # "invalid"
           /\ InjectedLr(nr, hw).nr = nr
           /\ InjectedLr(nr, hw).hw = hw
BY DEF InjectedLr, Lr, LrState

LEMMA EmptyType == EmptyLr \in Lr /\ EmptyLr.state = "invalid"
BY GicSizes DEF EmptyLr, Lr, LrState, Lines

(* The lines a register write names are lines. *)
LEMMA OwnedLines == Owned \subseteq Lines /\ UartIrq \in Lines
BY GicLines

-----------------------------------------------------------------------------
LEMMA Step == IInv /\ [Next]_vars => IInv'
<1> SUFFICES ASSUME IInv, [Next]_vars PROVE IInv'
    OBVIOUS
<1> USE DEF IInv
<1>1. ASSUME NEW l \in Owned, LineAsserts(l) \/ LineWithdraws(l) PROVE IInv'
    BY <1>1 DEF LineAsserts, LineWithdraws, TypeOK, HwLineActive, HwLineInOneLr, HwLineOwned,
       StoppedLinesOff, InUse
<1>2. ASSUME NEW l \in Owned, TakeLine(l) PROVE IInv'
    <2>1. CASE lrs' = lrs
        <3>1. fault' \in BOOLEAN
            BY <1>2, OwnedLines, InjectionWrites DEF TakeLine
        <3> QED BY <1>2, <2>1, <3>1 DEF TakeLine, TypeOK, HwLineActive, HwLineInOneLr,
                HwLineOwned, StoppedLinesOff, InUse
    <2>2. ASSUME NEW k \in LRs, ~InUse(k), lrs' = [lrs EXCEPT ![k] = InjectedLr(l, TRUE)]
          PROVE  IInv'
        <3>1. l \in Lines /\ l \notin phActive /\ phActive' = phActive \union {l}
            BY <1>2, OwnedLines DEF TakeLine
        <3>2. lrs' \in [LRs -> Lr]
            BY <2>2, <3>1, InjectedType DEF TypeOK
        <3>3. TypeOK'
            BY <1>2, <3>1, <3>2, InjectionWrites DEF TakeLine, TypeOK
        <3>4. \A i \in LRs: InUse(i)' /\ lrs'[i].hw =>
                   \/ i = k /\ lrs'[i].nr = l
                   \/ i # k /\ InUse(i) /\ lrs[i].hw /\ lrs'[i].nr = lrs[i].nr
            BY <2>2, <3>1, InjectedType DEF TypeOK, InUse
        <3>5. HwLineActive' /\ HwLineOwned'
            BY <3>1, <3>4 DEF HwLineActive, HwLineOwned
        <3>6. HwLineInOneLr'
            BY <3>1, <3>4 DEF HwLineActive, HwLineInOneLr
        <3> QED BY <1>2, <3>3, <3>5, <3>6 DEF TakeLine, StoppedLinesOff
    <2> QED BY <1>2, <2>1, <2>2, OwnedLines, InjectionWrites DEF TakeLine
<1>3. ASSUME TakeUart PROVE IInv'
    <2>1. CASE lrs' = lrs
        <3>1. fault' \in BOOLEAN
            BY <1>3, OwnedLines, InjectionWrites DEF TakeUart
        <3> QED BY <1>3, <2>1, <3>1 DEF TakeUart, TypeOK, HwLineActive, HwLineInOneLr,
                HwLineOwned, StoppedLinesOff, InUse
    <2>2. ASSUME NEW k \in LRs, ~InUse(k), lrs' = [lrs EXCEPT ![k] = InjectedLr(UartIrq, FALSE)]
          PROVE  IInv'
        <3>1. lrs' \in [LRs -> Lr]
            BY <2>2, OwnedLines, InjectedType DEF TypeOK
        <3>2. TypeOK'
            BY <1>3, <3>1, OwnedLines, InjectionWrites DEF TakeUart, TypeOK
        <3>3. \A i \in LRs: InUse(i)' /\ lrs'[i].hw =>
                   InUse(i) /\ lrs[i].hw /\ lrs'[i].nr = lrs[i].nr
            BY <2>2, OwnedLines, InjectedType DEF TypeOK, InUse
        <3> QED BY <1>3, <3>2, <3>3 DEF TakeUart, HwLineActive, HwLineInOneLr, HwLineOwned,
                StoppedLinesOff
    <2> QED BY <1>3, <2>1, <2>2, OwnedLines, InjectionWrites DEF TakeUart
<1>4. ASSUME TakeMaintenance PROVE IInv'
    <2>1. lrs' = [i \in LRs |-> IF i \in EISR THEN EmptyLr ELSE lrs[i]]
        BY <1>4 DEF TakeMaintenance
    <2>2. TypeOK'
        BY <1>4, <2>1, EmptyType DEF TakeMaintenance, TypeOK
    <2>3. \A i \in LRs: InUse(i)' => InUse(i) /\ lrs'[i] = lrs[i]
        BY <2>1, EmptyType DEF InUse, EISR
    <2> QED BY <1>4, <2>2, <2>3 DEF TakeMaintenance, HwLineActive, HwLineInOneLr, HwLineOwned,
            StoppedLinesOff
<1>5. ASSUME NEW bits \in Writes, RedistSetEnable(bits) PROVE IInv'
    <2>1. WordLines(0, bits) \subseteq Lines
        BY GicSizes, GicWrites DEF WordLines, Lines
    <2> QED BY <1>5, <2>1 DEF RedistSetEnable, PhysicalPPI, TypeOK, HwLineActive, HwLineInOneLr,
            HwLineOwned, StoppedLinesOff, InUse
<1>6. ASSUME NEW bits \in Writes, NEW word \in 0 .. NrWords - 1,
             DistSetEnable(word, bits) \/ DistClearEnable(word, bits)
      PROVE  IInv'
    <2>1. WordLines(word, bits) \subseteq Lines
        <3> SUFFICES ASSUME NEW b \in bits PROVE word * WordSize + b \in Lines
            BY DEF WordLines
        <3>1. b \in 0 .. WordSize - 1
            BY GicWrites
        <3>2. (word + 1) * WordSize <= NrWords * WordSize
            BY GicSizes
        <3> QED BY <3>1, <3>2, GicSizes DEF Lines
    <2>2. phEnabled' \subseteq Owned /\ running' /\ lrs' = lrs /\ phActive' = phActive
        BY <1>6 DEF DistSetEnable, DistClearEnable, PhysicalSPI, TypeOK
    <2>3. TypeOK'
        BY <1>6, <2>1, <2>2 DEF DistSetEnable, DistClearEnable, TypeOK
    <2> QED BY <2>2, <2>3 DEF HwLineActive, HwLineInOneLr, HwLineOwned, StoppedLinesOff, InUse
<1>7. ASSUME NEW k \in LRs, GuestAck(k) PROVE IInv'
    <2>1. lrs' = [lrs EXCEPT ![k].state = "active"] /\ InUse(k)
        BY <1>7 DEF GuestAck, InUse
    <2>2. TypeOK'
        BY <1>7, <2>1 DEF GuestAck, TypeOK, Lr, LrState
    <2>3. \A i \in LRs: /\ InUse(i)' => InUse(i)
                        /\ lrs'[i].hw = lrs[i].hw
                        /\ lrs'[i].nr = lrs[i].nr
        BY <2>1 DEF TypeOK, Lr, InUse
    <2> QED BY <1>7, <2>2, <2>3 DEF GuestAck, HwLineActive, HwLineInOneLr, HwLineOwned,
            StoppedLinesOff
<1>8. ASSUME NEW k \in LRs, GuestDeactivate(k) PROVE IInv'
    <2>1. lrs' = [lrs EXCEPT ![k].state = "invalid"] /\ InUse(k)
        BY <1>8 DEF GuestDeactivate, InUse
    <2>2. phActive' = IF lrs[k].hw THEN phActive \ {lrs[k].nr} ELSE phActive
        BY <1>8 DEF GuestDeactivate
    <2>3. TypeOK'
        BY <1>8, <2>1, <2>2 DEF GuestDeactivate, TypeOK, Lr, LrState
    <2>4. \A i \in LRs: InUse(i)' => /\ i # k
                                     /\ InUse(i)
                                     /\ lrs'[i] = lrs[i]
        BY <2>1 DEF TypeOK, Lr, InUse
    <2>5. HwLineActive'
        BY <2>1, <2>2, <2>4 DEF HwLineActive, HwLineInOneLr
    <2> QED BY <1>8, <2>3, <2>4, <2>5 DEF GuestDeactivate, HwLineInOneLr, HwLineOwned,
            StoppedLinesOff
<1>9. ASSUME StartVm \/ StopVm PROVE IInv'
    BY <1>9, GicBootStates DEF StartVm, StopVm, TypeOK, HwLineActive, HwLineInOneLr, HwLineOwned,
       StoppedLinesOff, InUse
<1>10. CASE UNCHANGED vars
    BY <1>10 DEF vars, TypeOK, HwLineActive, HwLineInOneLr, HwLineOwned, StoppedLinesOff, InUse
<1> QED
    BY <1>1, <1>2, <1>3, <1>4, <1>5, <1>6, <1>7, <1>8, <1>9, <1>10 DEF Next, Halted

(* The inductive invariant holds in every reachable state. *)
THEOREM Invariance == Spec => []IInv
<1>1. Init => IInv
    <2>1. Init => TypeOK
        BY EmptyType DEF Init, TypeOK
    <2>2. Init => \A i \in LRs: ~InUse(i)
        BY EmptyType DEF Init, InUse
    <2>3. Init => StoppedLinesOff
        BY DEF Init, StoppedLinesOff
    <2> QED BY <2>1, <2>2, <2>3 DEF IInv, HwLineActive, HwLineInOneLr, HwLineOwned
<1> QED BY <1>1, Step, PTL DEF Spec

(* Whatever the guest writes, only lines it owns are ever enabled, pending or active for it. *)
THEOREM TypeCorrect == Spec => []TypeOK
<1>1. IInv => TypeOK
    BY DEF IInv
<1> QED BY <1>1, Invariance, PTL

(* A physical line is in one list register at most and stays active while it is, across any *)
(* number of VM restarts.                                                                   *)
THEOREM OneListRegisterPerLine == Spec => []HwLineOnce
<1>1. IInv => HwLineOnce
    BY DEF IInv, HwLineOnce
<1> QED BY <1>1, Invariance, PTL

(* A stopped VM cannot interrupt the hypervisor. *)
THEOREM StoppedVmSilent == Spec => []StoppedLinesOff
<1>1. IInv => StoppedLinesOff
    BY DEF IInv
<1> QED BY <1>1, Invariance, PTL

(* An injection writes free list registers only, maintenance empties finished ones, and a   *)
(* stop or start touches none: what is in use changes by the guest's hand alone.             *)
THEOREM InterruptsKept == Spec => LrsKeepInterrupts
<1>1. IInv /\ [Next]_vars
      => [\A i \in LRs: InUse(i) /\ lrs'[i] # lrs[i] => GuestAck(i) \/ GuestDeactivate(i)]_vars
    <2> SUFFICES ASSUME IInv, Next, NEW i \in LRs, InUse(i), lrs'[i] # lrs[i]
                 PROVE  GuestAck(i) \/ GuestDeactivate(i)
        OBVIOUS
    <2>1. lrs \in [LRs -> Lr]
        BY DEF IInv, TypeOK
    <2>2. ASSUME NEW nr \in Lines, NEW hw \in BOOLEAN, Inject_IRq(nr, hw) PROVE FALSE
        BY <2>1, <2>2, InjectionWrites DEF IInv
    <2>3. CASE \E l \in Owned: LineAsserts(l) \/ LineWithdraws(l) \/ TakeLine(l)
        BY <2>2, <2>3, OwnedLines DEF LineAsserts, LineWithdraws, TakeLine
    <2>4. CASE TakeUart
        BY <2>2, <2>4, OwnedLines DEF TakeUart
    <2>5. CASE TakeMaintenance
        BY <2>1, <2>5 DEF TakeMaintenance, EISR, InUse
    <2>6. CASE \E bits \in Writes:
                  \/ RedistSetEnable(bits)
                  \/ \E word \in 0 .. NrWords - 1:
                        DistSetEnable(word, bits) \/ DistClearEnable(word, bits)
        BY <2>6 DEF RedistSetEnable, DistSetEnable, DistClearEnable
    <2>7. ASSUME NEW j \in LRs, GuestAck(j) \/ GuestDeactivate(j)
          PROVE  GuestAck(i) \/ GuestDeactivate(i)
        <3>1. j = i
            BY <2>1, <2>7 DEF GuestAck, GuestDeactivate
        <3> QED BY <2>7, <3>1
    <2>8. CASE StartVm \/ StopVm \/ Halted
        BY <2>8 DEF StartVm, StopVm, Halted, vars
    <2> QED BY <2>3, <2>4, <2>5, <2>6, <2>7, <2>8 DEF Next
<1> QED BY <1>1, Invariance, PTL DEF Spec, LrsKeepInterrupts

-----------------------------------------------------------------------------
(* A guest that names one line a write: the physical and the virtual enables change   *)
(* together, so nothing is dropped on injection, and an active line stays in an LR.   *)
Heard == EnablesAgree /\ NoLineLost

LEMMA OneBitWrite ==
    ASSUME NEW bits, OneLine(bits), NEW word \in Nat
    PROVE  WordLines(word, bits) = {FirstLine(word, bits)}
<1>1. PICK b \in 0 .. WordSize - 1: bits = {b}
    BY DEF OneLine
<1>2. FirstSetBit(bits) = b
    BY <1>1, GicSizes DEF FirstSetBit
<1> QED BY <1>1, <1>2 DEF WordLines, FirstLine

LEMMA HeardStep == IInv /\ Heard /\ [Next]_vars => Heard'
<1> SUFFICES ASSUME IInv, Heard, [Next]_vars PROVE Heard'
    OBVIOUS
<1> USE DEF Heard, EnablesAgree
<1>0. StoppedLinesOff'
    BY Step DEF IInv
<1>1. ASSUME NEW l \in Owned, LineAsserts(l) \/ LineWithdraws(l) PROVE Heard'
    BY <1>0, <1>1 DEF LineAsserts, LineWithdraws, LinesHeard, VirtEnabled, NoLineLost, Holds, InUse
<1>2. ASSUME NEW l \in Owned, TakeLine(l) PROVE Heard'
    <2>1. LinesHeard'
        BY <1>2 DEF TakeLine, LinesHeard, VirtEnabled
    <2>2. oneBit /\ running => VirtEnabled(l)
        BY <1>2 DEF TakeLine, LinesHeard
    <2>3. ASSUME ~fault', oneBit' PROVE \A m \in phActive': \E i \in LRs: Holds(i, m)'
        <3>1. PICK k \in FreeLRs: lrs' = [lrs EXCEPT ![k] = InjectedLr(l, TRUE)]
            BY <1>2, <2>2, <2>3 DEF TakeLine, Inject_IRq
        <3>2. k \in LRs /\ ~InUse(k)
            BY DEF FreeLRs, ELRSR, InUse
        <3>3. Holds(k, l)'
            BY <3>1, <3>2, OwnedLines, InjectedType DEF IInv, TypeOK, Holds, InUse
        <3>4. \A i \in LRs: i # k => lrs'[i] = lrs[i]
            BY <3>1 DEF IInv, TypeOK
        <3>5. \A m \in phActive: \E i \in LRs: Holds(i, m)
            BY <1>2, <2>3 DEF TakeLine, NoLineLost
        <3> QED BY <1>2, <3>2, <3>3, <3>4, <3>5 DEF TakeLine, Holds, InUse
    <2> QED BY <1>0, <2>1, <2>3 DEF NoLineLost
<1>3. ASSUME TakeUart PROVE Heard'
    <2>1. LinesHeard'
        BY <1>3 DEF TakeUart, LinesHeard, VirtEnabled
    <2>2. \A i \in LRs: InUse(i) => lrs'[i] = lrs[i]
        BY <1>3, OwnedLines, InjectionWrites DEF TakeUart, IInv, TypeOK
    <2>3. ~fault' => ~fault
        BY <1>3 DEF TakeUart
    <2> QED BY <1>0, <1>3, <2>1, <2>2, <2>3 DEF TakeUart, NoLineLost, Holds, InUse
<1>4. ASSUME TakeMaintenance PROVE Heard'
    <2>1. \A i \in LRs: InUse(i) => lrs'[i] = lrs[i]
        BY <1>4 DEF TakeMaintenance, EISR, InUse
    <2> QED BY <1>0, <1>4, <2>1 DEF TakeMaintenance, LinesHeard, VirtEnabled, NoLineLost, Holds,
            InUse
<1>5. ASSUME NEW bits \in Writes, RedistSetEnable(bits) PROVE Heard'
    <2>1. oneBit' => oneBit /\ WordLines(0, bits) = {FirstLine(0, bits)}
        BY <1>5, OneBitWrite DEF RedistSetEnable
    <2>2. LinesHeard'
        BY <1>5, <2>1 DEF RedistSetEnable, PhysicalPPI, LinesHeard, VirtEnabled
    <2> QED BY <1>0, <1>5, <2>1, <2>2 DEF RedistSetEnable, NoLineLost, Holds, InUse
<1>6. ASSUME NEW bits \in Writes, NEW word \in 0 .. NrWords - 1,
             DistSetEnable(word, bits) \/ DistClearEnable(word, bits)
      PROVE  Heard'
    <2>1. /\ oneBit' => oneBit /\ OneLine(bits)
          /\ running /\ running'
          /\ redistEnabled' = redistEnabled
        <3>1. CASE DistSetEnable(word, bits)
            BY <3>1, Zenon DEF DistSetEnable
        <3>2. CASE DistClearEnable(word, bits)
            BY <3>2, Zenon DEF DistClearEnable
        <3> QED BY <1>6, <3>1, <3>2
    <2>2. OneLine(bits) => WordLines(word, bits) = {FirstLine(word, bits)}
        <3>1. word \in Nat
            BY GicSizes
        <3> QED BY <3>1, OneBitWrite
    <2>3. LinesHeard'
        <3> SUFFICES ASSUME oneBit', NEW l \in phEnabled' PROVE VirtEnabled(l)'
            BY DEF LinesHeard
        <3>1. CASE DistSetEnable(word, bits)
            <4>1. \/ l \in phEnabled
                  \/ l \in WordLines(word, bits) /\ l >= FirstSPI /\ l \in Owned
                BY <2>1, <2>2, <3>1 DEF DistSetEnable, PhysicalSPI
            <4>2. distEnabled' = distEnabled \union WordLines(word, bits)
                BY <3>1 DEF DistSetEnable
            <4>3. CASE l \in phEnabled
                BY <2>1, <4>2, <4>3 DEF LinesHeard, VirtEnabled
            <4>4. CASE l \in WordLines(word, bits) /\ l >= FirstSPI /\ l \in Owned
                <5>1. ~(l < FirstSPI)
                    BY <4>4, GicSizes, GicLines DEF Lines, FirstSPI
                <5> QED BY <4>2, <4>4, <5>1 DEF VirtEnabled
            <4> QED BY <4>1, <4>3, <4>4
        <3>2. CASE DistClearEnable(word, bits)
            <4>1. /\ l \in phEnabled \ PhysicalSPI(word, bits)
                  /\ distEnabled' = distEnabled \ WordLines(word, bits)
                BY <3>2 DEF DistClearEnable
            <4>2. VirtEnabled(l) /\ l \in Owned
                BY <2>1, <4>1 DEF LinesHeard, IInv, TypeOK
            <4>3. CASE l < FirstSPI
                BY <2>1, <4>2, <4>3 DEF VirtEnabled
            <4>4. CASE ~(l < FirstSPI)
                <5>1. l >= FirstSPI
                    BY <4>2, <4>4, GicSizes, GicLines DEF Lines, FirstSPI
                <5>2. l \notin WordLines(word, bits)
                    BY <2>1, <2>2, <4>1, <4>2, <5>1 DEF PhysicalSPI
                <5> QED BY <4>1, <4>2, <4>4, <5>2 DEF VirtEnabled
            <4> QED BY <4>3, <4>4
        <3> QED BY <1>6, <3>1, <3>2
    <2>4. /\ lrs' = lrs /\ phActive' = phActive
          /\ fault' = fault
        BY <1>6 DEF DistSetEnable, DistClearEnable
    <2> QED BY <1>0, <2>1, <2>3, <2>4 DEF NoLineLost, Holds, InUse
<1>7. ASSUME NEW k \in LRs, GuestAck(k) PROVE Heard'
    <2>1. \A i \in LRs: /\ InUse(i) => InUse(i)'
                        /\ lrs'[i].hw = lrs[i].hw
                        /\ lrs'[i].nr = lrs[i].nr
        BY <1>7 DEF GuestAck, IInv, TypeOK, Lr, InUse
    <2> QED BY <1>0, <1>7, <2>1 DEF GuestAck, LinesHeard, VirtEnabled, NoLineLost, Holds
<1>8. ASSUME NEW k \in LRs, GuestDeactivate(k) PROVE Heard'
    <2>1. \A i \in LRs: i # k => lrs'[i] = lrs[i]
        BY <1>8 DEF GuestDeactivate, IInv, TypeOK
    <2>2. \A m \in phActive': m \in phActive /\ ~Holds(k, m)
        BY <1>8 DEF GuestDeactivate, Holds
    <2>3. NoLineLost'
        BY <1>8, <2>1, <2>2 DEF GuestDeactivate, NoLineLost, Holds, InUse
    <2> QED BY <1>0, <1>8, <2>3 DEF GuestDeactivate, LinesHeard, VirtEnabled
<1>9. ASSUME StartVm \/ StopVm PROVE Heard'
    BY <1>0, <1>9 DEF StartVm, StopVm, StoppedLinesOff, LinesHeard, NoLineLost, Holds, InUse
<1>10. CASE UNCHANGED vars
    BY <1>0, <1>10 DEF vars, LinesHeard, VirtEnabled, NoLineLost, Holds, InUse
<1> QED
    BY <1>1, <1>2, <1>3, <1>4, <1>5, <1>6, <1>7, <1>8, <1>9, <1>10 DEF Next, Halted

LEMMA HeardInvariance == Spec => []Heard
<1>1. Init => Heard
    BY DEF Init, Heard, EnablesAgree, StoppedLinesOff, LinesHeard, NoLineLost
<1> QED BY <1>1, HeardStep, Invariance, PTL DEF Spec

(* What the guest enabled last and what Saturn's forwarding says are the same while it writes *)
(* one bit at a time, and a stopped VM has no line enabled however it wrote.                   *)
THEOREM GuestHeard == Spec => []EnablesAgree
<1>1. Heard => EnablesAgree
    BY DEF Heard
<1> QED BY <1>1, HeardInvariance, PTL

(* No line that interrupted the guest is ever lost, as long as it writes one bit at a time to *)
(* its enable registers and no injection ran out of list registers.                            *)
THEOREM NothingLost == Spec => []NoLineLost
<1>1. Heard => NoLineLost
    BY DEF Heard
<1> QED BY <1>1, HeardInvariance, PTL

-----------------------------------------------------------------------------
(* Asteroid: one of the guests of VirtGic. *)

LEMMA TimerFacts ==
    /\ TimerIrq \in Owned /\ TimerIrq \in Lines /\ TimerIrq < FirstSPI
    /\ UartIrq \in Lines /\ UartIrq \notin Owned /\ UartIrq >= FirstSPI /\ UartIrq # TimerIrq
BY AsteroidTimer, GicLines DEF Lines

-----------------------------------------------------------------------------
(* Every step is one of VirtGic's or changes none of its variables. *)

LEMMA RegisterIsWrite ==
    ASSUME NEW l \in {UartIrq, TimerIrq}, Register_IRq_Handler(l)
    PROVE  Next
<1>1. CASE l = TimerIrq
    <2>1. RedistSetEnable({TimerIrq})
        BY <1>1, TimerFacts DEF Register_IRq_Handler
    <2> QED BY <2>1, AsteroidWrites DEF Next
<1>2. CASE l = UartIrq
    <2>1. ~(UartIrq < FirstSPI)
        BY TimerFacts, GicSizes DEF FirstSPI, Lines
    <2>2. DistSetEnable(UartIrq \div WordSize, {UartIrq % WordSize})
        BY <1>2, <2>1 DEF Register_IRq_Handler
    <2>3. UartIrq \div WordSize \in 0 .. NrWords - 1
        BY TimerFacts, GicSizes DEF Lines
    <2> QED BY <2>2, <2>3, AsteroidWrites DEF Next
<1> QED BY <1>1, <1>2

LEMMA AsteroidStep == [NextAsteroid]_asteroidVars => [Next]_vars
<1> SUFFICES ASSUME [NextAsteroid]_asteroidVars PROVE [Next]_vars
    OBVIOUS
<1> USE TimerFacts
<1>1. CASE TypeKey \/ HandleUartStopped \/ LocalIRqEnable \/ TimerOn \/ ReadRIS \/ ReadTDR
           \/ DropPriority \/ Return
    BY <1>1 DEF TypeKey, HandleUartStopped, LocalIRqEnable, TimerOn, ReadRIS, ReadTDR, DropPriority,
       Return
<1>2. CASE TimerExpires
    BY <1>2 DEF TimerExpires, Next
<1>3. CASE HandleUart \/ HandleTimer \/ HandleMaintenance \/ Start \/ Stop
    BY <1>3 DEF HandleUart, HandleTimer, HandleMaintenance, Start, Stop, Next
<1>4. CASE RegisterUart \/ RegisterTimer
    BY <1>4, RegisterIsWrite DEF RegisterUart, RegisterTimer
<1>5. CASE TimerOff
    <2>1. LineWithdraws(TimerIrq)
        BY <1>5 DEF TimerOff, Main, Withdrawn, LineWithdraws
    <2> QED BY <2>1 DEF Next
<1>6. CASE Tick
    <2>1. LineWithdraws(TimerIrq) \/ LineAsserts(TimerIrq)
        BY <1>6 DEF Tick, In, Withdrawn, LineWithdraws, LineAsserts
    <2> QED BY <2>1 DEF Next
<1>7. ASSUME NEW i \in LRs, Acknowledge(i) \/ Deactivate(i) PROVE [Next]_vars
    BY <1>7 DEF Acknowledge, Deactivate, Next
<1>8. CASE Loop \/ UNCHANGED asteroidVars
    BY <1>8 DEF Loop, asteroidVars
<1> QED
    BY <1>1, <1>2, <1>3, <1>4, <1>5, <1>6, <1>7, <1>8 DEF NextAsteroid, Boot, Handler

(* Asteroid on Saturn is one of the guests VirtGic allows. *)
THEOREM GuestOfVirtGic == SpecAsteroid => Spec
<1>1. InitAsteroid => Init
    BY DEF InitAsteroid
<1> QED BY <1>1, AsteroidStep, PTL DEF SpecAsteroid, Spec

(* What VirtGic keeps is kept for Asteroid; Heard also says that no line is lost. *)
LEMMA GicInvariance == SpecAsteroid => [](IInv /\ Heard)
BY GuestOfVirtGic, Invariance, HeardInvariance, PTL

-----------------------------------------------------------------------------
(* Where the guest is, and where the timer's line can be. *)

Registered == {"timer_on", "loop"}
Clean      == left \subseteq {"invalid"}
Pending(i) == lrs[i].state = "pending"
Told       == {i \in LRs : Pending(i) /\ lrs[i].nr = UartIrq}
Acting     == IF at \in {"ris", "tdr"} THEN 1 ELSE 0

GuestType ==
    /\ fifo \in Nat
    /\ rx \in 0 .. RxSize
    /\ quiet \in Nat
    /\ oneBit = TRUE
    /\ irqTable \subseteq {UartIrq, TimerIrq}
    /\ pc # "uart" => UartIrq \in irqTable
    /\ \A i \in LRs: InUse(i) /\ ~lrs[i].hw => lrs[i].nr = UartIrq

TimerLine ==
    /\ TimerIrq \in phPending => due
    /\ TimerIrq \in phEnabled => pc \in Registered

CleanTimer ==
    /\ ~running => \A i \in LRs: ~InUse(i)
    /\ \A i \in LRs: Holds(i, TimerIrq) => pc \in Registered /\ (Pending(i) => due)
    /\ at = "tick" => due
    /\ at = "tick" /\ running => \E i \in LRs: Holds(i, TimerIrq) /\ ~Pending(i)

KeysTold == running => rx <= quiet + Cardinality(Told) + Acting

AInv == GuestType /\ TimerLine /\ (Clean => CleanTimer) /\ KeysTold

(* A set of list registers has a size. *)
LEMMA LrSets ==
    ASSUME NEW A, A \subseteq LRs
    PROVE  IsFiniteSet(A) /\ Cardinality(A) \in Nat
<1>1. IsFiniteSet(LRs)
    BY GicSizes, FS_Interval DEF LRs
<1> QED BY <1>1, FS_Subset, FS_CardinalityType

LEMMA ToldSize == IsFiniteSet(Told) /\ Cardinality(Told) \in Nat
BY LrSets DEF Told

(* Registers that stay as they are, but for one that takes a new interrupt. *)
LEMMA Injected ==
    ASSUME IInv, NEW nr \in Lines, NEW hw \in BOOLEAN, NEW k \in LRs, ~InUse(k),
           lrs' = [lrs EXCEPT ![k] = InjectedLr(nr, hw)]
    PROVE  /\ \A i \in LRs: i # k => lrs'[i] = lrs[i]
           /\ lrs'[k] = InjectedLr(nr, hw) /\ lrs'[k] # lrs[k] /\ InUse(k)'
           /\ k \notin Told
           /\ Told' = IF nr = UartIrq THEN Told \union {k} ELSE Told
<1>1. \A i \in LRs: i # k => lrs'[i] = lrs[i]
    BY DEF IInv, TypeOK
<1>2. lrs'[k] = InjectedLr(nr, hw)
    BY DEF IInv, TypeOK
<1>3. /\ lrs'[k].state = "pending" /\ lrs'[k].nr = nr
      /\ lrs[k].state = "invalid"
    BY <1>2 DEF InjectedLr, InUse
<1>4. k \notin Told
    BY <1>3 DEF Told, Pending
<1> QED BY <1>1, <1>2, <1>3, <1>4 DEF Told, Pending, InUse

-----------------------------------------------------------------------------
(* The steps of the outside and of Saturn. *)

LEMMA OutsideStep ==
    ASSUME IInv, AInv, TypeKey \/ TimerExpires \/ HandleUartStopped \/ HandleMaintenance
    PROVE  AInv'
<1> USE TimerFacts, AsteroidBounds DEF AInv
<1>1. CASE TypeKey \/ TimerExpires
    <2>1. /\ UNCHANGED <<running, phEnabled, lrs, oneBit, rx, pc, at, irqTable, quiet, left>>
          /\ fifo' \in Nat
          /\ \/ UNCHANGED <<phPending, due>>
             \/ due' = TRUE /\ phPending' = phPending \union {TimerIrq}
        <3>1. CASE TypeKey
            BY <3>1 DEF TypeKey, vars, guest, timer, GuestType
        <3>2. CASE TimerExpires
            BY <3>2 DEF TimerExpires, LineAsserts, guest, timer, GuestType
        <3> QED BY <1>1, <3>1, <3>2
    <2>2. GuestType' /\ KeysTold'
        BY <2>1 DEF GuestType, KeysTold, Told, Acting, Pending, InUse
    <2>3. TimerLine' /\ (Clean => CleanTimer)'
        BY <2>1 DEF TimerLine, Clean, CleanTimer, Pending, Holds, InUse
    <2> QED BY <2>2, <2>3
<1>2. CASE HandleUartStopped
    <2>1. rx' \in 0 .. RxSize /\ fifo' = 0 /\ running' = running /\ ~running
        BY <1>2 DEF HandleUartStopped, Accepted, Least, GuestType, vars
    <2> QED BY <1>2, <2>1 DEF HandleUartStopped, vars, guest, timer, counts, GuestType, TimerLine,
            Clean, CleanTimer, KeysTold, Pending, Holds, InUse
<1>3. CASE HandleMaintenance
    <2>1. /\ lrs' = [i \in LRs |-> IF i \in EISR THEN EmptyLr ELSE lrs[i]]
          /\ UNCHANGED <<running, fault, phPending, phEnabled, oneBit>>
          /\ UNCHANGED <<fifo, rx, pc, at, id, ret, irqTable, due, quiet, left>>
        BY <1>3 DEF HandleMaintenance, TakeMaintenance, guest, timer
    <2>2. \A i \in LRs: \/ lrs'[i] = lrs[i]
                        \/ lrs'[i].state = "invalid" /\ ~InUse(i)
        BY <2>1, EmptyType DEF EISR, InUse
    <2>3. Told' = Told
        BY <2>2 DEF Told, Pending, InUse
    <2>4. GuestType' /\ TimerLine' /\ (Clean => CleanTimer)'
        BY <2>1, <2>2 DEF GuestType, TimerLine, Clean, CleanTimer, Pending, Holds, InUse
    <2> QED BY <2>1, <2>3, <2>4 DEF KeysTold, Acting
<1> QED BY <1>1, <1>2, <1>3

LEMMA UartStep ==
    ASSUME IInv, AInv, HandleUart
    PROVE  AInv'
<1> USE TimerFacts, AsteroidBounds DEF AInv
<1>1. /\ Inject_IRq(UartIrq, FALSE)
      /\ running /\ running'
      /\ UNCHANGED <<phPending, phEnabled, oneBit, pc, at, irqTable, due, left>>
    BY DEF HandleUart, TakeUart, guest, timer
<1>2. /\ Accepted \in Nat
      /\ fifo' = 0 /\ rx' = rx + Accepted /\ rx' \in 0 .. RxSize
      /\ quiet' = quiet + Accepted - IF lrs' # lrs THEN Least(1, quiet + Accepted) ELSE 0
    BY DEF HandleUart, Accepted, Least, GuestType
<1>3. CASE lrs' = lrs
    <2>1. quiet' = quiet + Accepted
        BY <1>2, <1>3 DEF GuestType
    <2> QED BY <1>1, <1>2, <1>3, <2>1, ToldSize DEF GuestType, TimerLine, Clean, CleanTimer,
            KeysTold, Told, Acting, Pending, Holds, InUse
<1>4. ASSUME NEW k \in LRs, ~InUse(k), lrs' = [lrs EXCEPT ![k] = InjectedLr(UartIrq, FALSE)]
      PROVE  AInv'
    <2>1. /\ \A i \in LRs: i # k => lrs'[i] = lrs[i]
          /\ lrs'[k] = InjectedLr(UartIrq, FALSE) /\ lrs'[k] # lrs[k]
          /\ k \notin Told
          /\ Told' = Told \union {k}
        BY <1>4, Injected
    <2>2. ~lrs'[k].hw /\ lrs'[k].nr = UartIrq
        BY <2>1 DEF InjectedLr
    <2>3. quiet' = quiet + Accepted - Least(1, quiet + Accepted) /\ quiet' \in Nat
        <3>1. lrs' # lrs
            BY <2>1
        <3> QED BY <1>2, <3>1 DEF Least, GuestType
    <2>4. GuestType'
        BY <1>1, <1>2, <2>1, <2>2, <2>3 DEF GuestType, InUse
    <2>5. TimerLine' /\ (Clean => CleanTimer)'
        <3>1. \A i \in LRs: Holds(i, TimerIrq)' <=> i # k /\ Holds(i, TimerIrq)
            BY <1>4, <2>1, <2>2 DEF Holds, InUse
        <3>2. \A i \in LRs: i # k => (Pending(i)' <=> Pending(i))
            BY <2>1 DEF Pending
        <3>3. ~Holds(k, TimerIrq)
            BY <1>4 DEF Holds
        <3> QED BY <1>1, <3>1, <3>2, <3>3 DEF TimerLine, Clean, CleanTimer
    <2>6. Cardinality(Told') = Cardinality(Told) + 1
        BY <2>1, ToldSize, FS_AddElement
    <2>7. quiet' >= quiet + Accepted - 1
        BY <1>2, <2>3 DEF Least, GuestType
    <2>8. KeysTold'
        BY <1>1, <1>2, <2>3, <2>6, <2>7, ToldSize DEF KeysTold, Acting, GuestType
    <2> QED BY <2>4, <2>5, <2>8
<1> QED BY <1>1, <1>3, <1>4, InjectionWrites DEF IInv

LEMMA TimerStep ==
    ASSUME IInv, AInv, HandleTimer
    PROVE  AInv'
<1> USE TimerFacts DEF AInv
<1>1. /\ Inject_IRq(TimerIrq, TRUE)
      /\ running /\ running'
      /\ TimerIrq \in phPending \intersect phEnabled
      /\ phPending' = phPending \ {TimerIrq}
      /\ UNCHANGED <<phEnabled, oneBit, fifo, rx, pc, at, irqTable, due, quiet, left>>
      /\ TimerIrq \notin phActive
    BY DEF HandleTimer, TakeLine, guest, timer
<1>2. CASE lrs' = lrs
    BY <1>1, <1>2 DEF GuestType, TimerLine, Clean, CleanTimer, KeysTold, Told, Acting, Pending,
       Holds, InUse
<1>3. ASSUME NEW k \in LRs, ~InUse(k), lrs' = [lrs EXCEPT ![k] = InjectedLr(TimerIrq, TRUE)]
      PROVE  AInv'
    <2>1. /\ \A i \in LRs: i # k => lrs'[i] = lrs[i]
          /\ lrs'[k] = InjectedLr(TimerIrq, TRUE)
          /\ Told' = Told
        BY <1>3, Injected
    <2>2. lrs'[k].hw
        BY <2>1 DEF InjectedLr
    <2>3. GuestType'
        BY <1>1, <2>1, <2>2 DEF GuestType, InUse
    <2>4. \A i \in LRs: Holds(i, TimerIrq) => i # k /\ Holds(i, TimerIrq)'
                                              /\ (Pending(i)' <=> Pending(i))
        BY <1>3, <2>1 DEF Holds, Pending, InUse
    <2>5. \A i \in LRs: i # k => (Holds(i, TimerIrq)' <=> Holds(i, TimerIrq))
        BY <2>1 DEF Holds, InUse
    <2>6. due /\ pc \in Registered
        BY <1>1 DEF TimerLine
    <2>7. TimerLine' /\ (Clean => CleanTimer)'
        BY <1>1, <2>4, <2>5, <2>6 DEF TimerLine, Clean, CleanTimer
    <2> QED BY <1>1, <2>1, <2>3, <2>7 DEF KeysTold, Acting
<1> QED BY <1>1, <1>2, <1>3, InjectionWrites DEF IInv

(* A VM that is stopped with an interrupt in a list register leaves it to the next. *)
LEMMA StartStopStep ==
    ASSUME IInv, AInv, Start \/ Stop
    PROVE  AInv'
<1> USE TimerFacts, AsteroidBounds DEF AInv
<1>1. CASE Start
    <2>1. rx' \in 0 .. RxSize /\ quiet' = rx' /\ pc' = "uart" /\ at' = "none" /\ irqTable' = {}
        BY <1>1 DEF Start, GuestType
    <2>2. ~running /\ UNCHANGED <<phPending, phEnabled, lrs, oneBit, fifo, due, left>>
        BY <1>1 DEF Start, StartVm, timer
    <2>3. TimerIrq \notin phEnabled
        BY <2>2 DEF IInv, StoppedLinesOff
    <2>4. Cardinality(Told)' \in Nat
        BY LrSets DEF Told
    <2> QED BY <2>1, <2>2, <2>3, <2>4 DEF GuestType, TimerLine, Clean, CleanTimer, KeysTold, Acting,
            Pending, Holds, InUse
<1>2. CASE Stop
    <2>1. /\ ~running' /\ phEnabled' = phEnabled \ Owned
          /\ left' = left \union {lrs[i].state : i \in LRs}
          /\ UNCHANGED <<phPending, lrs, oneBit, fifo, rx, pc, at, irqTable, due, quiet>>
        BY <1>2 DEF Stop, StopVm, guest, timer
    <2>2. Clean' => Clean /\ \A i \in LRs: ~InUse(i)
        BY <2>1 DEF Clean, InUse
    <2> QED BY <2>1, <2>2 DEF GuestType, TimerLine, CleanTimer, KeysTold, Pending, Holds, InUse
<1> QED BY <1>1, <1>2

-----------------------------------------------------------------------------
(* The steps of the guest. *)

(* The line and the bit that Register_IRq_Handler writes for the UART name the UART. *)
LEMMA UartWord ==
    /\ ~(UartIrq < FirstSPI)
    /\ OneLine({UartIrq % WordSize})
    /\ FirstLine(UartIrq \div WordSize, {UartIrq % WordSize}) = UartIrq
<1> DEFINE b == UartIrq % WordSize
           w == UartIrq \div WordSize
<1>1. b \in 0 .. WordSize - 1 /\ w \in Nat /\ w * WordSize + b = UartIrq
    BY TimerFacts, GicSizes DEF Lines
<1>2. OneLine({b})
    BY <1>1 DEF OneLine
<1>3. WordLines(w, {b}) = {FirstLine(w, {b})}
    BY <1>1, <1>2, OneBitWrite
<1>4. FirstLine(w, {b}) = UartIrq
    BY <1>1, <1>3 DEF WordLines
<1>5. ~(UartIrq < FirstSPI)
    BY TimerFacts, GicSizes DEF FirstSPI, Lines
<1> QED BY <1>2, <1>4, <1>5

LEMMA BootStep ==
    ASSUME IInv, AInv, Boot
    PROVE  AInv'
<1> USE TimerFacts DEF AInv
<1>1. /\ running /\ at = "none"
      /\ UNCHANGED <<running, lrs, fifo, rx, at, quiet, left>>
    <2>1. CASE RegisterUart \/ RegisterTimer
        BY <2>1 DEF RegisterUart, RegisterTimer, Main, Register_IRq_Handler, RedistSetEnable,
           DistSetEnable
    <2>2. CASE LocalIRqEnable \/ TimerOff \/ TimerOn
        BY <2>2 DEF LocalIRqEnable, TimerOff, TimerOn, Main, vars
    <2> QED BY <2>1, <2>2 DEF Boot
<1>2. KeysTold'
    BY <1>1 DEF KeysTold, Told, Acting, Pending
<1>3. oneBit' = TRUE
    <2>1. CASE LocalIRqEnable \/ TimerOff \/ TimerOn
        BY <2>1 DEF LocalIRqEnable, TimerOff, TimerOn, GuestType, vars
    <2>2. CASE RegisterTimer
        <3>1. TimerIrq \in 0 .. WordSize - 1
            BY GicSizes DEF Lines, FirstSPI
        <3>2. OneLine({TimerIrq})
            BY <3>1 DEF OneLine
        <3> QED BY <2>2, <3>2 DEF RegisterTimer, Register_IRq_Handler, RedistSetEnable, GuestType
    <2>3. CASE RegisterUart
        <3>1. ~(UartIrq < FirstSPI) /\ OneLine({UartIrq % WordSize})
            BY UartWord
        <3> QED BY <2>3, <3>1 DEF RegisterUart, Register_IRq_Handler, DistSetEnable, GuestType
    <2> QED BY <2>1, <2>2, <2>3 DEF Boot
<1>4. GuestType'
    <2>1. /\ irqTable' \subseteq {UartIrq, TimerIrq}
          /\ pc' # "uart" => UartIrq \in irqTable'
        BY DEF Boot, RegisterUart, LocalIRqEnable, TimerOff, RegisterTimer, TimerOn, Main,
           Register_IRq_Handler, GuestType
    <2> QED BY <1>1, <1>3, <2>1 DEF GuestType, InUse
<1>5. ASSUME UNCHANGED <<phPending, phEnabled, due>>, pc \in Registered => pc' \in Registered
      PROVE  TimerLine' /\ (Clean => CleanTimer)'
    BY <1>1, <1>5 DEF TimerLine, Clean, CleanTimer, Pending, Holds, InUse
<1>6. CASE RegisterUart
    <2>1. PhysicalSPI(UartIrq \div WordSize, {UartIrq % WordSize}) = {}
        BY UartWord DEF PhysicalSPI
    <2>2. ~(UartIrq < FirstSPI)
        BY UartWord
    <2>3. UNCHANGED <<phPending, phEnabled, due>> /\ pc = "uart"
        BY <1>6, <2>1, <2>2 DEF RegisterUart, Main, Register_IRq_Handler, DistSetEnable, timer
    <2> QED BY <1>2, <1>4, <1>5, <2>3 DEF Registered
<1>7. CASE LocalIRqEnable \/ TimerOn
    BY <1>2, <1>4, <1>5, <1>7 DEF LocalIRqEnable, TimerOn, Main, vars, timer, Registered
<1>8. CASE TimerOff
    <2>1. /\ pc \notin Registered /\ TimerIrq \notin phPending' /\ phEnabled' = phEnabled
        BY <1>8 DEF TimerOff, Main, Registered, Withdrawn
    <2>2. TimerLine' /\ (Clean => CleanTimer)'
        BY <1>1, <2>1 DEF TimerLine, Clean, CleanTimer, Pending, Holds, InUse
    <2> QED BY <1>2, <1>4, <2>2
<1>9. CASE RegisterTimer
    <2>1. pc' \in Registered /\ UNCHANGED <<phPending, due>>
        BY <1>9 DEF RegisterTimer, Main, Registered, timer, Register_IRq_Handler, RedistSetEnable
    <2>2. TimerLine' /\ (Clean => CleanTimer)'
        BY <1>1, <2>1 DEF TimerLine, Clean, CleanTimer, Pending, Holds, InUse
    <2> QED BY <1>2, <1>4, <2>2
<1> QED BY <1>6, <1>7, <1>8, <1>9 DEF Boot

LEMMA AcknowledgeStep ==
    ASSUME IInv, AInv, NEW k \in LRs, Acknowledge(k)
    PROVE  AInv'
<1> USE TimerFacts DEF AInv
<1>1. /\ running /\ at \in {"none", "eret"} /\ pc # "uart" /\ at' = Entry(lrs[k].nr)
      /\ Pending(k) /\ lrs' = [lrs EXCEPT ![k].state = "active"]
      /\ UNCHANGED <<running, phPending, phEnabled, oneBit, fifo, rx, pc, irqTable, due, quiet,
                     left>>
    BY DEF Acknowledge, Unmasked, GuestAck, Pending, timer
<1>2. /\ \A i \in LRs: i # k => lrs'[i] = lrs[i]
      /\ lrs'[k].state = "active" /\ lrs'[k].nr = lrs[k].nr /\ lrs'[k].hw = lrs[k].hw
      /\ InUse(k) /\ InUse(k)' /\ ~Pending(k)'
    BY <1>1 DEF IInv, TypeOK, Lr, InUse, Pending
<1>3. \A i \in LRs: Holds(i, TimerIrq)' <=> Holds(i, TimerIrq)
    BY <1>2 DEF Holds, InUse
<1>4. GuestType'
    BY <1>1, <1>2 DEF GuestType, InUse
<1>5. at' = "tick" => Holds(k, TimerIrq)
    <2>1. ASSUME at' = "tick" PROVE lrs[k].nr = TimerIrq
        BY <1>1, <2>1 DEF Entry, GuestType
    <2> QED BY <1>2, <2>1 DEF GuestType, Holds
<1>6. TimerLine' /\ (Clean => CleanTimer)'
    <2>1. \A i \in LRs: Pending(i)' => Pending(i)
        BY <1>2 DEF Pending
    <2> QED BY <1>1, <1>2, <1>3, <1>5, <2>1 DEF TimerLine, Clean, CleanTimer
<1>7. CASE lrs[k].nr = UartIrq
    <2>1. at' = "ris"
        BY <1>1, <1>7 DEF Entry, GuestType
    <2>2. k \in Told /\ Told' = Told \ {k}
        BY <1>1, <1>2, <1>7 DEF Told, Pending
    <2>3. Cardinality(Told') = Cardinality(Told) - 1
        BY <2>2, ToldSize, FS_RemoveElement
    <2> QED BY <1>1, <1>4, <1>6, <2>1, <2>3, ToldSize DEF KeysTold, Acting, GuestType
<1>8. CASE lrs[k].nr # UartIrq
    <2>1. Told' = Told
        BY <1>2, <1>8 DEF Told, Pending
    <2> QED BY <1>1, <1>4, <1>6, <2>1, ToldSize DEF KeysTold, Acting, GuestType
<1> QED BY <1>7, <1>8

LEMMA HandlerStep ==
    ASSUME IInv, AInv, \/ ReadRIS \/ ReadTDR \/ Tick \/ DropPriority \/ Return
                       \/ \E i \in LRs: Deactivate(i)
    PROVE  AInv'
<1> USE TimerFacts, AsteroidBounds DEF AInv
<1>1. CASE ReadRIS \/ ReadTDR \/ DropPriority \/ Return
    <2>1. UNCHANGED <<running, phPending, phEnabled, lrs, oneBit, fifo, pc, irqTable, due, quiet,
                      left>>
        BY <1>1 DEF ReadRIS, ReadTDR, DropPriority, Return, vars, timer
    <2>2. /\ at' # "tick"
          /\ rx' \in 0 .. RxSize
          /\ rx' = 0 \/ rx' + Acting <= rx + Acting'
        BY <1>1 DEF ReadRIS, ReadTDR, DropPriority, Return, In, Least, Acting, GuestType
    <2>3. Told' = Told /\ Acting \in {0, 1} /\ Acting' \in {0, 1}
        BY <2>1 DEF Told, Pending, Acting
    <2>4. ASSUME running PROVE rx' <= quiet + Cardinality(Told) + Acting'
        <3>1. /\ rx <= quiet + Cardinality(Told) + Acting
              /\ {rx, rx', quiet} \subseteq Nat /\ Cardinality(Told) \in Nat
            BY <2>2, <2>4, ToldSize DEF KeysTold, GuestType
        <3>2. Acting \in Nat /\ Acting' \in Nat
            BY <2>3
        <3>3. CASE rx' = 0
            BY <3>1, <3>2, <3>3
        <3>4. CASE rx' + Acting <= rx + Acting'
            BY <3>1, <3>2, <3>4
        <3> QED BY <2>2, <3>3, <3>4
    <2>5. KeysTold'
        BY <2>1, <2>3, <2>4 DEF KeysTold
    <2> QED BY <2>1, <2>2, <2>5 DEF GuestType, TimerLine, Clean, CleanTimer, Pending, Holds, InUse
<1>2. CASE Tick
    <2>1. /\ at = "tick" /\ at' = "eoi" /\ running
          /\ due' = TRUE \/ phPending' = phPending \ {TimerIrq}
          /\ UNCHANGED <<running, phEnabled, lrs, oneBit, fifo, rx, pc, irqTable, quiet, left>>
        BY <1>2 DEF Tick, In, Withdrawn
    <2>2. GuestType' /\ KeysTold' /\ TimerLine'
        BY <2>1 DEF GuestType, KeysTold, Told, Acting, Pending, TimerLine, InUse
    <2>3. Clean => \A i \in LRs: Holds(i, TimerIrq) => ~Pending(i)
        <3> SUFFICES ASSUME Clean, NEW i \in LRs, Holds(i, TimerIrq) PROVE ~Pending(i)
            OBVIOUS
        <3>1. PICK k \in LRs: Holds(k, TimerIrq) /\ ~Pending(k)
            BY <2>1 DEF CleanTimer
        <3> QED BY <3>1 DEF IInv, HwLineInOneLr, Holds
    <2>4. (Clean => CleanTimer)'
        BY <2>1, <2>3 DEF Clean, CleanTimer, Pending, Holds, InUse
    <2> QED BY <2>2, <2>4
<1>3. ASSUME NEW k \in LRs, Deactivate(k) PROVE AInv'
    <2>1. /\ at = "dir" /\ at' = "eret" /\ running
          /\ lrs[k].state = "active" /\ lrs' = [lrs EXCEPT ![k].state = "invalid"]
          /\ UNCHANGED <<running, phPending, phEnabled, oneBit, fifo, rx, pc, irqTable, due, quiet,
                         left>>
        BY <1>3 DEF Deactivate, In, GuestDeactivate, timer
    <2>2. /\ \A i \in LRs: i # k => lrs'[i] = lrs[i]
          /\ lrs'[k].state = "invalid"
        BY <2>1 DEF IInv, TypeOK, Lr
    <2>3. Told' = Told /\ Acting' = Acting
        BY <2>1, <2>2 DEF Told, Pending, Acting
    <2>4. GuestType' /\ KeysTold' /\ TimerLine'
        BY <2>1, <2>2, <2>3 DEF GuestType, KeysTold, TimerLine, InUse
    <2>5. (Clean => CleanTimer)'
        BY <2>1, <2>2 DEF Clean, CleanTimer, Pending, Holds, InUse
    <2> QED BY <2>4, <2>5
<1> QED BY <1>1, <1>2, <1>3

-----------------------------------------------------------------------------
LEMMA CauseStep == IInv /\ AInv /\ [NextAsteroid]_asteroidVars => AInv'
<1> SUFFICES ASSUME IInv, AInv, [NextAsteroid]_asteroidVars PROVE AInv'
    OBVIOUS
<1>1. CASE Loop \/ UNCHANGED asteroidVars
    <2>1. UNCHANGED <<running, phPending, phEnabled, lrs, oneBit, fifo, rx, pc, at, irqTable, due,
                      quiet, left>>
        BY <1>1 DEF Loop, asteroidVars, vars, guest, timer
    <2>2. Told' = Told /\ Acting' = Acting
        BY <2>1 DEF Told, Pending, Acting
    <2> QED BY <2>1, <2>2 DEF AInv, GuestType, TimerLine, Clean, CleanTimer, KeysTold, Pending,
            Holds, InUse
<1>2. CASE Handler
    BY <1>2, AcknowledgeStep, HandlerStep DEF Handler
<1> QED
    BY <1>1, <1>2, OutsideStep, UartStep, TimerStep, StartStopStep, BootStep DEF NextAsteroid

LEMMA CauseInvariance == SpecAsteroid => []AInv
<1>1. InitAsteroid => AInv
    <2>1. InitAsteroid => \A i \in LRs: ~InUse(i)
        BY EmptyType DEF InitAsteroid, Init, InUse
    <2> QED BY <2>1, AsteroidBounds DEF InitAsteroid, Init, AInv, GuestType, TimerLine, CleanTimer,
            KeysTold, Holds
<1> QED BY <1>1, CauseStep, GicInvariance, PTL DEF SpecAsteroid

(* No key waits in Saturn's buffer that the guest was not told of, but those the code never *)
(* tells it of, and no tick is counted before the timer is due, unless an earlier VM was    *)
(* stopped with an interrupt in a list register: HandleIRq's one notification and the TBD   *)
(* of GicVirtIC::Stop are the only exceptions.                                              *)
THEOREM CausesKept == SpecAsteroid => []InterruptsHaveCause
<1>1. AInv => InterruptsHaveCause
    <2> SUFFICES ASSUME AInv PROVE InterruptsHaveCause
        OBVIOUS
    <2>1. Announced = Cardinality(Told) + Acting
        BY DEF Announced, Told, Pending, Acting
    <2>2. running => rx <= quiet + Announced
        BY <2>1, ToldSize DEF AInv, KeysTold, GuestType, Acting
    <2> QED BY <2>2 DEF InterruptsHaveCause, AInv, Clean, CleanTimer
<1> QED BY <1>1, CauseInvariance, PTL

(* Asteroid writes one bit a time, so none of its lines is ever lost, whenever it is stopped. *)
THEOREM AsteroidLosesNothing ==
    SpecAsteroid => [](fault \/ \A l \in phActive: \E i \in LRs: Holds(i, l))
<1>1. AInv /\ Heard => fault \/ \A l \in phActive: \E i \in LRs: Holds(i, l)
    BY DEF AInv, GuestType, Heard, NoLineLost
<1> QED BY <1>1, CauseInvariance, GicInvariance, PTL
==============================================================================
