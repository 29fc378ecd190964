----------------------------- MODULE VmContract -----------------------------
(***************************************************************************)
(* What Saturn promises about its one virtual machine, with no console, no *)
(* interrupt handler and no start-up sequence: who owns the CPU, whether   *)
(* the VM exists, and which of its resources are held.  Hypervisor.tla is  *)
(* shown to implement it.                                                  *)
(***************************************************************************)
CONSTANTS
    Resources,  \* what a guest needs before it may execute
    Kept        \* the resources that survive the VM that acquired them

VARIABLES
    vm,         \* "off", "on", or "stopping" between the request and the stop
    owner,      \* the CPU executes the hypervisor ("hyp"), the guest, or nothing ("dead")
    held        \* the resources acquired so far

vars == <<vm, owner, held>>

Init ==
    /\ vm = "off"
    /\ owner = "hyp"
    /\ held = {}

\* Resources are acquired only for a VM that does not run yet, one step after another.
Acquire ==
    /\ vm = "off"
    /\ owner = "hyp"
    /\ held' \in SUBSET Resources
    /\ held \subseteq held'
    /\ UNCHANGED <<vm, owner>>

\* A VM is declared running only once every resource is held.
Launch ==
    /\ vm = "off"
    /\ owner = "hyp"
    /\ held = Resources
    /\ vm' = "on"
    /\ UNCHANGED <<owner, held>>

\* The CPU enters the guest only while the VM is on.
Enter ==
    /\ vm = "on"
    /\ owner = "hyp"
    /\ owner' = "guest"
    /\ UNCHANGED <<vm, held>>

Leave ==
    /\ owner = "guest"
    /\ owner' = "hyp"
    /\ UNCHANGED <<vm, held>>

Request ==
    /\ vm = "on"
    /\ owner = "hyp"
    /\ vm' = "stopping"
    /\ UNCHANGED <<owner, held>>

\* Everything but what is kept is given back in one step, with the guest out of the CPU.
Release ==
    /\ vm = "stopping"
    /\ owner = "hyp"
    /\ vm' = "off"
    /\ held' = held \intersect Kept
    /\ UNCHANGED owner

\* A fault stops the machine for good.
Die ==
    /\ owner # "dead"
    /\ owner' = "dead"
    /\ UNCHANGED <<vm, held>>

Next == Acquire \/ Launch \/ Enter \/ Leave \/ Request \/ Release \/ Die

Spec == Init /\ [][Next]_vars
=============================================================================
