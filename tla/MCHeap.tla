-------------------------------- MODULE MCHeap --------------------------------
(***************************************************************************)
(* Three pools, as pool16, pool32 and pool4k, and three traps whose nodes  *)
(* take their blocks from the last two; two of the regions touch.          *)
(***************************************************************************)
EXTENDS Heap

SmallTraps == {"vGicDist", "vGicRedist", "vUart"}

SmallRegion == [t \in SmallTraps |->
    CASE t = "vGicDist"   -> [base |-> 8, size |-> 8]
      [] t = "vGicRedist" -> [base |-> 16, size |-> 16]
      [] t = "vUart"      -> [base |-> 40, size |-> 8]]

SmallAddresses == 0 .. 55
=============================================================================
