----------------------------- MODULE MCDevices -----------------------------
(* Devices on the offsets where the register maps begin, end and meet. *)
EXTENDS Devices

MCOffsets ==
    [dist   |-> {0, 4, 156, 160, 256, 260, 388, 768, 896, 1276, 1280, 3132, 24832, 24836, 26872, 65512,
                 65532},
     redist |-> {0, 8, 256, 65512, 65792},
     uart   |-> {0, 24, 48, 56, 60, 4076, 4092}]

MCX0 == {Word({1, 16}), [lo |-> {0, 1}, hi |-> {0}]}
=============================================================================
