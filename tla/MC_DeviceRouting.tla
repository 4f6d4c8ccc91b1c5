------------------------- MODULE MC_DeviceRouting -------------------------
(***************************************************************************)
(* DeviceRouting for TLC: two interfaces, two devices.                     *)
(***************************************************************************)
EXTENDS DeviceRouting, TLC

CONSTANTS w1, w2, d1, d2

\* Each device on an interface of its own: two separate networks.
Separate == w1 :> {d1} @@ w2 :> {d2}

\* d2 answers on both interfaces.
Overlapping == w1 :> {d1, d2} @@ w2 :> {d2}
=============================================================================
