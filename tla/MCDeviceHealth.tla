--------------------------- MODULE MCDeviceHealth ---------------------------
(* Instances of DeviceHealth for TLC.                                       *)
EXTENDS DeviceHealth, TLC

CONSTANTS g1, g2, m1

\* A full GPU, and a MIG device that fills another one: instance ids 0 and 0.
WholeGpus == (g1 :> g1) @@ (m1 :> g2)
WholeGi == (g1 :> Full) @@ (m1 :> 0)
WholeCi == (g1 :> Full) @@ (m1 :> 0)

\* A MIG device that takes a part of its GPU: the only compute instance, with
\* id 0, of the GPU instance 1.
PartGi == (g1 :> Full) @@ (m1 :> 1)
=============================================================================
