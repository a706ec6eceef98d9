--------------------------- MODULE MCPassthrough ----------------------------
(* Instances of Passthrough for TLC.                                        *)
EXTENDS Passthrough

\* One device per claim, of either kind.
OneDevice == {{d} : d \in Devices}
=============================================================================
