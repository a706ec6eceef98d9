--------------------------- MODULE MCDeviceState ---------------------------
(* Small instances of DeviceState for TLC.                                  *)
EXTENDS DeviceStateInv, TLC

CONSTANTS c1, c2, q1, q2, w1, w2

\* Both claims carry the same name: c2 replaces c1 after its deletion.
SameName == [c \in Claims |-> c1]

\* Every claim has a name of its own.
OwnNames == [c \in Claims |-> c]

\* Handlers are interchangeable, and so are pods.
Symmetry == Permutations(Workers) \cup Permutations(Pods)
=============================================================================
