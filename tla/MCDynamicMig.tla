---------------------------- MODULE MCDynamicMig ----------------------------
(* Instances of DynamicMig for TLC.                                         *)
EXTENDS DynamicMig, TLC

CONSTANTS c1, c2, c3

\* A GPU of four memory slices, with a profile of one compute instance out of
\* two, which is not announced.
Table ==
    "1g" :> [c |-> 1, g |-> 1, rev1 |-> FALSE, starts |-> 0..3, size |-> 1,
             caps |-> [sm |-> 14, mem |-> 6, dec |-> 0]] @@
    "2g" :> [c |-> 2, g |-> 2, rev1 |-> FALSE, starts |-> {0, 2}, size |-> 2,
             caps |-> [sm |-> 28, mem |-> 12, dec |-> 2]] @@
    "4g" :> [c |-> 4, g |-> 4, rev1 |-> FALSE, starts |-> {0}, size |-> 4,
             caps |-> [sm |-> 56, mem |-> 24, dec |-> 4]] @@
    "1c2g" :> [c |-> 1, g |-> 2, rev1 |-> FALSE, starts |-> {0, 2}, size |-> 2,
               caps |-> [sm |-> 28, mem |-> 12, dec |-> 2]]

\* c1 takes two devices; c2 competes for one of them, with admin access to the
\* whole GPU besides; c3 wants a placement that overlaps the other.
Allocation == c1 :> {<<"1g", 0>>, <<"1g", 2>>} @@ c2 :> {<<"1g", 2>>, FullGpu} @@ c3 :> {<<"2g", 0>>}
AdminAccess == c1 :> {} @@ c2 :> {FullGpu} @@ c3 :> {}

\* Two claims on two devices that have nothing to do with each other.
Disjoint == c1 :> {<<"1g", 0>>} @@ c2 :> {<<"1g", 2>>}
NoAdmin == c1 :> {} @@ c2 :> {}

\* NVML's ids are names: nothing in the plugin orders them.
IdSymmetry == Permutations(Ids)
=============================================================================
