----------------------------- MODULE Partitions -----------------------------
(***************************************************************************)
(* What the plugin announces of one GPU under DynamicMIG (KEP 4815,        *)
(* partitionable devices): the full GPU and every profile at every         *)
(* placement, with the counters of one shared counter set that each of     *)
(* them consumes.  The scheduler allocates by these counters alone.        *)
(*                                                                         *)
(* A MIG spec is its MigSpecTuple <<profile, placement start>>.  A counter *)
(* set is a record: the counters derived from capacities, and the memory   *)
(* slices, each a counter of value 1.  Attributes are left out.            *)
(***************************************************************************)
EXTENDS Integers, FiniteSetsExt

CONSTANTS
    Profiles,     \* MIG profiles NVML visits
    ProfileInfo,  \* what NVML says of each
    Dims,         \* dimensions of capacity (multiprocessors, memory, ...)
    FullGpu       \* the device that is the whole GPU

ASSUME PartitionsAssumption ==
    /\ ProfileInfo \in [Profiles -> [c : Nat, g : Nat, rev1 : BOOLEAN,
                                     starts : SUBSET Nat, size : Nat \ {0},
                                     caps : [Dims -> Nat]]]
    /\ FullGpu \notin Profiles \X Nat

\* inspectMigProfilesAndPlacements takes one compute instance per GPU instance.
\* Profiles the GPU does not support have no placement.
Inspected == {p \in Profiles : ProfileInfo[p].c = ProfileInfo[p].g /\ ~ProfileInfo[p].rev1}

MigSpecs == UNION {{<<p, s>> : s \in ProfileInfo[p].starts} : p \in Inspected}

Devs == MigSpecs \cup {FullGpu}

ASSUME FiniteAssumption == IsFiniteSet(Devs)

PlacementStart(m) == m[2]
PlacementSize(m) == ProfileInfo[m[1]].size
PartCapacities(m) == ProfileInfo[m[1]].caps

\* Fault: a dimension keeps the first value seen, which is the smallest.
FirstSeen(k) == Min({PartCapacities(m)[k] : m \in MigSpecs})

\* setMax over all specs.
SetMax(k) == Max({PartCapacities(m)[k] : m \in MigSpecs})

MaxCapacities == [k \in Dims |-> SetMax(k)]

\* The largest placement is taken to cover all memory slices.
MemSliceCount == Max({PlacementSize(m) : m \in MigSpecs})

\* Fault: the first slice of a placement is not counted.
CountersAfterFirstSlice(caps, start, size) ==
    [caps |-> caps, mem |-> (start + 1)..(start + size - 1)]

AddCountersForMemSlices(caps, start, size) ==
    [caps |-> caps, mem |-> start..(start + size - 1)]

PartSharedCounterSet == AddCountersForMemSlices(MaxCapacities, 0, MemSliceCount)

PartConsumesCounters(d) ==
    IF d = FullGpu
    THEN AddCountersForMemSlices(MaxCapacities, 0, MemSliceCount)
    ELSE AddCountersForMemSlices(PartCapacities(d), PlacementStart(d), PlacementSize(d))

\* The scheduler gives out a set of devices if no counter is overdrawn; a
\* counter that is not in the set has nothing to give.
CountersAllow(S) ==
    /\ \A k \in Dims :
        MapThenSumSet(LAMBDA d : PartConsumesCounters(d).caps[k], S)
            <= PartSharedCounterSet.caps[k]
    /\ \A i \in UNION {PartConsumesCounters(d).mem : d \in S} :
        /\ i \in PartSharedCounterSet.mem
        /\ Cardinality({d \in S : i \in PartConsumesCounters(d).mem}) = 1

\* The memory slices a device occupies on the GPU, as NVML has it.
Slices(m) == PlacementStart(m)..(PlacementStart(m) + PlacementSize(m) - 1)
Region(d) == IF d = FullGpu THEN UNION {Slices(m) : m \in MigSpecs} ELSE Slices(d)
PlacementsOverlap(d, e) == Region(d) \cap Region(e) # {}
=============================================================================
