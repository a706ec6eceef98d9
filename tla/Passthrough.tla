---------------------------- MODULE Passthrough -----------------------------
(***************************************************************************)
(* GPUs handed to virtual machines (feature gate PassthroughSupport,       *)
(* HAMiCoreSupport off): every physical GPU may be announced as a full GPU *)
(* and as a vfio device.  Prepare of a vfio claim takes the GPU from the   *)
(* nvidia driver and binds it to vfio-pci, Unprepare takes it back; the    *)
(* sibling of a prepared device leaves the set of allocatable devices and  *)
(* comes back with Unprepare; after each call the ResourceSlice is         *)
(* published again.  Every step may fail and the plugin may crash.         *)
(*                                                                         *)
(* Abstractions.  All operations run under the prepare/unprepare lock      *)
(* (DeviceState models it), so one is under way at a time; the publish at  *)
(* startup runs beside them.  No GPU is in MIG mode (vfioEnabled holds), no *)
(* claim has admin access.  CDI spec and final checkpoint write are one    *)
(* step.  Nobody else binds drivers.                                       *)
(***************************************************************************)
EXTENDS Integers

CONSTANTS
    Claims,       \* ResourceClaim UIDs
    Gpus,         \* physical GPUs, by PCI address
    None,
    Allocations,  \* the sets of devices a claim may ask for
    UnbindLock,   \* may the nvidia driver have an unbindLock file: a set of BOOLEANs
    MaxFaults,    \* bound on failed steps
    MaxCrashes    \* bound on crashes of the plugin

Devices == Gpus \X {"gpu", "vfio"}

ASSUME PassthroughAssumption ==
    /\ Allocations \subseteq (SUBSET Devices) \ {{}}
    /\ UnbindLock \in SUBSET BOOLEAN
    /\ None \notin Claims \cup Gpus \cup Devices
    /\ MaxFaults \in Nat /\ MaxCrashes \in Nat

VARIABLES
    driver,       \* the driver each GPU is bound to
    lockFile,     \* the nvidia driver has an unbindLock file for its GPUs
    \* Checkpoint and API server.
    cp,           \* state of each claim's entry
    alloc,        \* devices allocated to each claim
    slice,        \* published devices
    \* The plugin process.
    allocatable,
    boot,         \* the publish at startup: its snapshot, or None when done
    pc, op, claim,
    todo,         \* devices the current loop has yet to look at
    dev,          \* the device whose driver is being changed
    \* The kubelet.
    kub,
    faults, crashes

api == <<cp, alloc, slice>>
proc == <<pc, op, claim, todo, dev>>
count == <<faults, crashes>>
vars == <<driver, lockFile, api, allocatable, boot, proc, kub, count>>

PassthroughTypeOK ==
    /\ driver \in [Gpus -> {"nvidia", "vfio-pci", "none"}]
    /\ lockFile \in BOOLEAN
    /\ cp \in [Claims -> {"absent", "started", "completed"}]
    /\ alloc \in [Claims -> Allocations \cup {{}}]
    /\ slice \subseteq Devices /\ allocatable \subseteq Devices
    /\ boot = None \/ boot \subseteq Devices
    /\ pc \in {"down", "idle", "begin", "lookup", "configure", "lock", "unbind", "bind",
               "siblings", "unconfigure", "discover", "forget", "publish"}
    /\ op \in {"none", "prepare", "unprepare"}
    /\ claim \in Claims \cup {None}
    /\ todo \subseteq Devices /\ dev \in Devices \cup {None}
    /\ kub \in [Claims -> {"idle", "wants", "running", "stopping"}]
    /\ faults \in 0..MaxFaults /\ crashes \in 0..MaxCrashes

Init ==
    /\ driver = [g \in Gpus |-> "nvidia"]
    /\ lockFile \in UnbindLock
    /\ cp = [c \in Claims |-> "absent"]
    /\ alloc = [c \in Claims |-> {}]
    /\ slice = {} /\ allocatable = {} /\ boot = None
    /\ pc = "down" /\ op = "none" /\ claim = None /\ todo = {} /\ dev = None
    /\ kub = [c \in Claims |-> "idle"]
    /\ faults = 0 /\ crashes = 0

-----------------------------------------------------------------------------
(* Devices                                                                  *)

Pci(d) == d[1]
Type(d) == d[2]
Gpu(g) == <<g, "gpu">>
Vfio(g) == <<g, "vfio">>
Sibling(d) == IF Type(d) = "gpu" THEN Vfio(Pci(d)) ELSE Gpu(Pci(d))

VfioDevices(c) == {d \in alloc[c] : Type(d) = "vfio"}

\* GetPerGpuAllocatableDevices: NVML sees the GPUs of the nvidia driver.
GetPerGpuAllocatableDevices == {Gpu(g) : g \in {h \in Gpus : driver[h] = "nvidia"}}

\* enumerateGpuPciDevices: the parents are looked up in a flattened copy of
\* the map just created, not of the argument.
EnumerateGpuPciDevices(devs) ==
    LET perGPUAllocatable == {}
        all == perGPUAllocatable
    IN  {Vfio(g) : g \in {h \in Gpus : Gpu(h) \in all}}

EnumerateAllPossibleDevices ==
    GetPerGpuAllocatableDevices \cup EnumerateGpuPciDevices(GetPerGpuAllocatableDevices)

\* Fault: entries that are under way count, completed ones do not.
OverlapsStarted(c) ==
    \E o \in Claims \ {c} : cp[o] = "started" /\ alloc[o] \cap alloc[c] # {}

\* validateNoOverlappingPreparedDevices compares device names.
Overlaps(c) ==
    \E o \in Claims \ {c} : cp[o] = "completed" /\ alloc[o] \cap alloc[c] # {}

-----------------------------------------------------------------------------
(* The plugin process                                                       *)

Idle == op' = "none" /\ claim' = None /\ todo' = {} /\ dev' = None

Goto(s) == pc' = s /\ UNCHANGED <<op, claim>>

\* NewDeviceState enumerates the devices; the gRPC server then takes requests
\* while publishResources has read the devices and not yet published them.
Start ==
    /\ pc = "down"
    /\ allocatable' = EnumerateAllPossibleDevices
    /\ boot' = allocatable'
    /\ pc' = "idle"
    /\ UNCHANGED <<lockFile, driver, api, op, claim, todo, dev, kub, count>>

BootPublish ==
    /\ boot # None
    /\ slice' = boot /\ boot' = None
    /\ UNCHANGED <<lockFile, driver, cp, alloc, allocatable, proc, kub, count>>

Crash ==
    /\ pc # "down"
    /\ crashes < MaxCrashes
    /\ crashes' = crashes + 1
    /\ pc' = "down" /\ boot' = None /\ allocatable' = {}
    /\ Idle
    /\ UNCHANGED <<lockFile, driver, api, kub, faults>>

Call(c, o) ==
    /\ pc = "idle"
    /\ pc' = "begin" /\ op' = o /\ claim' = c
    /\ UNCHANGED <<lockFile, driver, api, allocatable, boot, todo, dev, kub, count>>

CallPrepare(c) == kub[c] \in {"wants", "running"} /\ Call(c, "prepare")
CallUnprepare(c) == kub[c] = "stopping" /\ Call(c, "unprepare")

Fail == pc' = "idle" /\ Idle /\ UNCHANGED <<api, kub>>

\* Any call to the outside fails: checkpoint, PCI lookup, VFs on the GPU, the
\* wait for the GPU's users, CDI spec, publish.
StepFails ==
    /\ pc \notin {"down", "idle", "lookup", "bind"}
    /\ faults < MaxFaults /\ faults' = faults + 1
    /\ Fail
    /\ UNCHANGED <<lockFile, driver, allocatable, boot, crashes>>

\* The ResourceSlice is published before the call is answered.
Publish ==
    /\ pc = "publish"
    /\ slice' = allocatable
    /\ pc' = "idle" /\ Idle
    /\ kub' = [kub EXCEPT ![claim] = CASE op = "prepare" /\ @ = "wants" -> "running"
                                       [] op = "unprepare" -> "idle"
                                       [] OTHER -> @]
    /\ alloc' = IF op = "unprepare" THEN [alloc EXCEPT ![claim] = {}] ELSE alloc
    /\ UNCHANGED <<lockFile, driver, cp, allocatable, boot, count>>

-----------------------------------------------------------------------------
(* The scheduler and the kubelet                                            *)

\* The scheduler goes by the slice; two claims may get the same device.
PodArrives(c, s) ==
    /\ kub[c] = "idle"
    /\ s \in Allocations /\ s \subseteq slice
    /\ kub' = [kub EXCEPT ![c] = "wants"]
    /\ alloc' = [alloc EXCEPT ![c] = s]
    /\ UNCHANGED <<lockFile, driver, cp, slice, allocatable, boot, proc, count>>

PodStops(c) ==
    /\ kub[c] \in {"wants", "running"}
    /\ claim # c
    /\ kub' = [kub EXCEPT ![c] = "stopping"]
    /\ UNCHANGED <<lockFile, driver, api, allocatable, boot, proc, count>>

-----------------------------------------------------------------------------
(* VfioPciManager.Configure and Unconfigure                                 *)

Target == IF op = "prepare" THEN "vfio-pci" ELSE "nvidia"

Rebinding == pc \in {"configure", "unconfigure"}
Loop == IF op = "prepare" THEN "configure" ELSE "unconfigure"

\* getAllocatableVfioDevice, before every Unconfigure.
Found(d) == pc = "unconfigure" => d \in allocatable

\* Fault: a GPU that is bound already is an error.
AlreadyBoundRefused(d) ==
    /\ Rebinding /\ d \in todo
    /\ Found(d) /\ driver[Pci(d)] = Target
    /\ Fail
    /\ UNCHANGED <<lockFile, driver, allocatable, boot, count>>

AlreadyBound(d) ==
    /\ Rebinding /\ d \in todo
    /\ Found(d) /\ driver[Pci(d)] = Target
    /\ todo' = todo \ {d}
    /\ UNCHANGED <<lockFile, driver, api, allocatable, boot, pc, op, claim, dev, kub, count>>

\* getDriver fails for a GPU without a driver.
RebindRefused(d) ==
    /\ Rebinding /\ d \in todo
    /\ ~Found(d) \/ driver[Pci(d)] = "none"
    /\ Fail
    /\ UNCHANGED <<lockFile, driver, allocatable, boot, count>>

\* Configure has waited for the users of the GPU (a container with no open file
\* is none) and looked for VFs; Unconfigure starts at once.
ChangeDriver(d) ==
    /\ Rebinding /\ d \in todo
    /\ Found(d) /\ driver[Pci(d)] \notin {Target, "none"}
    /\ dev' = d
    /\ Goto("lock")
    /\ UNCHANGED <<lockFile, driver, api, allocatable, boot, todo, kub, count>>

\* unbind_from_driver.sh: the lock is wanted for the nvidia driver only.
UnbindWithoutLock ==
    /\ pc = "lock"
    /\ driver[Pci(dev)] # "nvidia" \/ ~lockFile
    /\ Goto("unbind")
    /\ UNCHANGED <<lockFile, driver, api, allocatable, boot, todo, dev, kub, count>>

\* acquire_unbind_lock writes to "{$unbind_lock_file}", a path with a brace, so
\* the lock file keeps its 0 through all retries.
UnbindLockRefused ==
    /\ pc = "lock"
    /\ driver[Pci(dev)] = "nvidia" /\ lockFile
    /\ Fail
    /\ UNCHANGED <<lockFile, driver, allocatable, boot, count>>

Unbind ==
    /\ pc = "unbind"
    /\ driver' = [driver EXCEPT ![Pci(dev)] = "none"]
    /\ Goto("bind")
    /\ UNCHANGED <<lockFile, api, allocatable, boot, todo, dev, kub, count>>

\* The script does not look at the result of the write to the unbind file.
UnbindIgnored ==
    /\ pc = "unbind"
    /\ faults < MaxFaults /\ faults' = faults + 1
    /\ Goto("bind")
    /\ UNCHANGED <<lockFile, driver, api, allocatable, boot, todo, dev, kub, crashes>>

Bind ==
    /\ pc = "bind"
    /\ driver[Pci(dev)] = "none"
    /\ driver' = [driver EXCEPT ![Pci(dev)] = Target]
    /\ todo' = todo \ {dev} /\ dev' = None
    /\ Goto(Loop)
    /\ UNCHANGED <<lockFile, api, allocatable, boot, kub, count>>

\* A GPU still bound cannot be bound again.  One that was unbound stays without
\* a driver.
BindFails ==
    /\ pc = "bind"
    /\ \/ driver[Pci(dev)] # "none" /\ UNCHANGED faults
       \/ driver[Pci(dev)] = "none" /\ faults < MaxFaults /\ faults' = faults + 1
    /\ Fail
    /\ UNCHANGED <<lockFile, driver, allocatable, boot, crashes>>

-----------------------------------------------------------------------------
(* DeviceState.Prepare                                                      *)

PrepareCached ==
    /\ pc = "begin" /\ op = "prepare"
    /\ cp[claim] = "completed"
    /\ Goto("publish")
    /\ UNCHANGED <<lockFile, driver, api, allocatable, boot, todo, dev, kub, count>>

PrepareRefused ==
    /\ pc = "begin" /\ op = "prepare"
    /\ cp[claim] # "completed" /\ Overlaps(claim)
    /\ Fail
    /\ UNCHANGED <<lockFile, driver, allocatable, boot, count>>

\* The rollback of an earlier attempt knows MIG devices only and does nothing.
PrepareStarted ==
    /\ pc = "begin" /\ op = "prepare"
    /\ cp[claim] # "completed" /\ ~Overlaps(claim)
    /\ cp' = [cp EXCEPT ![claim] = "started"]
    /\ Goto("lookup")
    /\ UNCHANGED <<lockFile, driver, alloc, slice, allocatable, boot, todo, dev, kub, count>>

NotAllocatable ==
    /\ pc = "lookup"
    /\ ~ alloc[claim] \subseteq allocatable
    /\ Fail
    /\ UNCHANGED <<lockFile, driver, allocatable, boot, count>>

PrepareDevices ==
    /\ pc = "lookup"
    /\ alloc[claim] \subseteq allocatable
    /\ todo' = VfioDevices(claim)
    /\ Goto("configure")
    /\ UNCHANGED <<lockFile, driver, api, allocatable, boot, dev, kub, count>>

ConfigureDone ==
    /\ pc = "configure" /\ todo = {}
    /\ todo' = alloc[claim]
    /\ Goto("siblings")
    /\ UNCHANGED <<lockFile, driver, api, allocatable, boot, dev, kub, count>>

\* Fault: the sibling stays.
SiblingKept(d) ==
    /\ pc = "siblings" /\ d \in todo
    /\ todo' = todo \ {d}
    /\ UNCHANGED <<lockFile, driver, api, allocatable, boot, pc, op, claim, dev, kub, count>>

RemoveSiblingDevices(d) ==
    /\ pc = "siblings" /\ d \in todo
    /\ allocatable' = IF d \in allocatable THEN allocatable \ {Sibling(d)} ELSE allocatable
    /\ todo' = todo \ {d}
    /\ UNCHANGED <<lockFile, driver, api, boot, pc, op, claim, dev, kub, count>>

\* CreateClaimSpecFile takes the spec of a full GPU from its cache, whatever
\* the driver.
PrepareComplete ==
    /\ pc = "siblings" /\ todo = {}
    /\ cp' = [cp EXCEPT ![claim] = "completed"]
    /\ Goto("publish")
    /\ UNCHANGED <<lockFile, driver, alloc, slice, allocatable, boot, todo, dev, kub, count>>

-----------------------------------------------------------------------------
(* DeviceState.Unprepare                                                    *)

\* Fault: a claim that is not in the checkpoint is an error.
UnprepareUnknown ==
    /\ pc = "begin" /\ op = "unprepare"
    /\ cp[claim] = "absent"
    /\ Fail
    /\ UNCHANGED <<lockFile, driver, allocatable, boot, count>>

UnprepareNoop ==
    /\ pc = "begin" /\ op = "unprepare"
    /\ cp[claim] = "absent"
    /\ Goto("publish")
    /\ UNCHANGED <<lockFile, driver, api, allocatable, boot, todo, dev, kub, count>>

\* unpreparePartiallyPrepairedClaim knows MIG devices only, and the entry has
\* no prepared devices whose siblings could be discovered.
UnpreparePartial ==
    /\ pc = "begin" /\ op = "unprepare"
    /\ cp[claim] = "started"
    /\ Goto("forget")
    /\ UNCHANGED <<lockFile, driver, api, allocatable, boot, todo, dev, kub, count>>

UnprepareDevices ==
    /\ pc = "begin" /\ op = "unprepare"
    /\ cp[claim] = "completed"
    /\ todo' = VfioDevices(claim)
    /\ Goto("unconfigure")
    /\ UNCHANGED <<lockFile, driver, api, allocatable, boot, dev, kub, count>>

UnconfigureDone ==
    /\ pc = "unconfigure" /\ todo = {}
    /\ todo' = alloc[claim]
    /\ Goto("discover")
    /\ UNCHANGED <<lockFile, driver, api, allocatable, boot, dev, kub, count>>

\* Fault: only the vfio sibling of a GPU comes back.
DiscoverVfioOnly(d) ==
    /\ pc = "discover" /\ d \in todo
    /\ allocatable' = IF d \in allocatable /\ Type(d) = "gpu"
                      THEN allocatable \cup {Sibling(d)} ELSE allocatable
    /\ todo' = todo \ {d}
    /\ UNCHANGED <<lockFile, driver, api, boot, pc, op, claim, dev, kub, count>>

\* NVML sees the sibling of a vfio device again, for Unconfigure has just bound
\* the GPU to the nvidia driver.
DiscoverSiblingAllocatables(d) ==
    /\ pc = "discover" /\ d \in todo
    /\ allocatable' = IF d \in allocatable THEN allocatable \cup {Sibling(d)} ELSE allocatable
    /\ todo' = todo \ {d}
    /\ UNCHANGED <<lockFile, driver, api, boot, pc, op, claim, dev, kub, count>>

DiscoverDone ==
    /\ pc = "discover" /\ todo = {}
    /\ Goto("forget")
    /\ UNCHANGED <<lockFile, driver, api, allocatable, boot, todo, dev, kub, count>>

UnprepareForget ==
    /\ pc = "forget"
    /\ cp' = [cp EXCEPT ![claim] = "absent"]
    /\ Goto("publish")
    /\ UNCHANGED <<lockFile, driver, alloc, slice, allocatable, boot, todo, dev, kub, count>>

-----------------------------------------------------------------------------
Rebind ==
    \/ \E d \in Devices : AlreadyBound(d) \/ RebindRefused(d) \/ ChangeDriver(d)
    \/ UnbindWithoutLock \/ Unbind \/ Bind \/ BindFails

Prepare ==
    \/ PrepareCached \/ PrepareRefused \/ PrepareStarted \/ NotAllocatable
    \/ PrepareDevices \/ ConfigureDone \/ PrepareComplete
    \/ \E d \in Devices : RemoveSiblingDevices(d)

Unprepare ==
    \/ UnprepareNoop \/ UnpreparePartial \/ UnprepareDevices \/ UnconfigureDone
    \/ DiscoverDone \/ UnprepareForget
    \/ \E d \in Devices : DiscoverSiblingAllocatables(d)

Plugin == Rebind \/ UnbindLockRefused \/ Prepare \/ Unprepare \/ Publish

Kubelet ==
    \E c \in Claims :
        \/ \E s \in Allocations : PodArrives(c, s)
        \/ PodStops(c) \/ CallPrepare(c) \/ CallUnprepare(c)

Next ==
    \/ Start \/ BootPublish \/ Crash \/ StepFails \/ UnbindIgnored
    \/ Plugin \/ Kubelet

Spec == Init /\ [][Next]_vars

\* The plugin is restarted and goes on with what it has begun; the kubelet
\* repeats its calls until they succeed.
FairSpec ==
    /\ Spec
    /\ WF_vars(Start) /\ WF_vars(BootPublish) /\ WF_vars(Plugin)
    /\ \A c \in Claims : SF_vars(CallPrepare(c)) /\ SF_vars(CallUnprepare(c))

-----------------------------------------------------------------------------
(* Properties                                                               *)

Running == {c \in Claims : kub[c] = "running"}

\* While a claim runs nobody changes the driver of its GPUs, and the GPUs of a
\* virtual machine are bound to vfio-pci: neither another claim's Configure nor
\* the Unconfigure of a late release reaches them.
RunningKeepsDriver ==
    [][\A c \in Running : c \in Running' => \A d \in alloc[c] :
        /\ driver'[Pci(d)] = driver[Pci(d)]
        /\ Type(d) = "vfio" => driver[Pci(d)] = "vfio-pci"]_vars

\* No GPU is in the hands of two running claims, be it under one name or under
\* the names of two siblings.
NoGpuTwice ==
    \A c, o \in Running : c # o =>
        {Pci(d) : d \in alloc[c]} \cap {Pci(d) : d \in alloc[o]} = {}

\* When the entry of a prepared vfio claim is dropped, its GPUs are back under
\* the nvidia driver and may be allocated in both forms.
ReleaseRestoresGpu ==
    [][\A c \in Claims : cp[c] = "completed" /\ cp'[c] = "absent" =>
        \A d \in VfioDevices(c) :
            driver'[Pci(d)] = "nvidia" /\ {d, Sibling(d)} \subseteq allocatable']_vars

\* A release can stall for two reasons only: a GPU was left without a driver, or
\* a vfio device of the claim is not allocatable (its GPU went to another claim
\* half-way through the release, or the plugin was restarted).
Stalled(c) == \E d \in VfioDevices(c) : driver[Pci(d)] = "none" \/ d \notin allocatable

\* Every release completes unless it stalls: no failed step, repeated call or
\* crash makes it impossible.
PassthroughReleased ==
    \A c \in Claims : kub[c] = "stopping" ~> kub[c] = "idle" \/ Stalled(c)

\* A vfio claim on a GPU no other claim uses gets prepared, whatever failed before,
\* unless it stalls or the nvidia driver has an unbindLock, which the script never
\* acquires.
VfioClaimServed ==
    \A c \in Claims :
        kub[c] = "wants" /\ VfioDevices(c) # {} ~>
            \/ kub[c] # "wants" \/ Stalled(c) \/ lockFile
            \/ \E o \in Claims \ {c} : kub[o] # "idle"

\* A GPU nobody has anything to do with is offered in both forms, as
\* enumerateGpuPciDevices says it does for every GPU it discovers.
FreeGpuOffersBoth ==
    pc = "idle" => \A g \in Gpus :
        \/ driver[g] # "nvidia"
        \/ \E c \in Claims : kub[c] # "idle" /\ g \in {Pci(d) : d \in alloc[c]}
        \/ {Gpu(g), Vfio(g)} \subseteq allocatable

\* The abstract status each entry stands for.
StatusOf == [absent |-> "unprepared", started |-> "preparing", completed |-> "prepared"]
ClaimStatus == [c \in Claims |-> StatusOf[cp[c]]]

\* A device is the claim's alone under its name; NoGpuTwice is about both names.
Service == INSTANCE ClaimService WITH
    status <- ClaimStatus, inUse <- Running, known <- Claims, own <- alloc

\* With passthrough, too, Prepare and Unprepare implement the claim service: a
\* claim becomes prepared only while no other prepared claim has one of its
\* devices, and virtual machines and containers run on prepared claims only.
ImplementsClaimService == Service!Spec

-----------------------------------------------------------------------------
(* The inductive invariant                                                  *)

Rebinds == {"lock", "unbind", "bind"}

\* Each step belongs to one operation, on a claim the kubelet wants it for; a
\* loop runs over the claim's devices.
OperationInv ==
    /\ pc \in {"down", "idle"} => op = "none" /\ claim = None
    /\ pc \notin {"down", "idle"} => op # "none" /\ claim \in Claims
    /\ pc \in {"lookup", "configure", "siblings"} => op = "prepare"
    /\ pc \in {"unconfigure", "discover", "forget"} => op = "unprepare"
    /\ op = "prepare" => kub[claim] \in {"wants", "running"}
    /\ op = "unprepare" => kub[claim] = "stopping"
    /\ pc \in {"configure", "unconfigure"} \cup Rebinds => todo \subseteq VfioDevices(claim)
    /\ pc \in {"siblings", "discover"} => todo \subseteq alloc[claim]
    /\ pc \in Rebinds => dev \in todo

\* What the checkpoint says of each claim, and of the one at work.
EntryInv ==
    /\ \A c \in Claims : /\ kub[c] = "idle" => cp[c] = "absent"
                         /\ kub[c] = "running" => cp[c] = "completed"
    /\ op = "prepare" => CASE pc = "begin" -> TRUE
                           [] pc = "publish" -> cp[claim] = "completed"
                           [] OTHER -> cp[claim] = "started"
    /\ op = "unprepare" =>
        /\ pc = "publish" => cp[claim] = "absent"
        /\ pc \in {"unconfigure", "discover"} \cup Rebinds => cp[claim] = "completed"

\* A prepared claim that nobody releases.
Settled(c) == cp[c] = "completed" /\ kub[c] # "stopping"

GpusOf(c) == {Pci(d) : d \in alloc[c]}

SiblingGone(c, d) == Sibling(d) \notin allocatable \/ Sibling(d) \in alloc[c]
BoundToVfio(d) == Type(d) = "vfio" => driver[Pci(d)] = "vfio-pci"

\* The names of prepared claims are disjoint, and once settled, so are their
\* GPUs: the sibling of a device in use cannot be allocated, so that the lookup
\* of the next claim refuses it.
ExclusiveInv ==
    /\ \A c, o \in Claims : c # o /\ cp[c] = "completed" /\ cp[o] = "completed" =>
        alloc[c] \cap alloc[o] = {}
    /\ \A c, o \in Claims : c # o /\ Settled(c) /\ Settled(o) => GpusOf(c) \cap GpusOf(o) = {}
    /\ \A c \in Claims : Settled(c) => \A d \in alloc[c] : SiblingGone(c, d) /\ BoundToVfio(d)

\* The claim under preparation: how far it has got.
PrepareInv ==
    /\ op = "prepare" /\ pc \in {"lookup", "configure", "siblings"} \cup Rebinds =>
        ~Overlaps(claim)
    /\ op = "prepare" /\ pc \in {"configure", "siblings"} \cup Rebinds =>
        \A c \in Claims : c # claim /\ Settled(c) => GpusOf(c) \cap GpusOf(claim) = {}
    /\ op = "prepare" /\ pc \in {"configure"} \cup Rebinds =>
        /\ alloc[claim] \subseteq allocatable
        /\ \A d \in alloc[claim] \ todo : BoundToVfio(d)
    /\ pc = "siblings" => \A d \in alloc[claim] :
        /\ BoundToVfio(d)
        /\ d \in allocatable \/ Sibling(d) \in alloc[claim]
        /\ d \in todo \/ SiblingGone(claim, d)

\* The claim under release: how far it has got.
ReleaseInv ==
    LET Restored(d) == driver[Pci(d)] = "nvidia" /\ d \in allocatable
    IN  /\ op = "unprepare" /\ pc \in {"unconfigure"} \cup Rebinds =>
            \A d \in VfioDevices(claim) \ todo : Restored(d)
        /\ op = "unprepare" /\ pc \in Rebinds => dev \in allocatable
        /\ pc = "discover" \/ (pc = "forget" /\ cp[claim] = "completed") =>
            \A d \in VfioDevices(claim) :
                /\ Restored(d)
                /\ Sibling(d) \in allocatable \/ (pc = "discover" /\ d \in todo)

\* What holds between any two steps: one operation at a time takes a GPU from or
\* to the claims that use it, whatever failed or crashed before.
PassthroughInv ==
    PassthroughTypeOK /\ OperationInv /\ EntryInv /\ ExclusiveInv /\ PrepareInv /\ ReleaseInv
=============================================================================
