# Verification of the HAMi DRA driver

TLA+ models of the kubelet plugin `src/cmd/hami-kubelet-plugin`, the TLC runs
that check them on small instances, and TLAPS proofs of the safety theorems of
every component. `PROJECT.json` holds the runs, the map from definitions to source lines,
the hazards the properties are for, and the findings.

## The system

The driver is one process per node. The kubelet calls it over gRPC to prepare
the devices of a ResourceClaim before it starts containers, and to unprepare
them afterwards. The handlers run concurrently. Everything the process must
remember is on disk, because it may be restarted at any time.

| Part | State | Operations | Interacts with |
|---|---|---|---|
| Claim lifecycle (`driver.go`, `device_state.go`) | checkpoint file (entry per claim: PrepareStarted, PrepareCompleted; boot id), prepare/unprepare file lock | `PrepareResourceClaims`, `UnprepareResourceClaims`, `Prepare`, `Unprepare`, `initCheckpoint` | kubelet, everything below |
| HAMi core (`hami_core.go`) | cache directory per pod and container, ownership marker, pod label | `GetCDIContainerEdits`, `Unprepare` | API server (pods) |
| CDI handler (`cdi.go`) | spec file per claim, caches | `CreateClaimSpecFile`, `DeleteClaimSpecFile` | container runtime reads the specs |
| Cleanup manager (`cleanup.go`) | task channel of capacity one | `cleanup` every ten minutes and at start, `unprepareIfStale` | checkpoint, API server, `nodeUnprepareResource` as callback |
| Dynamic MIG (`nvlib.go`, `mig.go`) | GPU and compute instances, MIG mode | `createMigDevice`, `deleteMigDevice`, `DestroyUnknownMIGDevices` | NVML; called by Prepare and Unprepare |
| Health (`device_health.go`, `driver.go`) | notification channel, health per device, published ResourceSlice | `run`, `deviceHealthEvents`, `Stop`, `Shutdown` | NVML events, API server |
| Sharing (`sharing.go`) | MPS control daemons, time slices | `Start`, `AssertReady`, `Stop` | API server, called by Prepare |
| Passthrough (`vfio-device.go`) | bound PCI drivers, sibling devices | `Configure`, `Unconfigure` | called by Prepare, Unprepare |
| Enumeration (`nvlib.go`, `deviceinfo.go`, `partitions.go`) | allocatable devices | at start | NVML, ResourceSlices |

Feature gates select the mode: HAMi core (the default), dynamic MIG, or the
classic modes with MPS, time slicing or passthrough. HAMi core excludes dynamic
MIG; dynamic MIG excludes health monitoring, MPS and passthrough.

What is hard here: several effects per operation with no transaction around
them; crashes, failed steps and reboots between any two; repeated, abandoned
and late calls; a cleanup goroutine that acts on old information; two NVML steps
per MIG device with ids that may be used again; three goroutines that shut each
other down over a bounded channel. The hazards in `PROJECT.json` name the lines.

## Modules

| Module | Content |
|---|---|
| `ClaimService` | abstract specification: what the driver promises the kubelet, whatever the mode |
| `ClaimService_proofs` | what the promise implies |
| `DeviceState` | claim lifecycle in HAMi core mode, with the cleanup manager |
| `DeviceStateInv` | the inductive invariant of `DeviceState` |
| `DeviceState_proofs` | safety theorems |
| `DeviceStateRefinement` | proof that `DeviceState` implements `ClaimService` |
| `Partitions` | what is announced of a GPU under dynamic MIG and the counters the scheduler allocates by, as operators |
| `DynamicMig` | MIG devices on demand, with its inductive invariant; extends `Partitions` |
| `DynamicMig_proofs` | its theorems, and those about the counters of `Partitions` |
| `DeviceHealth` | health monitor, consumer, shutdown, with the inductive invariant |
| `DeviceHealth_proofs` | its theorems |
| `DeviceConfigs` | which opaque config governs which device, as operators, with a reference definition |
| `DeviceConfigs_proofs` | that the two agree on every allocation |
| `Sharing` | time slicing and MPS control daemons, with the inductive invariant; extends `DeviceConfigs` |
| `Sharing_proofs` | its theorems |
| `Passthrough` | GPUs handed to virtual machines: driver rebinding, sibling devices, republishing, with the inductive invariant |
| `Passthrough_proofs` | its theorems |
| `MC...` | instances for TLC |

### ClaimService

A claim is unprepared, being prepared or prepared; the kubelet uses it only while
it is prepared, and prepared claims have no device of their own in common. Every
mode implements it by a refinement mapping in its module (`Service`,
`ImplementsClaimService`): `status` is the checkpoint entry, `inUse` the claims
whose containers run, and `own` the devices the overlap check compares.

| Mode | `own` of a claim |
|---|---|
| `DeviceState` | none: HAMi core shares every GPU, Prepare skips the overlap check (`device_state.go:253`) |
| `DynamicMig` | its devices without admin access |
| `Sharing` | its devices, none with admin access |
| `Passthrough` | its devices |

`own` goes by names. That two names of one GPU are not prepared at once is the
business of `NoGpuTwice`, that two placements do not overlap of `LiveClaimsFit`.

### DeviceState

`cp`, `cpBoot`, `cdi` and `dir` are the node's disk: checkpoint entries and boot
id, CDI spec files, cache directories. A directory is *owned* when it carries
the claim's marker (or cache file), *unowned* when it exists without one: between
`MkdirAll` and the marker, or half-way through `RemoveAll`. Each goroutine has a
program counter `pc`; each effect is an action of its own, so a crash
(`Crash`), a reboot (`Reboot`), a failed step (`StepFails`) or an abandoned call
(`Abandon`) falls between any two. A read or read-mutate-write of the checkpoint
is one step, since it runs under the checkpoint lock and the file is replaced
atomically.

`Prepare` is `PrepareCached` or `PrepareBegin` (entry), `PrepareLabel` (resolve
and label the pod), `PrepareWipe`, `PrepareWiped`, `PrepareMkdir`,
`PrepareMark` (directory), `PrepareSpec` (CDI), `PrepareComplete` (entry,
answer). `Unprepare` is `UnprepareNoop` or `UnprepareBegin`, `UnprepareScan`,
`UnprepareRmdir`, `UnprepareScanned` (directories the claim owns),
`UnprepareSpec`, `UnprepareForget`. The cleanup manager calls the same steps from
its own goroutine. The kubelet and the API server (`Create` ... `Abandon`) are
external: a pod's worker has one call per claim under way, repeats what failed,
and may forget a call that takes too long while the handler goes on.

Assumptions: one claim per container, as `hami_core.go:368` states; claim UIDs
are never used again; a pod's containers have stopped before Unprepare is called;
the CDI directory does not survive a reboot. `LateOps` says which operations may
start after their caller has gone (a request for several claims continues its
loop). The runs take `{"prepare"}`: a late Prepare stops at the API server with
its cancelled context. A late *Unprepare* is excluded: it takes a request with
several claims that each wait for the lock for most of its 10 s, until the
kubelet's own deadline passes. With it, TLC finds `RunningClaimUsable` violated;
the hazard list has it.

### Partitions and DynamicMig

`Partitions` has no state. `ProfileInfo` is what NVML says of the MIG profiles;
`MigSpecs` are the profiles and placements that are announced beside the full
GPU, `PartConsumesCounters` and `PartSharedCounterSet` the KEP 4815 counters.
`CountersAllow` is the scheduler's rule and external, as is what overlaps on the
hardware (`Region`, `PlacementsOverlap`). `LiveClaimsFit` and `AnnouncedCanBeHad`
relate the two: what the counters allow never overlaps, and what is announced
can be had on an empty GPU.

`DynamicMig` allocates by these counters. One GPU: `gi` maps GPU instance ids to instances (device name, compute instance
present, claim it was made for); `mode` is MIG mode and `seen` what the plugin
read of it at start. Prepare and Unprepare run one at a time under the lock that
`DeviceState` models. `createMigDevice` is `CreateEnable`, `CreateGi`,
`CreateCi`; `deleteMigDevice` is `DestroyCi`, `DestroyGi` and then
`maybeDisableMigMode` (`CountPresent`, `SetModeOff`, where NVML refuses while GPU
instances exist), called from three loops:
`undo` (Unprepare of a completed claim, by recorded id), `roll` (of an unfinished
one, by name) and `obliterate` (startup). `ReuseIds` says whether NVML may give
an id twice; the passing run assumes not, the run `mig_reuse` shows what happens
otherwise. A claim may go away before it is prepared and
leave its entry to the cleanup manager (`ClaimDeleted`), and a pod deleted by force
frees its devices for the scheduler before the node has released them (`PodStops`). `Admin`
says which devices a claim has admin access to: they take no counters and are not
compared with other claims. A full GPU is prepared without an effect of its own
(`PrepareGpu`). The CDI spec of a MIG claim is left out, the node does not reboot.

### DeviceHealth

`pending` is what NVML has yet to return, `unhealthy` the channel with room for
one notification per device, `con` and `mon` the two goroutines, `main` the
goroutine that starts, publishes and shuts down. A single notification blocks
when the channel is full (`MonSend`), the mass notification drops (`MonMark`).
`slice` is what is published and `last` who published it: the consumer leaves
unhealthy devices out (`UnhealthyWithdrawn`), the publish at startup announces
everything and may come last. Critical errors also happen on GPUs whose events
could not be registered; those are marked at the start instead.

### DeviceConfigs and Sharing

`DeviceConfigs` has no state. `GetOpaqueDeviceConfigs` and `Lookup` follow the
code: class configs, then claim configs, defaults in front, a walk from the
back. `GoverningConfig` is the reference: the config no other one outranks, with
precedence as the comment of `GetOpaqueDeviceConfigs` states it. `FollowsPrecedence`
says that an allocation gets the groups the reference asks for, or is refused if it
cannot be served. `IsAllocation` is what the code may count on: decoded configs of
the known kinds, from class or claim, and a device allocated once per claim.

`Sharing` is the mode without HAMi core, with `MPSSupport` and, as a constant,
`TimeSlicingSettings`. `op` is the one operation under way: Prepare picks the
config groups in any order (a Go map) and for each one sets compute mode and time
slice GPU by GPU, or runs `MpsControlDaemon.Start` (`StartCheck`, `MakeDirs`,
`MountShm`, compute mode, `CreateDeployment`) and `AssertReady`; Unprepare stops
the daemons (`StopStat`, `StopDelete`, `StopUnmount`, `StopRemoveAll`) and
goes back to the defaults. `Inputs` are the allocations, chosen at the start.
The Deployment controller, garbage collection, the kubelet, and what
`CleanupMountPoint`, `Normalize` and `Validate` do are external (the last two:
a config is valid or not, and what it asks for is explicit). `PromptReuse` says
whether a claim may be prepared again while the Deployment of its last use is
being deleted; with it TLC finds `DaemonBacked` violated (hazard at
`sharing.go:164`). `Admin` and `TimeSlicingSettings` = FALSE lead to violations of
`TimeSliceApplied`, listed as a hazard too.

A claim left PrepareStarted is rolled back by its next Prepare or its Unprepare
(`RolledBack`, `RollbackFails`). Without `DynamicMIG` that is meant to do nothing;
the code logs so and goes on to look for the claim's MIG devices by name. `migs`
are the static MIG devices that exist. While nothing else holds NVML open the
lookup finds none (the handle lookup before it shuts NVML down, `nvlib.go:851`);
with `NVMLDeviceHealthCheck` the monitor holds it, and a device may be found and
destroyed, unless a completed claim names it (`Orphans`). Whether it is found is
left open, since the monitor starts after the first calls may come. Prepare then
fails where it reads the device's capability files (`CreateSpecFails`). That no
claim in use loses its device is `RunningMigsExist`; that the device goes at all is
finding 6.

### Passthrough

`driver` is the kernel driver of each GPU, `allocatable` the plugin's devices,
`slice` the published ones. A GPU has two forms, `Gpu(g)` and `Vfio(g)`. Prepare is
`PrepareStarted`, `PrepareDevices`, for each vfio device `AlreadyBound` or
`ChangeDriver`, `Unbind`, `Bind`, and then `RemoveSiblingDevices` and
`PrepareComplete`; Unprepare goes back through the same rebinding and
`DiscoverSiblingAllocatables`. Both end in `Publish`. The two shell scripts are
modelled line by line as far as they have effects: `unbind_from_driver.sh` does
not look at the result of its write (`UnbindIgnored`), and where the driver has an
unbindLock file (`lockFile`) it never gets the lock, because line 22 writes to
`"{$unbind_lock_file}"`. At start NVML sees the GPUs of the nvidia driver only, and
`EnumerateGpuPciDevices` returns nothing (finding 5). The publish at startup
(`BootPublish`) runs beside the first calls with the devices it has read.

Two things can stall a claim for good, and the liveness properties name them
(`Stalled`): a GPU that was unbound and not bound again, on which `getDriver`
fails; and a vfio device that is no longer allocatable, because the plugin was
restarted while its GPU was bound to vfio-pci. No claim has admin access here:
with it a release would bring back the sibling of a GPU that is in use.

## Runs

| Run | Instance | Shows |
|---|---|---|
| `reserve` | 1 claim, 2 pods, 2 handlers, 2 failures, 1 crash, fresh or upgraded node, fair | running claims keep entry, spec and directory; owned directories keep their entry; stale entries are removed, releases complete |
| `claims` | 2 claims of one name, 1 pod, 2 handlers, 1 failure, 1 reboot | `IndInv`, which implies that running claims stay usable; cleanup takes deleted claims only; entries change under the lock; refinement of `ClaimService` |
| `mig` | 3 claims, a GPU of 4 memory slices and 4 profiles, 4 ids, 1 failure, 1 crash | prepared devices exist, none forgotten, none prepared twice; live claims fit on the GPU, announced devices can be had; `MigInv`; refinement of `ClaimService` |
| `health` | 2 devices on 2 GPUs, 3 events, 1 failed publish, fair | no critical error lost, a lost GPU takes all devices, unhealthy devices leave the slice, channel closed last, shutdown ends unless blocked; `HealthInv` |
| `sharing` | 2 claims, 2 GPUs, 1 MIG device, 54 allocations, 2 failures, health monitor on, fair | config precedence, time slices in force, daemons present, MIG devices in use there, releases complete and end; `SharingInv`; refinement of `ClaimService` |
| `passthrough` | 2 claims, 1 GPU in two forms, 2 failures, 2 crashes, with and without unbindLock, fair | no GPU in two hands, none rebound in use, a release restores both forms, releases and Prepares end unless stalled; `PassthroughInv`; refinement of `ClaimService` |
| `crash` | 1 claim, 1 crash | *violated*: a directory without a marker is left behind |
| `mig_reuse` | 2 claims, ids used again | *violated*: another claim's device is destroyed |
| `health_mig` | a MIG device with GPU instance 1 | *violated*: its critical errors are ignored |
| `mps_mode` | 2 claims on one GPU, MPS and time slices | *violated*: a claim runs under MPS with its GPU in mode DEFAULT |
| `static_mig` | 2 claims given one static MIG device, 1 failure, health monitor on | *violated*: a rollback destroys the device |
| `vfio_start` | 1 claim, 2 GPUs | *violated*: no vfio device is offered after start |

`PassthroughInv` and `SharingInv` contain the type invariant of their module, `IndInv`
contains `TypeOK`.

The bounds are named in the modules: `MaxFaults`, `MaxCrashes`, `MaxReboots`,
`MaxEvents`. One claim and two pods suffice for what one claim can suffer, since
claims share nothing but the lock. A reboot is in the run `claims` only: in
`reserve` owned directories would lose their entries, and with `Upgrade` running
claims theirs; the liveness properties hold with a reboot and one pod too. Two
claims of one name are needed for the cleanup manager's test; two handlers let an
abandoned call and its repetition overlap. In `mig` claim c1 has two devices so
that a crash falls between them, c2 competes for one and has admin access to the
whole GPU, c3's placement overlaps the other; one profile of the table has fewer
compute than GPU slices and is not announced. In `health` three events exceed the
channel's two places. In `sharing` two failures stack up to three mounts; the seven
configs of the pool cover both sources, named and unnamed requests, fitting and
other kinds, an undecodable and an invalid one, and one list has a config of another
driver; one allocation gives the MIG device to both claims. In `passthrough` GPUs
are independent of each other, so one suffices for what two claims do to each other
(an instance with two GPUs passes too, in a longer run). Handlers are symmetric in
`claims`, ids in `mig`.

Deadlock is checked, except in `DeviceHealth`, where the program ends, and in
`Passthrough`, where nothing is left to allocate once every GPU has lost its driver.

Fairness. `reserve`: the Go scheduler runs goroutines (weak fairness of each step),
a supervisor restarts the plugin, the ticker ticks, and the kubelet repeats an
Unprepare until it succeeds. Acquiring the lock is strongly fair for the cleaner
and for the unprepare calls of a claim taken together: the holder releases it
after finitely many steps and waiters poll. Nothing is assumed of pods, claims,
failures or crashes. `health`: the three goroutines run when they can.
`sharing`: an operation under way goes on, and the kubelet's repeated Unprepare
gets the lock in the end; nothing is assumed of Deployments. `passthrough`: the
plugin is restarted and goes on with what it has begun (weak fairness), and the
kubelet repeats Prepare and Unprepare until they succeed; a call is possible only
between others, hence strong fairness for each claim.

## Proofs

Every theorem is proved by TLAPS for every set of claims, devices, pods and
handlers, every naming, and every bound on failures, crashes and events. What a
theorem assumes of the constants beyond the `ASSUME`s of the modules stands in its
statement:

| Theorem | States | Assumes |
|---|---|---|
| `ServiceKeepsPromise` | prepared claims have no device of their own in common; a claim the API server knows is used only while prepared | |
| `TypeCorrect` | `TypeOK` | |
| `Inductive` | `IndInv` | `Timely`, `NoAdoption` |
| `RunningClaimsStayUsable` | a running claim the API server knows keeps its completed entry, CDI spec and cache directory | `Timely`, `NoAdoption` |
| `CleanupSparesLiveClaims` | the cleanup manager unprepares deleted claims only | |
| `OwnedDirsStayTracked` | an owned directory has an entry | no reboot |
| `EntriesChangeUnderLock` | who may change an entry | |
| `DeviceStateImplementsClaimService` | `DeviceState` implements `ClaimService` | `Timely`, `NoAdoption` |
| `DynamicMigImplementsClaimService`, `SharingImplementsClaimService`, `PassthroughImplementsClaimService` | so do the other modes | |
| `MigTypeCorrect` | `MigTypeOK` | |
| `NoDeviceInTwoHands` | no two claims are prepared on one device | |
| `PreparedClaimsKeepDevices` | nobody destroys the MIG devices of a running claim | `NoReuse` |
| `MigDevicesStayTracked` | no MIG device is forgotten | `NoMigAdmin` |
| `CountersSuffice` | what the counters allow does not overlap | `NoMigAdmin` |
| `AnnouncedDevicesCanBeHad` | an unused GPU can give each announced device, and no partition beside the full GPU | `PlacementsFit`, some partition |
| `MigInductive` | `MigInv` | `NoReuse`, `NoMigAdmin` |
| `HealthTypeCorrect` | `HealthTypeOK` with the bound of the channel | |
| `ClosesAfterMonitor` | no send on a closed channel | |
| `WithdrawsUnhealthy` | unhealthy devices leave the slice | |
| `LosesNoCriticalError`, `HealthInductive` | no critical error is lost; `HealthInv` | `Identified` |
| `PassthroughTypeCorrect`, `PassthroughInductive` | `PassthroughTypeOK`, `PassthroughInv` | |
| `NoGpuInTwoHands` | no GPU is in use under both its names | |
| `RunningClaimsKeepDrivers` | no rebind of a GPU in use | |
| `ReleasesRestoreGpus` | a release restores both forms | |
| `SharingTypeCorrect` | `SharingTypeOK` with the bound on mounts | |
| `ReleasesAreClean` | a release undoes daemons, mounts and GPU settings | |
| `MigDevicesInUseExist` | no rollback takes the MIG device of a claim in use | |
| `DaemonsBackClaims` | claims that share by MPS have their daemon | no `PromptReuse` |
| `LookupFollowsPrecedence`, `PrecedenceHolds` | the walk of `prepareDevices` ends at the config the documented precedence demands, for every list of configs | |
| `TimeSlicesHold` | time slices of the governing configs are in force | `TimeSlicingSettings`, no admin access |
| `SharingInductive` | `SharingInv` | `TimeSlicingSettings`, no admin access, no `PromptReuse` |

### Inductive invariants

No safety property here is inductive by itself: none says what an operation that is
under way has already checked and done. Each component has an invariant that does,
a conjunction of named parts; TLC checks it in the component's run. In the proofs
each part has a lemma with one case per action.

`IndInv` (module `DeviceStateInv`) says that only the lock holder is past
`Acquire` (`GoroutinesInv`), what it has established on disk at each step
(`DiskInv`), that a handler undoes a claim only while the kubelet releases it and
prepares it for the pod that reserves it (`KubeletInv`), that the cleaner's
candidates are deleted (`ApiInv`), that the boot id is current once the plugin
runs (`BootInv`), and that a completed claim that is not being released has its
files (`CompletedInv`). `OwnedDirIsTracked` needs `TrackedInv`
instead: before the entry goes, no owned directory is left.

`MigInv`: each step belongs to an operation, and that to a claim (`OperationInv`);
the entry of the claim at work, and that what its loop has left is the claim's
(`LoopInv`); instances are of devices allocated to their claim and do not overlap
(`GpuInv`); what the current Prepare has created (`CreateInv`); the instance about
to be deleted is one no completed claim names, or one the claim under release has
on record (`TargetInv`); an id on record is of the instance created for the claim,
or of none (`RecordInv`); a device the loops are through with is gone, or another
completed claim's (`TrackInv`). `CountersSuffice` rests on `CountersKeepApart`: each
memory slice is a counter of value one (`SliceOnce`), so two devices that both fit
have no slice in common, whatever the table of profiles.

`HealthInv`: who has started and stopped at each step of the main goroutine
(`ShutdownInv`), what the consumer is about to publish against what is marked
(`WithdrawalInv`), and that the devices of a GPU without events were reported at
the start (`DeliveryInv`, with `NoCriticalErrorLost`).

`PassthroughInv`: a claim at work goes on with devices it has checked
(`OperationInv`, `EntryInv`); the GPUs of settled claims are disjoint and none of
their siblings is allocatable (`ExclusiveInv`), which the overlap check, by name,
does not say and a restart does not break; what Prepare has bound (`PrepareInv`)
and Unprepare restored (`ReleaseInv`).

`SharingInv`: the group at hand is one of the claim's (`OperationInv`); a Deployment
stands on directories and a tmpfs, and every other tmpfs was paid for by a failure
(`DaemonInv`); what the steps before this one did for the group (`ProgressInv`),
and all steps for the groups before it (`CleanInv`, `PassedBacked`,
`PassedSliced`); the claims that are prepared have no device in common but by admin
access (`ApartInv`), their MIG devices exist (`MigInv`), and their groups stay in
force (`SettledBacked`, `SettledSliced`).

### Lists, sets and sums

The lookup of a config, the greatest capacity of the profiles and the sum of a
counter are computed by loops, in the model by recursive functions and `CHOOSE`. The
proofs about them need an induction, which they take from a fact about finite sets:
among intervals `0 .. n`, or among subsets of a finite set, there is a smallest one
(`FS_StrictSubsetOrderingWellFounded`). `SetInduction` and `FiniteMax` are this
argument, `OfSourceLoop` shows that the loop's recursive function exists.
`LookupFollowsPrecedence` then follows a list by the last of its members in a set
(`LastIn`): the loops of `GetOpaqueDeviceConfigs` keep it, of two lists one after
the other the second counts first, and the walk from the back returns it
(`LookupFinds`); the last claim config, or else the last class config, or else the
default is the one that outranks all others (`GoverningIsLast`).

### Refinements

Each refinement theorem has a lemma per action that changes an entry (for the modes
other than `DeviceState`), and `StepRefines`, in which all other actions stutter. The
step that matters is the one to "prepared": `ClaimService` allows it only while no
other prepared claim has one of the devices, and the code checked that many steps,
failed calls and crashes before. The invariants (`NoDeviceTwice`, `ApartInv`,
`ExclusiveInv`) carry it over, for no claim completes in between.

### Assumptions

- `Timely`: no abandoned Unprepare starts late; `NoAdoption`: no checkpoint without
  boot id meets a reboot. TLC has a counterexample without either: for the second,
  `Upgrade` = TRUE and one reboot in `reserve`, since `initCheckpoint` adopts a
  checkpoint without boot id whatever boot wrote it (`device_state.go:205`).
- No reboot, for `OwnedDirsStayTracked`: after one the checkpoint is discarded while
  directories stay.
- `NoReuse`: NVML gives no GPU instance the id of a destroyed one. Finding 2 is the
  counterexample.
- `NoMigAdmin`: admin access is to full GPUs only. Otherwise a claim with admin
  access to a MIG device may create it while the claim that had it is half undone;
  if that creation fails late, its rollback spares the device for the other claim
  (`device_state.go:1233`), whose undo then looks for its own id: both entries go
  and the device stays (TLC finds it with two claims of one device, one of them
  with admin access, and two failures).
- `Identified`: the placement map knows each device, and no other, by the ids its
  events carry. It holds where GPU and compute instance ids are equal or the node
  has full GPUs only; finding 3 is the counterexample.
- `~PromptReuse`, `TimeSlicingSettings`, no admin access: see `Sharing` above; TLC
  finds a violation without each.
- `InputsAssumption` of `Sharing`: the allocations satisfy `IsAllocation`.
- `PlacementsFit`: no placement reaches beyond the slices of the largest profile,
  which the code assumes to cover the GPU (`nvlib.go:1205`).

### Only model-checked

Liveness: `StaleStartedRemoved`, `ReleaseCompletes`, `CriticalErrorHandled`,
`LostMarksAll`, `ShutdownEndsUnlessFull`, `SharingReleased`,
`PassthroughReleased`, `VfioClaimServed`. The prover used here handles neither
fairness nor ENABLED. Every invariant, action property and refinement the passing
runs check is also proved, under the assumptions above.

## Findings

1. A crash or error between `MkdirAll` and the marker leaves a cache directory
   that Unprepare will not remove (`hami_core.go:443`).
2. `deleteMigDevice` trusts a GPU instance id without comparing the MIG UUID
   (`nvlib.go:1064`).
3. The health monitor looks up MIG devices by GPU instance id twice
   (`device_health.go:267`).
4. `MpsControlDaemon.Start` takes a daemon left by a failed Prepare as it is and
   skips the compute mode, which another claim may have reset (`sharing.go:193`).
5. `enumerateGpuPciDevices` looks for parent GPUs in the empty map it has just
   made, so no vfio device is announced at start (`nvlib.go:604`). Reading the
   argument instead is not enough of a repair: after a restart both forms of a GPU
   that a full-GPU claim uses would be allocatable, since siblings are removed by
   Prepare only, and `RunningKeepsDriver` would fail.

6. Without `DynamicMIG` the rollback of a PrepareStarted claim says that it does
   nothing and does not return (`device_state.go:537`): with the health monitor on
   it destroys the static MIG device of the claim.

Also met, without a run of their own: the unbindLock of `unbind_from_driver.sh:22`
(a disjunct of `VfioClaimServed`); `getMigDevices` goes by the MIG mode read at
start, so MIG mode is asked to go off under devices created later, and only NVML's
refusal keeps them (`nvlib.go:668`); the hazards in `PROJECT.json` that name no
property or have a note.

## Not modelled

The contents of MPS Deployments and of CDI specs, device attributes, the split of
devices into ResourceSlices, checkpoint checksums and versions, the CDI caches,
shutdown of the driver as a whole (a crash in `DeviceState`), the gRPC health
probe, flags and feature gates, IOMMU and kernel module checks at start.
`Passthrough` and `DeviceHealth` are not composed: with both gates on,
`IsHealthy` panics at the first vfio device (`allocatable.go:311`). The informer
cache and the retries of the pod label patch are one step that may fail.

## Plan

Done: `ClaimService`, `DeviceState` with runs and proofs, `Partitions`,
`DynamicMig`, `DeviceHealth` with the published slice, `DeviceConfigs`, `Sharing`,
`Passthrough`, and the proofs of their safety properties.

1. `DeviceHealth`: HAMi GPUs, health as a condition of Prepare.
2. `Checkpoint`: checksums of two versions in one file, downgrade and upgrade.
