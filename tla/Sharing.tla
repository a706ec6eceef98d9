------------------------------- MODULE Sharing -------------------------------
(***************************************************************************)
(* GPU sharing without HAMi core (feature gates MPSSupport and, if the     *)
(* constant says so, TimeSlicingSettings; static MIG): Prepare groups the  *)
(* devices of a claim by governing config and applies each config, which   *)
(* sets compute mode and time slice of full GPUs or starts an MPS control  *)
(* daemon; Unprepare stops the daemons and goes back to the defaults.  A   *)
(* claim left PrepareStarted is rolled back first, which looks for its     *)
(* static MIG devices and may destroy them.                                *)
(*                                                                         *)
(* Prepare and Unprepare run one at a time, under the lock DeviceState     *)
(* models.  A step that fails and a crash of the plugin have one outcome:  *)
(* the operation ends, its effects and the entry stay (StepFails).  A      *)
(* daemon's Deployment belongs to the API server, which keeps it for a     *)
(* while after Delete.  Of CDI specs only the test that a MIG device has   *)
(* its capability files is kept.  The node does not reboot, and the MIG    *)
(* mode of a GPU that lost its last MIG device is left out.                *)
(***************************************************************************)
EXTENDS DeviceConfigs

CONSTANTS
    Claims, None,
    Inputs,                \* the allocations of the claims the model considers
    Admin,                 \* claims allocated with admin access
    TimeSlicingSettings,   \* the feature gate
    NVMLDeviceHealthCheck, \* the feature gate
    PromptReuse,           \* a claim may be used again while the Deployment of
                           \* its last use is being deleted
    MaxFaults              \* bound on failed steps and lost answers

ASSUME SharingAssumption ==
    /\ None \notin Claims
    /\ Admin \subseteq Claims
    /\ {TimeSlicingSettings, NVMLDeviceHealthCheck, PromptReuse} \subseteq BOOLEAN
    /\ MaxFaults \in Nat

ASSUME InputsAssumption == \A in \in Inputs : \A c \in Claims : IsAllocation(in[c])

VARIABLES
    alloc,    \* claim.Status.Allocation
    cp,       \* the checkpoint entry of each claim
    kub,      \* what the kubelet is doing with each claim
    op,       \* the operation under way
    mode,     \* compute mode of each full GPU
    slice,    \* time slice of each full GPU
    migs,     \* the MIG devices that exist
    deploy,   \* Deployment of each control daemon
    root,     \* rootDir of each control daemon exists
    mounts,   \* tmpfs mounted on its shmDir, so many times
    faults

gpus == <<mode, slice, migs>>
daemons == <<deploy, root, mounts>>
vars == <<alloc, cp, kub, op, gpus, daemons, faults>>

Gpus == {d \in Devs : DevType[d] = "gpu"}
Migs == {d \in Devs : DevType[d] = "mig"}

\* The MIG devices among those allocated to a claim.
MigsOf(c) == AllocatedDevs(alloc[c]) \cap Migs

\* GetMpsControlDaemonID: a claim and the devices of one of its groups.
Daemons == Claims \X SUBSET Devs

\* The groups Prepare may get to apply.
AllGroups ==
    UNION {Groups(x[1][x[2]]) : x \in {y \in Inputs \X Claims : ~LookupFails(y[1][y[2]])}}

NoOp == [do |-> "none", claim |-> None, pc |-> "idle", todo |-> {}, devs |-> {},
         want |-> "none", left |-> {}]

Goto(pc) == [op EXCEPT !.pc = pc]

\* The daemon of the group the operation is at.
D == <<op.claim, op.devs>>

SharingTypeOK ==
    /\ alloc \in Inputs
    /\ cp \in [Claims -> {"absent", "started", "completed"}]
    /\ kub \in [Claims -> {"idle", "preparing", "running", "releasing"}]
    /\ op \in [do : {"none", "prepare", "unprepare"}, claim : Claims \cup {None},
              pc : {"idle", "pick", "mode", "slice", "start", "dirs", "mount", "create",
                    "assert", "stat", "delete", "unmount", "rmdir"},
              todo : SUBSET AllGroups, devs : SUBSET Devs,
              want : {"none", "Default", "Long", "mps"}, left : SUBSET Gpus]
    /\ mode \in [Gpus -> {"DEFAULT", "EXCLUSIVE_PROCESS"}]
    /\ slice \in [Gpus -> {"Default", "Long"}]
    /\ migs \subseteq Migs
    /\ deploy \in [Daemons -> {"none", "starting", "ready", "closing"}]
    /\ root \in [Daemons -> BOOLEAN]
    /\ mounts \in [Daemons -> 0 .. MaxFaults + 1]
    /\ faults \in 0 .. MaxFaults

Init ==
    /\ alloc \in Inputs
    /\ cp = [c \in Claims |-> "absent"]
    /\ kub = [c \in Claims |-> "idle"]
    /\ op = NoOp
    /\ mode = [g \in Gpus |-> "DEFAULT"]
    /\ slice = [g \in Gpus |-> "Default"]
    /\ migs = Migs
    /\ deploy = [d \in Daemons |-> "none"]
    /\ root = [d \in Daemons |-> FALSE]
    /\ mounts = [d \in Daemons |-> 0]
    /\ faults = 0

-----------------------------------------------------------------------------
(* unpreparePartiallyPrepairedClaim: the rollback of a PrepareStarted claim *)

\* The devices of the allocation, of whatever driver, whose names parse as those
\* of MIG devices.
NamedMigs(c) == {r.device : r \in alloc[c].results} \cap Migs

\* Fault: the other claims are not looked at.
OrphansOfAny(c) == migs \cap NamedMigs(c)

\* deleteMigDevIfExistsAndNotUsedByCompletedClaim
Orphans(c) ==
    {d \in migs \cap NamedMigs(c) : \A b \in Claims : cp[b] = "completed" => d \notin NamedMigs(b)}

\* Without DynamicMIG the rollback logs "unprepare noop" and goes on all the same.
\* FindMigDevBySpec sees MIG devices only while someone else keeps NVML
\* initialized: the health monitor, from its start on.
RolledBack(c) ==
    IF cp[c] = "started" /\ NVMLDeviceHealthCheck THEN {migs, migs \ Orphans(c)} ELSE {migs}

-----------------------------------------------------------------------------
(* Prepare                                                                  *)

\* requestedNonAdminDevices, GetNonAdminDevices
NonAdminDevs(c) == IF c \in Admin THEN {} ELSE AllocatedDevs(alloc[c])

\* Fault: only the claims of running containers count.
NoOverlapRunning(c) ==
    \A b \in Claims \ {c} :
        cp[b] = "completed" /\ kub[b] = "running" => NonAdminDevs(b) \cap NonAdminDevs(c) = {}

\* validateNoOverlappingPreparedDevices
NoOverlap(c) ==
    \A b \in Claims \ {c} : cp[b] = "completed" => NonAdminDevs(b) \cap NonAdminDevs(c) = {}

\* A completed claim is answered from the checkpoint.
PrepareCached(c) ==
    /\ op = NoOp /\ kub[c] = "preparing" /\ cp[c] = "completed"
    /\ kub' = [kub EXCEPT ![c] = "running"]
    /\ UNCHANGED <<alloc, cp, op, gpus, daemons, faults>>

\* After the rollback of an earlier attempt the entry is written, then
\* prepareDevices maps results to configs.  An error leaves the entry.
PrepareBegin(c) ==
    /\ op = NoOp /\ kub[c] = "preparing" /\ cp[c] # "completed"
    /\ NoOverlap(c)
    /\ cp' = [cp EXCEPT ![c] = "started"]
    /\ op' = IF LookupFails(alloc[c]) THEN NoOp
             ELSE [NoOp EXCEPT !.do = "prepare", !.claim = c, !.pc = "pick",
                               !.todo = Groups(alloc[c])]
    /\ migs' \in RolledBack(c)
    /\ UNCHANGED <<alloc, kub, mode, slice, daemons, faults>>

\* Fault: the time slice without the compute mode.
FirstStepSliceOnly(sharing) ==
    CASE sharing \in {"Default", "Long"} /\ TimeSlicingSettings -> "slice"
      [] sharing = "mps" -> "start"
      [] OTHER -> "pick"

\* applySharingConfig: the step it starts with.  Time slices apply to full GPUs;
\* a MigDeviceConfig has none.
FirstStep(sharing) ==
    CASE sharing \in {"Default", "Long"} /\ TimeSlicingSettings -> "mode"
      [] sharing = "mps" -> "start"
      [] OTHER -> "pick"

\* The loop over configResultsMap, in the order of a Go map: normalize, validate
\* and apply.  An invalid config ends Prepare.
ApplyConfig(g) ==
    /\ op.do = "prepare" /\ op.pc = "pick" /\ g \in op.todo
    /\ op' = IF ~g.config.valid THEN NoOp
             ELSE [op EXCEPT !.pc = FirstStep(g.config.sharing), !.todo = @ \ {g},
                             !.devs = g.devs, !.want = g.config.sharing,
                             !.left = g.devs \cap Gpus]
    /\ UNCHANGED <<alloc, cp, kub, gpus, daemons, faults>>

\* All configs are applied, but the capability files of a MIG device are gone:
\* CreateClaimSpecFile fails.
CreateSpecFails ==
    /\ op.do = "prepare" /\ op.pc = "pick" /\ op.todo = {}
    /\ ~(MigsOf(op.claim) \subseteq migs)
    /\ op' = NoOp
    /\ UNCHANGED <<alloc, cp, kub, gpus, daemons, faults>>

\* All configs are applied: the claim is recorded as completed and the kubelet
\* answered, if it still waits and the answer gets through.
PrepareComplete ==
    /\ op.do = "prepare" /\ op.pc = "pick" /\ op.todo = {}
    /\ MigsOf(op.claim) \subseteq migs
    /\ cp' = [cp EXCEPT ![op.claim] = "completed"]
    /\ op' = NoOp
    /\ \/ /\ kub' = IF kub[op.claim] = "preparing" THEN [kub EXCEPT ![op.claim] = "running"]
                    ELSE kub
          /\ UNCHANGED faults
       \/ faults < MaxFaults /\ faults' = faults + 1 /\ UNCHANGED kub
    /\ UNCHANGED <<alloc, gpus, daemons>>

-----------------------------------------------------------------------------
(* nvidia-smi, one GPU after the other: setComputeMode, setTimeSlice         *)

SetComputeMode(g) ==
    /\ op.pc = "mode" /\ g \in op.left
    /\ mode' = [mode EXCEPT ![g] = IF op.want = "mps" THEN "EXCLUSIVE_PROCESS" ELSE "DEFAULT"]
    /\ op' = [op EXCEPT !.left = @ \ {g}]
    /\ UNCHANGED <<alloc, cp, kub, slice, migs, daemons, faults>>

\* SetTimeSlice goes on to the time slice, MpsControlDaemon.Start to Create.
ComputeModeDone ==
    /\ op.pc = "mode" /\ op.left = {}
    /\ op' = IF op.want = "mps" THEN Goto("create")
             ELSE [op EXCEPT !.pc = "slice", !.left = op.devs \cap Gpus]
    /\ UNCHANGED <<alloc, cp, kub, gpus, daemons, faults>>

SetTimeSlice(g) ==
    /\ op.pc = "slice" /\ g \in op.left
    /\ slice' = [slice EXCEPT ![g] = op.want]
    /\ op' = [op EXCEPT !.left = @ \ {g}]
    /\ UNCHANGED <<alloc, cp, kub, mode, migs, daemons, faults>>

TimeSliceDone ==
    /\ op.pc = "slice" /\ op.left = {}
    /\ op' = Goto("pick")
    /\ UNCHANGED <<alloc, cp, kub, gpus, daemons, faults>>

-----------------------------------------------------------------------------
(* MpsControlDaemon.Start and AssertReady                                   *)

\* IsControlDaemonStarted asks for the Deployment, and nothing else.
StartCheck ==
    /\ op.pc = "start"
    /\ op' = Goto(IF deploy[D] = "none" THEN "dirs" ELSE "assert")
    /\ UNCHANGED <<alloc, cp, kub, gpus, daemons, faults>>

\* Fault: directories that exist are taken for mounted.
MakeDirsOnce ==
    /\ op.pc = "dirs"
    /\ root' = [root EXCEPT ![D] = TRUE]
    /\ op' = Goto(IF root[D] THEN "mode" ELSE "mount")
    /\ UNCHANGED <<alloc, cp, kub, gpus, deploy, mounts, faults>>

MakeDirs ==
    /\ op.pc = "dirs"
    /\ root' = [root EXCEPT ![D] = TRUE]
    /\ op' = Goto("mount")
    /\ UNCHANGED <<alloc, cp, kub, gpus, deploy, mounts, faults>>

\* A tmpfs goes on top of the one an earlier attempt mounted.
MountShm ==
    /\ op.pc = "mount"
    /\ mounts' = [mounts EXCEPT ![D] = @ + 1]
    /\ op' = Goto("mode")
    /\ UNCHANGED <<alloc, cp, kub, gpus, deploy, root, faults>>

\* AlreadyExists is no error.
CreateDeployment ==
    /\ op.pc = "create"
    /\ deploy' = [deploy EXCEPT ![D] = IF @ = "none" THEN "starting" ELSE @]
    /\ op' = Goto("assert")
    /\ UNCHANGED <<alloc, cp, kub, gpus, root, mounts, faults>>

\* One ready replica, one ready container: what a Deployment whose deletion has
\* only begun shows too.
AssertReady ==
    /\ op.pc = "assert" /\ deploy[D] \in {"ready", "closing"}
    /\ op' = Goto("pick")
    /\ UNCHANGED <<alloc, cp, kub, gpus, daemons, faults>>

\* Four attempts, then Prepare fails.
AssertReadyTimeout ==
    /\ op.pc = "assert" /\ deploy[D] \in {"none", "starting"}
    /\ op' = NoOp
    /\ UNCHANGED <<alloc, cp, kub, gpus, daemons, faults>>

-----------------------------------------------------------------------------
(* Unprepare                                                                *)

UnprepareNoop(c) ==
    /\ op = NoOp /\ kub[c] = "releasing" /\ cp[c] = "absent"
    /\ kub' = [kub EXCEPT ![c] = "idle"]
    /\ UNCHANGED <<alloc, cp, op, gpus, daemons, faults>>

\* A claim whose Prepare did not complete is rolled back, by the names of its
\* devices: it has no prepared devices to undo.
UnprepareBegin(c) ==
    /\ op = NoOp /\ kub[c] = "releasing" /\ cp[c] # "absent"
    /\ op' = [NoOp EXCEPT !.do = "unprepare", !.claim = c, !.pc = "pick",
                          !.todo = IF cp[c] = "completed" THEN Groups(alloc[c]) ELSE {}]
    /\ migs' \in RolledBack(c)
    /\ UNCHANGED <<alloc, cp, kub, mode, slice, daemons, faults>>

UnprepareGroup(g) ==
    /\ op.do = "unprepare" /\ op.pc = "pick" /\ g \in op.todo
    /\ op' = [op EXCEPT !.pc = "stat", !.todo = @ \ {g}, !.devs = g.devs,
                        !.want = "Default", !.left = g.devs \cap Gpus]
    /\ UNCHANGED <<alloc, cp, kub, gpus, daemons, faults>>

\* After the daemon: default time slice for all full GPUs.
AfterStop == IF TimeSlicingSettings THEN "mode" ELSE "pick"

\* MpsControlDaemon.Stop is for a daemon that has its rootDir.
StopStat ==
    /\ op.pc = "stat"
    /\ op' = Goto(IF root[D] THEN "delete" ELSE AfterStop)
    /\ UNCHANGED <<alloc, cp, kub, gpus, daemons, faults>>

\* Fault: NotFound is an error.
StopDeleteExisting ==
    /\ op.pc = "delete"
    /\ deploy' = [deploy EXCEPT ![D] = IF @ \in {"ready", "closing"}
                                       THEN "closing" ELSE "none"]
    /\ op' = IF deploy[D] = "none" THEN NoOp ELSE Goto("unmount")
    /\ UNCHANGED <<alloc, cp, kub, gpus, root, mounts, faults>>

\* Foreground deletion: a Deployment with ready pods stays until they are gone.
\* NotFound is no error.
StopDelete ==
    /\ op.pc = "delete"
    /\ deploy' = [deploy EXCEPT ![D] = IF @ \in {"ready", "closing"}
                                       THEN "closing" ELSE "none"]
    /\ op' = Goto("unmount")
    /\ UNCHANGED <<alloc, cp, kub, gpus, root, mounts, faults>>

\* Fault: does not look whether another mount is left.
StopUnmountOnce ==
    /\ op.pc = "unmount"
    /\ mounts' = [mounts EXCEPT ![D] = IF @ = 0 THEN 0 ELSE @ - 1]
    /\ op' = Goto("rmdir")
    /\ UNCHANGED <<alloc, cp, kub, gpus, deploy, root, faults>>

\* CleanupMountPoint unmounts once, and fails if shmDir is a mount point still.
StopUnmount ==
    /\ op.pc = "unmount"
    /\ mounts' = [mounts EXCEPT ![D] = IF @ = 0 THEN 0 ELSE @ - 1]
    /\ op' = IF mounts[D] > 1 THEN NoOp ELSE Goto("rmdir")
    /\ UNCHANGED <<alloc, cp, kub, gpus, deploy, root, faults>>

StopRemoveAll ==
    /\ op.pc = "rmdir"
    /\ root' = [root EXCEPT ![D] = FALSE]
    /\ op' = Goto(AfterStop)
    /\ UNCHANGED <<alloc, cp, kub, gpus, deploy, mounts, faults>>

\* deleteClaimFromCheckpoint, and the answer.
UnprepareForget ==
    /\ op.do = "unprepare" /\ op.pc = "pick" /\ op.todo = {}
    /\ cp' = [cp EXCEPT ![op.claim] = "absent"]
    /\ kub' = [kub EXCEPT ![op.claim] = "idle"]
    /\ op' = NoOp
    /\ UNCHANGED <<alloc, gpus, daemons, faults>>

\* Any step may return an error or be the last of the process.
StepFails ==
    /\ op # NoOp /\ faults < MaxFaults
    /\ op' = NoOp /\ faults' = faults + 1
    /\ UNCHANGED <<alloc, cp, kub, gpus, daemons>>

\* A rollback may fail, or end with the process, after some of its devices.
RollbackFails(c) ==
    /\ op = NoOp /\ cp[c] = "started" /\ faults < MaxFaults
    /\ kub[c] = "releasing" \/ (kub[c] = "preparing" /\ NoOverlap(c))
    /\ \E gone \in SUBSET Orphans(c) : migs' = IF NVMLDeviceHealthCheck THEN migs \ gone ELSE migs
    /\ faults' = faults + 1
    /\ UNCHANGED <<alloc, cp, kub, op, mode, slice, daemons>>

-----------------------------------------------------------------------------
(* Kubelet and API server                                                   *)

\* A pod that uses the claim comes and ends; the kubelet calls Unprepare until
\* it succeeds before it prepares the claim again.
Kubelet(c, from, to) ==
    /\ kub[c] = from
    /\ kub' = [kub EXCEPT ![c] = to]
    /\ UNCHANGED <<alloc, cp, op, gpus, daemons, faults>>

PodNeeds(c) ==
    /\ PromptReuse \/ \A devs \in SUBSET Devs : deploy[<<c, devs>>] # "closing"
    /\ Kubelet(c, "idle", "preparing")
PodGivesUp(c) == Kubelet(c, "preparing", "releasing")
PodEnds(c) == Kubelet(c, "running", "releasing")

KubeletStep(c) == PodNeeds(c) \/ PodGivesUp(c) \/ PodEnds(c)

Deployment(d, from, to) ==
    /\ deploy[d] = from
    /\ deploy' = [deploy EXCEPT ![d] = to]
    /\ UNCHANGED <<alloc, cp, kub, op, gpus, root, mounts, faults>>

DeploymentReady(d) == Deployment(d, "starting", "ready")
DeploymentUnready(d) == Deployment(d, "ready", "starting")
DeploymentGone(d) == Deployment(d, "closing", "none")

-----------------------------------------------------------------------------
Smi == \E g \in Gpus : SetComputeMode(g) \/ SetTimeSlice(g)
Start == StartCheck \/ MakeDirs \/ MountShm \/ CreateDeployment
Stop == StopStat \/ StopDelete \/ StopUnmount \/ StopRemoveAll

OpStep ==
    \/ \E g \in op.todo : ApplyConfig(g) \/ UnprepareGroup(g)
    \/ Smi \/ ComputeModeDone \/ TimeSliceDone
    \/ Start \/ AssertReady \/ AssertReadyTimeout
    \/ Stop
    \/ PrepareComplete \/ CreateSpecFails \/ UnprepareForget

Unprepare(c) == UnprepareNoop(c) \/ UnprepareBegin(c)

Next ==
    \/ \E c \in Claims :
          \/ PrepareCached(c) \/ PrepareBegin(c) \/ Unprepare(c)
          \/ RollbackFails(c) \/ KubeletStep(c)
    \/ OpStep \/ StepFails
    \/ \E d \in Daemons : DeploymentReady(d) \/ DeploymentUnready(d) \/ DeploymentGone(d)

Spec == Init /\ [][Next]_vars

\* Goroutines run, and the kubelet repeats a release until it gets its turn at
\* the lock.  Nothing is assumed of pods, Deployments or failures.
FairSpec == Spec /\ WF_vars(OpStep) /\ \A c \in Claims : SF_vars(Unprepare(c))

-----------------------------------------------------------------------------
(* Properties                                                               *)

\* prepareDevices gives each device of the claim to exactly one config group,
\* the one whose config the documented precedence demands, and refuses exactly
\* the allocations that cannot be served.
GroupsFollowPrecedence == \A c \in Claims : FollowsPrecedence(alloc[c])

\* The full GPUs of a claim in use whose governing config asks for this sharing.
InUse(c, sharing) ==
    {r.device : r \in {s \in OwnResults(alloc[c]) :
        /\ kub[c] = "running" /\ s.device \in Gpus
        /\ GoverningConfig(alloc[c], s).sharing = sharing}}

\* Every GPU in use under a time slicing config has that time slice and lets
\* several processes compute, whatever MPS daemons, failed preparations and
\* releases of other claims did to it before.
TimeSliceApplied ==
    \A c \in Claims, i \in {"Default", "Long"} : \A g \in InUse(c, i) :
        mode[g] = "DEFAULT" /\ (TimeSlicingSettings => slice[g] = i)

\* prepareDevices applies all configs: every GPU in use under an MPS config is
\* in exclusive mode, so that its daemon is the only one to use it.
ExclusiveUnderMps ==
    \A c \in Claims : \A g \in InUse(c, "mps") : mode[g] = "EXCLUSIVE_PROCESS"

\* A claim in use that shares by MPS has its control daemon: a Deployment not
\* being deleted, the directories its containers mount, and the tmpfs.
DaemonBacked ==
    \A c \in Claims : kub[c] = "running" =>
        \A g \in {h \in Groups(alloc[c]) : h.config.sharing = "mps"} :
            LET d == <<c, g.devs>>
            IN  deploy[d] \in {"starting", "ready"} /\ root[d] /\ mounts[d] > 0

\* The MIG devices of a claim in use exist: the rollback of another claim that was
\* allocated the same device leaves it alone, and no claim gets to use a device
\* its own rollback destroyed.
RunningMigsExist == \A c \in Claims : kub[c] = "running" => MigsOf(c) \subseteq migs

\* Static MIG devices belong to the administrator: without DynamicMIG a rollback
\* has nothing to do, and Prepare and Unprepare destroy none.
StaticMigsStay == migs = Migs

\* Unprepare drops the entry of a completed claim only when its daemons are
\* stopped, nothing of them is left mounted or on disk, and its GPUs are back at
\* the defaults, however often Prepare or Unprepare failed before.
ReleaseIsClean ==
    [][\A c \in Claims : cp[c] = "completed" /\ cp'[c] = "absent" =>
          \A g \in Groups(alloc[c]) :
              /\ deploy[<<c, g.devs>>] \in {"none", "closing"}
              /\ ~root[<<c, g.devs>>] /\ mounts[<<c, g.devs>>] = 0
              /\ TimeSlicingSettings => \A d \in g.devs \cap Gpus :
                    mode[d] = "DEFAULT" /\ slice[d] = "Default"]_vars

\* A release the kubelet keeps asking for ends, also when failed preparations
\* left several mounts on top of each other.
SharingReleased == \A c \in Claims : kub[c] = "releasing" ~> kub[c] = "idle"

\* The abstract status each entry stands for.
StatusOf == [absent |-> "unprepared", started |-> "preparing", completed |-> "prepared"]
ClaimStatus == [c \in Claims |-> StatusOf[cp[c]]]
Running == {c \in Claims : kub[c] = "running"}
Requested == UNION {AllocatedDevs(x[1][x[2]]) : x \in Inputs \X Claims}

\* Processes of one claim share a GPU; claims do not, but for admin access.
Service == INSTANCE ClaimService WITH
    Devices <- Requested, status <- ClaimStatus, inUse <- Running, known <- Claims,
    own <- [c \in Claims |-> NonAdminDevs(c)]

\* With time slices and MPS, too, Prepare and Unprepare implement the claim
\* service: a claim becomes prepared only while no other prepared claim has one of
\* its devices, and containers run on prepared claims only.
ImplementsClaimService == Service!Spec
-----------------------------------------------------------------------------
(* The inductive invariant                                                  *)

\* The steps on a control daemon that only one of the operations has.
Starts == {"start", "dirs", "mount", "create", "assert"}
Stops == {"stat", "delete", "unmount", "rmdir"}
SetsExclusive == op.pc = "mode" /\ op.want = "mps"

\* The group the operation is at is one of the claim's, and not to be done again.
OperationInv ==
    /\ op.do = "none" => op = NoOp
    /\ op.do # "none" =>
          /\ op.claim \in Claims /\ op.pc # "idle"
          /\ \A g \in op.todo : g \in Groups(alloc[op.claim])
          /\ op.pc # "pick" =>
                \E g \in Groups(alloc[op.claim]) \ op.todo :
                    /\ op.devs = g.devs /\ op.left \subseteq g.devs
                    /\ op.want = IF op.do = "prepare" THEN g.config.sharing ELSE "Default"
    /\ op.do = "prepare" =>
          /\ cp[op.claim] = "started" /\ kub[op.claim] \in {"preparing", "releasing"}
          /\ ~LookupFails(alloc[op.claim]) /\ op.pc \notin Stops
    /\ op.do = "unprepare" =>
          /\ cp[op.claim] # "absent" /\ kub[op.claim] = "releasing" /\ op.pc \notin Starts
          /\ cp[op.claim] = "started" => op.pc = "pick" /\ op.todo = {}
    /\ op.pc \in Starts => op.want = "mps"
    /\ op.pc = "slice" \/ (op.pc = "mode" /\ ~SetsExclusive) =>
          op.want \in {"Default", "Long"} /\ TimeSlicingSettings

EntryInv ==
    \A c \in Claims :
        /\ kub[c] = "running" => cp[c] = "completed"
        /\ kub[c] = "idle" => cp[c] = "absent"
        /\ cp[c] = "completed" => ~LookupFails(alloc[c])

\* A rollback looks at the completed claims before it destroys a device, and CDI
\* generation at the devices before the claim is completed.
MigInv == \A c \in Claims : cp[c] = "completed" => MigsOf(c) \subseteq migs

\* A Deployment has directories and tmpfs under it.  A tmpfs without one, or a
\* second tmpfs, was left by a failed step, but for the one Start has just
\* mounted and the one Stop is about to unmount.
DaemonInv ==
    \A d \in Daemons :
        /\ mounts[d] > 0 => root[d]
        /\ deploy[d] \in {"starting", "ready"} => mounts[d] > 0
        /\ mounts[d] <= faults + 1
        /\ \/ deploy[d] \in {"starting", "ready"} \/ mounts[d] <= faults
           \/ d = D /\ (SetsExclusive \/ op.pc \in {"create", "unmount"})

\* What the steps before this one have done for the group at hand.
ProgressInv ==
    /\ op.pc \in {"dirs", "mount", "create"} \/ SetsExclusive => deploy[D] = "none"
    /\ op.pc = "mount" => root[D]
    /\ op.pc = "create" \/ SetsExclusive => mounts[D] > 0
    /\ op.pc \in {"unmount", "rmdir"} => deploy[D] \in {"none", "closing"}
    /\ op.pc = "rmdir" => mounts[D] = 0
    /\ op.pc \in Stops => op.left = op.devs \cap Gpus
    /\ op.do = "unprepare" /\ op.pc \in {"mode", "slice"} =>
          deploy[D] \in {"none", "closing"} /\ ~root[D]
    /\ op.pc = "mode" /\ ~SetsExclusive =>
          \A g \in (op.devs \cap Gpus) \ op.left : mode[g] = "DEFAULT"
    /\ op.pc = "slice" =>
          \A g \in op.devs \cap Gpus :
              mode[g] = "DEFAULT" /\ (g \in op.left \/ slice[g] = op.want)

\* The groups the operation is through with.
Passed == {g \in Groups(alloc[op.claim]) \ op.todo : op.pc = "pick" \/ g.devs # op.devs}

Clean(c, g) ==
    /\ deploy[<<c, g.devs>>] \in {"none", "closing"} /\ ~root[<<c, g.devs>>]
    /\ TimeSlicingSettings => \A d \in g.devs \cap Gpus :
          mode[d] = "DEFAULT" /\ slice[d] = "Default"

CleanInv ==
    op.do = "unprepare" /\ cp[op.claim] = "completed" => \A g \in Passed : Clean(op.claim, g)

\* Claims that are prepared have no device in common, but for admin access.
ApartInv ==
    \A c, b \in Claims :
        c # b /\ cp[c] = "completed" /\ (cp[b] = "completed" \/ (op.do = "prepare" /\ op.claim = b))
           => NonAdminDevs(b) \cap NonAdminDevs(c) = {}

\* The claims whose groups have to be in force: those the kubelet uses or may
\* be told to use from the checkpoint.
Settled(c) == cp[c] = "completed" /\ kub[c] \in {"preparing", "running"}

Backed(c, g) == g.config.sharing = "mps" => deploy[<<c, g.devs>>] \in {"starting", "ready"}

\* Without PromptReuse, a Deployment found by Prepare is not about to go.
OpenInv ==
    \A c \in Claims, devs \in SUBSET Devs :
        kub[c] \in {"preparing", "running"} \/ (op.do = "prepare" /\ op.claim = c)
           => deploy[<<c, devs>>] # "closing"

\* The groups that have to be in force, and those Prepare is through with, have
\* their daemons.
SettledBacked == \A c \in Claims : Settled(c) => \A g \in Groups(alloc[c]) : Backed(c, g)
PassedBacked == op.do = "prepare" => \A g \in Passed : Backed(op.claim, g)

Sliced(g) ==
    g.config.sharing \in {"Default", "Long"} =>
        \A d \in g.devs \cap Gpus : mode[d] = "DEFAULT" /\ slice[d] = g.config.sharing

\* With TimeSlicingSettings, the same groups have their time slices.
SettledSliced == \A c \in Claims : Settled(c) => \A g \in Groups(alloc[c]) : Sliced(g)
PassedSliced == op.do = "prepare" => \A g \in Passed : Sliced(g)

\* What every operation keeps true: the inductive invariant, first the part that
\* needs no assumption on the constants.
CoreInv ==
    /\ SharingTypeOK /\ OperationInv /\ EntryInv /\ DaemonInv /\ ProgressInv
    /\ CleanInv /\ ApartInv /\ MigInv
BackedInv == OpenInv /\ SettledBacked /\ PassedBacked
SlicedInv == SettledSliced /\ PassedSliced
SharingInv == CoreInv /\ BackedInv /\ SlicedInv
=============================================================================
