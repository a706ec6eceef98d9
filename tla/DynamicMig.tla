----------------------------- MODULE DynamicMig -----------------------------
(***************************************************************************)
(* MIG devices on demand (feature gate DynamicMIG, HAMiCoreSupport off):   *)
(* DeviceState.Prepare creates the MIG devices a claim was allocated, in   *)
(* two NVML steps each (GPU instance, compute instance), Unprepare tears   *)
(* them down, a repeated Prepare and the cleanup manager roll back what an *)
(* unfinished Prepare left, and a starting plugin destroys the devices no  *)
(* completed claim names.  Every NVML call may fail, and the plugin may    *)
(* crash between any two of them.                                          *)
(*                                                                         *)
(* Abstractions.  One GPU: claims on different GPUs share only the lock.   *)
(* All operations run under the prepare/unprepare lock (DeviceState models *)
(* it), so one operation is under way at a time.  Partitions has what the  *)
(* GPU offers and what the scheduler goes by.  A MIG device handle maps 1:1 *)
(* to a compute instance (nvlib.go, createMigDevice): a GPU instance       *)
(* without one is not visible as a MIG device.  The node does not reboot.  *)
(***************************************************************************)
EXTENDS Partitions

CONSTANTS
    Claims,      \* ResourceClaim UIDs
    Ids,         \* GPU instance ids the model provides
    None,
    DevsOf,      \* the devices allocated to each claim
    Admin,       \* the devices allocated to each claim with admin access
    ReuseIds,    \* NVML may give a GPU instance the id of a destroyed one
    MaxFaults,   \* bound on failed calls
    MaxCrashes   \* bound on crashes of the plugin

GpuInstances == [dev : MigSpecs, ci : BOOLEAN, by : Claims]

ASSUME MigAssumption ==
    /\ None \notin Claims \cup Devs \cup Ids \cup GpuInstances
    /\ DevsOf \in [Claims -> SUBSET Devs]
    /\ Admin \in [Claims -> SUBSET Devs]
    /\ ReuseIds \in BOOLEAN
    /\ MaxFaults \in Nat /\ MaxCrashes \in Nat

VARIABLES
    \* The checkpoint.
    cp,      \* state of each claim's entry
    conc,    \* GPU instance id of each device of a completed claim (Concrete)
    \* The GPU.
    gi,      \* GPU instance under each id
    used,    \* ids given out so far
    mode,    \* MIG mode
    \* The plugin process.
    seen,    \* migEnabled of the GpuInfo enumerated at startup
    pc, op, claim,
    todo,    \* devices the current loop has yet to look at
    made,    \* ids of the devices created so far
    tgt,     \* the GPU instance being created or deleted
    \* The kubelet.
    kub,
    faults, crashes

checkpoint == <<cp, conc>>
gpu == <<gi, used, mode>>
proc == <<pc, op, claim, todo, made, tgt>>
count == <<faults, crashes>>
vars == <<checkpoint, gpu, seen, proc, kub, count>>

NoIds == [d \in MigSpecs |-> None]

MigTypeOK ==
    /\ cp \in [Claims -> {"absent", "started", "completed"}]
    /\ conc \in [Claims -> [MigSpecs -> Ids \cup {None}]]
    /\ gi \in [Ids -> GpuInstances \cup {None}]
    /\ used \in SUBSET Ids
    /\ mode \in BOOLEAN /\ seen \in BOOLEAN
    /\ pc \in {"down", "idle", "begin", "roll", "undo", "obliterate", "create", "createci",
               "destroyci", "destroygi", "count", "setmode", "forget"}
    /\ op \in {"none", "prepare", "unprepare", "obliterate", "disable"}
    /\ claim \in Claims \cup {None}
    /\ todo \in SUBSET Devs
    /\ made \in [MigSpecs -> Ids \cup {None}]
    /\ tgt \in Ids \cup {None}
    /\ kub \in [Claims -> {"idle", "wants", "running", "stopping", "gone"}]
    /\ faults \in 0..MaxFaults /\ crashes \in 0..MaxCrashes

Init ==
    /\ cp = [c \in Claims |-> "absent"]
    /\ conc = [c \in Claims |-> NoIds]
    /\ gi = [i \in Ids |-> None]
    /\ used = {}
    /\ mode \in BOOLEAN
    /\ seen = mode
    /\ pc = "down" /\ op = "none" /\ claim = None
    /\ todo = {} /\ made = NoIds /\ tgt = None
    /\ kub = [c \in Claims |-> "idle"]
    /\ faults = 0 /\ crashes = 0

-----------------------------------------------------------------------------
(* What the plugin sees of the GPU.                                         *)

\* The GPU instances that show as MIG devices, and the names they show under.
Visible == {i \in Ids : gi[i] # None /\ gi[i].ci}
VisibleDevs == {gi[i].dev : i \in Visible}

\* FindMigDevBySpec: the id of the MIG device of that name.
FindMigDevBySpec(d) == CHOOSE i \in Visible : gi[i].dev = d

\* getMigDevices looks for MIG devices only if MIG mode was on at startup.
Present == IF seen THEN Visible ELSE {}

Completed == {c \in Claims : cp[c] = "completed"}

\* Fault: no other claim is looked at.
UsedByNobody(d) == FALSE

\* deleteMigDevIfExistsAndNotUsedByCompletedClaim
UsedByCompleted(d) == \E c \in Completed : d \in DevsOf[c]

\* The devices of a claim whose names NewMigSpecTupleFromCanonicalName parses.
MigDevsOf(c) == DevsOf[c] \cap MigSpecs

\* requestedNonAdminDevices, GetNonAdminDevices
NonAdmin(c) == DevsOf[c] \ Admin[c]

\* Fault: only the claims of running containers count.
OverlapsRunning(c) ==
    \E o \in Completed \ {c} : kub[o] = "running" /\ NonAdmin(o) \cap NonAdmin(c) # {}

\* validateNoOverlappingPreparedDevices
Overlaps(c) == \E o \in Completed \ {c} : NonAdmin(o) \cap NonAdmin(c) # {}

-----------------------------------------------------------------------------
(* The plugin process and the kubelet.                                      *)

Idle ==
    /\ op' = "none" /\ claim' = None
    /\ todo' = {} /\ made' = NoIds /\ tgt' = None

\* The devices a starting plugin expects: those of completed claims.
ExpectedDevs == UNION {DevsOf[c] : c \in Completed}

\* NewDeviceState enumerates the GPU; DestroyUnknownMIGDevices then goes over
\* the MIG devices no completed claim names, before requests are served.
Start ==
    /\ pc = "down"
    /\ seen' = mode
    /\ pc' = "obliterate" /\ op' = "obliterate"
    /\ todo' = VisibleDevs \ ExpectedDevs
    /\ UNCHANGED <<checkpoint, gpu, claim, made, tgt, kub, count>>

Crash ==
    /\ pc # "down"
    /\ crashes < MaxCrashes
    /\ crashes' = crashes + 1
    /\ pc' = "down"
    /\ Idle
    /\ UNCHANGED <<checkpoint, gpu, seen, kub, faults>>

\* The claims whose devices the scheduler takes to be in use.  A pod that is
\* deleted by force frees them while the node has yet to stop it.
Live == {c \in Claims : kub[c] \in {"wants", "running"}}
Held == UNION {NonAdmin(o) : o \in Live}

\* The scheduler goes by the counters; admin access takes nothing.  A claim that
\* is gone for good and has no entry makes room for a new one.
PodArrives(c) ==
    /\ kub[c] = "idle" \/ (kub[c] = "gone" /\ cp[c] = "absent")
    /\ NonAdmin(c) \cap Held = {}
    /\ CountersAllow(Held \cup NonAdmin(c))
    /\ kub' = [kub EXCEPT ![c] = "wants"]
    /\ UNCHANGED <<checkpoint, gpu, seen, proc, count>>

PodStops(c) ==
    /\ kub[c] \in {"wants", "running"}
    /\ claim # c
    /\ kub' = [kub EXCEPT ![c] = "stopping"]
    /\ UNCHANGED <<checkpoint, gpu, seen, proc, count>>

\* The claim goes away and the kubelet never unprepares it: its containers
\* never ran.  The cleanup manager finds the entry if there is one.
ClaimDeleted(c) ==
    /\ kub[c] = "wants"
    /\ claim # c
    /\ cp[c] # "completed"
    /\ kub' = [kub EXCEPT ![c] = "gone"]
    /\ UNCHANGED <<checkpoint, gpu, seen, proc, count>>

Call(c, o) ==
    /\ pc = "idle"
    /\ pc' = "begin" /\ op' = o /\ claim' = c
    /\ UNCHANGED <<checkpoint, gpu, seen, todo, made, tgt, kub, count>>

CallPrepare(c) == kub[c] \in {"wants", "running"} /\ Call(c, "prepare")

CallUnprepare(c) ==
    /\ kub[c] = "stopping" \/ (kub[c] = "gone" /\ cp[c] = "started")
    /\ Call(c, "unprepare")

Return(ok) ==
    /\ pc' = "idle"
    /\ Idle
    /\ kub' = IF ~ok THEN kub
              ELSE [kub EXCEPT ![claim] =
                      CASE op = "prepare" /\ @ = "wants" -> "running"
                        [] op = "unprepare" /\ @ = "stopping" -> "idle"
                        [] OTHER -> @]

\* A call fails and its error is returned; during startup it is logged and the
\* program goes on.
Fail ==
    /\ pc \notin {"down", "idle"}
    /\ faults < MaxFaults
    /\ faults' = faults + 1
    /\ Return(FALSE)
    /\ UNCHANGED <<checkpoint, gpu, seen, crashes>>

-----------------------------------------------------------------------------
(* deleteMigDevice and maybeDisableMigMode, for the GPU instance tgt.       *)

\* Fault: the rollback of a repeated Prepare does not come back to its loop.
CallerOfUnprepare ==
    CASE op = "obliterate" -> "obliterate"
      [] op = "disable" -> "idle"
      [] op = "unprepare" /\ cp[claim] = "completed" -> "undo"
      [] op = "unprepare" -> "roll"
      [] OTHER -> op

\* The loop that called deleteMigDevice.
Caller ==
    CASE op = "obliterate" -> "obliterate"
      [] op = "disable" -> "idle"
      [] op \in {"prepare", "unprepare"} -> IF cp[claim] = "completed" THEN "undo" ELSE "roll"

Goto(s) ==
    /\ pc' = s
    /\ UNCHANGED <<op, claim, todo, made, tgt>>

\* NVML says not supported: MIG mode is off, nothing is there.
DeleteModeOff ==
    /\ pc = "destroyci"
    /\ ~mode
    /\ Goto(Caller)
    /\ UNCHANGED <<checkpoint, gpu, seen, kub, count>>

DeleteNotFound ==
    /\ pc = "destroyci"
    /\ mode /\ gi[tgt] = None
    /\ Goto("count")
    /\ UNCHANGED <<checkpoint, gpu, seen, kub, count>>

\* The instance with that id is taken for the one that was meant.
DestroyCi ==
    /\ pc = "destroyci"
    /\ mode /\ gi[tgt] # None
    /\ gi' = [gi EXCEPT ![tgt].ci = FALSE]
    /\ Goto("destroygi")
    /\ UNCHANGED <<checkpoint, used, mode, seen, kub, count>>

DestroyGi ==
    /\ pc = "destroygi"
    /\ gi' = [gi EXCEPT ![tgt] = None]
    /\ Goto("count")
    /\ UNCHANGED <<checkpoint, used, mode, seen, kub, count>>

\* maybeDisableMigMode leaves the mode on while MIG devices are present.
CountPresent ==
    /\ pc = "count"
    /\ Goto(IF Present # {} THEN Caller ELSE "setmode")
    /\ UNCHANGED <<checkpoint, gpu, seen, kub, count>>

\* SetMigMode may report success and leave the mode as it was; NVML keeps it
\* while there are GPU instances.
SetModeOff ==
    /\ pc = "setmode"
    /\ mode' \in IF \A i \in Ids : gi[i] = None THEN {FALSE, mode} ELSE {mode}
    /\ Goto(Caller)
    /\ UNCHANGED <<checkpoint, gi, used, seen, kub, count>>

-----------------------------------------------------------------------------
(* DestroyUnknownMIGDevices                                                 *)

ObliterateNext(d) ==
    /\ pc = "obliterate"
    /\ d \in todo
    /\ todo' = todo \ {d}
    /\ tgt' = FindMigDevBySpec(d)
    /\ pc' = "destroyci"
    /\ UNCHANGED <<checkpoint, gpu, seen, op, claim, made, kub, count>>

ObliterateDone ==
    /\ pc = "obliterate"
    /\ todo = {}
    /\ pc' = "count" /\ op' = "disable"
    /\ UNCHANGED <<checkpoint, gpu, seen, claim, todo, made, tgt, kub, count>>

-----------------------------------------------------------------------------
(* DeviceState.Prepare                                                      *)

PrepareCached ==
    /\ pc = "begin" /\ op = "prepare"
    /\ cp[claim] = "completed"
    /\ Return(TRUE)
    /\ UNCHANGED <<checkpoint, gpu, seen, count>>

PrepareRefused ==
    /\ pc = "begin" /\ op = "prepare"
    /\ cp[claim] # "completed"
    /\ Overlaps(claim)
    /\ Return(FALSE)
    /\ UNCHANGED <<checkpoint, gpu, seen, count>>

\* A previous attempt got as far as PrepareStarted: roll it back first.
PrepareRollback ==
    /\ pc = "begin" /\ op = "prepare"
    /\ cp[claim] = "started"
    /\ ~Overlaps(claim)
    /\ pc' = "roll" /\ todo' = MigDevsOf(claim)
    /\ UNCHANGED <<checkpoint, gpu, seen, op, claim, made, tgt, kub, count>>

PrepareStarted ==
    /\ op = "prepare"
    /\ \/ pc = "begin" /\ cp[claim] = "absent" /\ ~Overlaps(claim)
       \/ pc = "roll" /\ todo = {}
    /\ cp' = [cp EXCEPT ![claim] = "started"]
    /\ pc' = "create" /\ todo' = DevsOf[claim] /\ made' = NoIds
    /\ UNCHANGED <<conc, gpu, seen, op, claim, tgt, kub, count>>

\* The full GPU takes no preparation, nor does its release.
PrepareGpu ==
    /\ pc = "create" /\ FullGpu \in todo
    /\ todo' = todo \ {FullGpu}
    /\ UNCHANGED <<checkpoint, gpu, seen, pc, op, claim, made, tgt, kub, count>>

\* createMigDevice turns MIG mode on when it is off.
CreateEnable ==
    /\ pc = "create" /\ todo \cap MigSpecs # {}
    /\ ~mode
    /\ mode' = TRUE
    /\ UNCHANGED <<checkpoint, gi, used, seen, proc, kub, count>>

Blocked(d) == \E i \in Ids : gi[i] # None /\ PlacementsOverlap(gi[i].dev, d)

FreeIds == {i \in Ids : gi[i] = None} \ (IF ReuseIds THEN {} ELSE used)

CreateGi(d, i) ==
    /\ pc = "create" /\ d \in todo \cap MigSpecs
    /\ mode
    /\ ~Blocked(d)
    /\ i \in FreeIds
    /\ gi' = [gi EXCEPT ![i] = [dev |-> d, ci |-> FALSE, by |-> claim]]
    /\ used' = used \cup {i}
    /\ tgt' = i
    /\ pc' = "createci"
    /\ UNCHANGED <<checkpoint, mode, seen, op, claim, todo, made, kub, count>>

\* NVML: insufficient resources.
CreateRefused(d) ==
    /\ pc = "create" /\ d \in todo \cap MigSpecs
    /\ mode
    /\ Blocked(d) \/ FreeIds = {}
    /\ Return(FALSE)
    /\ UNCHANGED <<checkpoint, gpu, seen, count>>

CreateCi ==
    /\ pc = "createci"
    /\ gi' = [gi EXCEPT ![tgt].ci = TRUE]
    /\ made' = [made EXCEPT ![gi[tgt].dev] = tgt]
    /\ todo' = todo \ {gi[tgt].dev}
    /\ pc' = "create"
    /\ UNCHANGED <<checkpoint, used, mode, seen, op, claim, tgt, kub, count>>

PrepareComplete ==
    /\ pc = "create" /\ todo = {}
    /\ cp' = [cp EXCEPT ![claim] = "completed"]
    /\ conc' = [conc EXCEPT ![claim] = made]
    /\ Return(TRUE)
    /\ UNCHANGED <<gpu, seen, count>>

-----------------------------------------------------------------------------
(* DeviceState.Unprepare and unpreparePartiallyPrepairedClaim               *)

UnprepareNoop ==
    /\ pc = "begin" /\ op = "unprepare"
    /\ cp[claim] = "absent"
    /\ Return(TRUE)
    /\ UNCHANGED <<checkpoint, gpu, seen, count>>

\* Fault: an unfinished preparation is taken to have left nothing.
UnprepareLoopSkipping(s) == IF s = "completed" THEN "undo" ELSE "forget"

UnprepareLoop(s) == IF s = "completed" THEN "undo" ELSE "roll"

UnprepareBegin ==
    /\ pc = "begin" /\ op = "unprepare"
    /\ cp[claim] # "absent"
    /\ pc' = UnprepareLoop(cp[claim]) /\ todo' = MigDevsOf(claim)
    /\ UNCHANGED <<checkpoint, gpu, seen, op, claim, made, tgt, kub, count>>

\* A device a completed claim uses, or that is not there, is left alone.
RollSkip(d) ==
    /\ pc = "roll" /\ d \in todo
    /\ UsedByCompleted(d) \/ d \notin VisibleDevs
    /\ todo' = todo \ {d}
    /\ UNCHANGED <<checkpoint, gpu, seen, pc, op, claim, made, tgt, kub, count>>

RollDelete(d) ==
    /\ pc = "roll" /\ d \in todo
    /\ ~UsedByCompleted(d) /\ d \in VisibleDevs
    /\ todo' = todo \ {d}
    /\ tgt' = FindMigDevBySpec(d)
    /\ pc' = "destroyci"
    /\ UNCHANGED <<checkpoint, gpu, seen, op, claim, made, kub, count>>

\* unprepareDevices goes by the recorded GPU instance id.
UndoDelete(d) ==
    /\ pc = "undo" /\ d \in todo
    /\ todo' = todo \ {d}
    /\ tgt' = conc[claim][d]
    /\ pc' = "destroyci"
    /\ UNCHANGED <<checkpoint, gpu, seen, op, claim, made, kub, count>>

UnprepareLoopDone ==
    /\ pc \in {"roll", "undo"} /\ op = "unprepare"
    /\ todo = {}
    /\ Goto("forget")
    /\ UNCHANGED <<checkpoint, gpu, seen, kub, count>>

UnprepareForget ==
    /\ pc = "forget"
    /\ cp' = [cp EXCEPT ![claim] = "absent"]
    /\ conc' = [conc EXCEPT ![claim] = NoIds]
    /\ Return(TRUE)
    /\ UNCHANGED <<gpu, seen, count>>

-----------------------------------------------------------------------------
Kubelet ==
    \E c \in Claims :
        \/ PodArrives(c) \/ PodStops(c) \/ ClaimDeleted(c)
        \/ CallPrepare(c) \/ CallUnprepare(c)

Delete ==
    \/ DeleteModeOff \/ DeleteNotFound \/ DestroyCi \/ DestroyGi
    \/ CountPresent \/ SetModeOff

Prepare ==
    \/ PrepareCached \/ PrepareRefused \/ PrepareRollback \/ PrepareStarted
    \/ PrepareGpu \/ CreateEnable \/ CreateCi \/ PrepareComplete
    \/ \E d \in MigSpecs : CreateRefused(d) \/ \E i \in Ids : CreateGi(d, i)

Unprepare ==
    \/ UnprepareNoop \/ UnprepareBegin \/ UnprepareLoopDone \/ UnprepareForget
    \/ \E d \in MigSpecs : RollSkip(d) \/ RollDelete(d) \/ UndoDelete(d)

Next ==
    \/ Start \/ Crash \/ Fail
    \/ Kubelet \/ Delete \/ Prepare \/ Unprepare
    \/ ObliterateDone \/ \E d \in MigSpecs : ObliterateNext(d)

Spec == Init /\ [][Next]_vars

-----------------------------------------------------------------------------
(* Properties                                                               *)

\* A prepared claim that is not being released has its MIG devices: the very
\* ones created for it, complete, under the recorded ids.  No rollback, no
\* cleanup, no startup and no other claim's Unprepare destroys them.
PreparedDevicesExist ==
    \A c \in Claims : cp[c] = "completed" /\ kub[c] \in {"wants", "running"} =>
        \A d \in MigDevsOf(c) :
            gi[conc[c][d]] = [dev |-> d, ci |-> TRUE, by |-> c]

\* No MIG device is ours and forgotten: as long as one exists, the checkpoint
\* has an entry of a claim it was allocated to, so Unprepare, the cleanup
\* manager or the next Prepare will look at it.
MigDeviceTracked ==
    \A i \in Visible : \E c \in Claims : cp[c] # "absent" /\ gi[i].dev \in DevsOf[c]

\* Two claims are never both prepared on one device, but for admin access.
NoDeviceTwice ==
    \A c, o \in Completed : c # o => NonAdmin(c) \cap NonAdmin(o) = {}

\* The counters keep claims apart on the GPU: no claim is allocated a device that
\* another live claim's MIG devices stand in the way of, so that only leftovers of
\* claims that are gone, and admin access, can make NVML refuse one.
LiveClaimsFit ==
    \A c, o \in Live : c # o => \A d \in NonAdmin(c) :
        /\ \A e \in NonAdmin(o) : ~PlacementsOverlap(d, e)
        /\ \A i \in Ids : gi[i] # None /\ gi[i].by = o =>
            ~PlacementsOverlap(d, gi[i].dev)

\* Every device that is announced can be had, since on a GPU nobody uses the
\* counters allow each one; the full GPU drops all of them to zero.
AnnouncedCanBeHad ==
    pc = "down" =>
        /\ \A d \in Devs : CountersAllow({d})
        /\ \A m \in MigSpecs : ~CountersAllow({m, FullGpu})

\* The abstract status each entry stands for.
StatusOf == [absent |-> "unprepared", started |-> "preparing", completed |-> "prepared"]
ClaimStatus == [c \in Claims |-> StatusOf[cp[c]]]
InUse == {c \in Claims : kub[c] = "running"}

\* A device allocated without admin access is the claim's alone.
Service == INSTANCE ClaimService WITH
    Devices <- Devs, status <- ClaimStatus, inUse <- InUse, known <- Claims,
    own <- [c \in Claims |-> NonAdmin(c)]

\* With MIG devices, too, Prepare, Unprepare and their rollbacks implement the
\* claim service: a claim becomes prepared only while no other prepared claim has
\* one of its devices, and stays so for as long as its containers run.
ImplementsClaimService == Service!Spec

-----------------------------------------------------------------------------
(* The inductive invariant                                                  *)

Deletes == {"destroyci", "destroygi"}
Cleans == Deletes \cup {"count", "setmode"}
Creates == {"create", "createci"}

\* Each step belongs to one operation, and an operation to a claim: the kubelet's
\* or, for a claim that is gone, the cleanup manager's.
OperationInv ==
    /\ pc \in {"down", "idle"} => op \in {"none", "disable"}
    /\ op = "none" => pc \in {"down", "idle"}
    /\ op = "disable" => pc \in {"idle", "count", "setmode"} /\ todo = {}
    /\ op = "obliterate" => pc \in {"obliterate"} \cup Cleans
    /\ pc = "obliterate" => op = "obliterate"
    /\ pc \in Creates => op = "prepare"
    /\ pc \in {"undo", "forget"} => op = "unprepare"
    /\ IF op \in {"prepare", "unprepare"} THEN claim \in Claims ELSE claim = None
    /\ op = "prepare" => kub[claim] \in {"wants", "running"}
    /\ op = "unprepare" => \/ kub[claim] = "stopping"
                           \/ kub[claim] = "gone" /\ cp[claim] = "started"

\* The entry of the claim at work, and what its loop has yet to look at.
LoopInv ==
    /\ \A c \in Claims : kub[c] = "idle" => cp[c] = "absent"
    /\ pc \in {"roll"} \cup Creates => cp[claim] = "started"
    /\ pc = "undo" => cp[claim] = "completed"
    /\ pc = "forget" => cp[claim] # "absent" /\ todo = {}
    /\ op = "prepare" /\ pc # "begin" => cp[claim] = "started" /\ ~Overlaps(claim)
    /\ op = "unprepare" /\ pc \in Cleans => cp[claim] # "absent"
    /\ op \in {"prepare", "unprepare"} /\ pc \in {"roll", "undo"} \cup Cleans =>
        todo \subseteq MigDevsOf(claim)
    /\ pc \in Creates => todo \subseteq DevsOf[claim]
    /\ op = "obliterate" =>
        /\ todo \subseteq VisibleDevs \ ExpectedDevs
        /\ pc = "destroyci" /\ gi[tgt] # None => gi[tgt].dev \notin todo

\* GPU instances are of claims that were allocated them, do not overlap, and
\* there is none while MIG mode is off.
GpuInv ==
    /\ \A i \in Ids : gi[i] # None =>
        i \in used /\ mode /\ gi[i].dev \in MigDevsOf(gi[i].by)
    /\ \A i, j \in Ids : gi[i] # None /\ gi[j] # None /\ i # j =>
        ~PlacementsOverlap(gi[i].dev, gi[j].dev)

\* What the current Prepare has created.
CreateInv ==
    /\ pc \in Creates => \A d \in MigDevsOf(claim) \ todo :
        made[d] \in Ids /\ gi[made[d]] = [dev |-> d, ci |-> TRUE, by |-> claim]
    /\ pc = "createci" =>
        /\ tgt \in Ids /\ gi[tgt] # None
        /\ gi[tgt].dev \in todo /\ ~gi[tgt].ci /\ gi[tgt].by = claim

\* The GPU instance being deleted: one no completed claim names, or one the claim
\* under release has on record.
TargetInv ==
    /\ \A c \in Completed : \A d \in MigDevsOf(c) : conc[c][d] \in Ids
    /\ pc \in Deletes =>
        /\ tgt \in Ids
        /\ IF op = "unprepare" /\ cp[claim] = "completed"
           THEN \E d \in MigDevsOf(claim) : tgt = conc[claim][d]
           ELSE gi[tgt] # None => ~UsedByCompleted(gi[tgt].dev)
    /\ pc = "destroygi" => gi[tgt] # None /\ ~gi[tgt].ci

\* An id on record is of the very instance created for the claim, or of none.
RecordInv ==
    /\ PreparedDevicesExist
    /\ \A c \in Completed : \A d \in MigDevsOf(c) :
        LET i == conc[c][d]
        IN  i \in used /\ (gi[i] # None => gi[i].dev = d /\ gi[i].by = c)

\* A device the loops have looked at is gone, or is that of another, completed
\* claim; the device of a completed claim is the one it has on record.
TrackInv ==
    /\ MigDeviceTracked
    /\ \A c \in Completed : \A i \in Visible :
        gi[i].dev \in MigDevsOf(c) => conc[c][gi[i].dev] = i
    /\ op = "unprepare" /\ pc \in {"roll", "undo", "forget"} \cup Cleans =>
        \A i \in Visible : gi[i].dev \in MigDevsOf(claim) \ todo =>
            \/ pc = "destroyci" /\ tgt = i
            \/ cp[claim] = "started" /\ UsedByCompleted(gi[i].dev)

\* What holds between any two NVML calls, checkpoint writes, failures and crashes.
MigInv ==
    /\ MigTypeOK /\ OperationInv /\ LoopInv /\ GpuInv /\ CreateInv /\ TargetInv
    /\ NoDeviceTwice /\ RecordInv /\ TrackInv /\ LiveClaimsFit
=============================================================================
