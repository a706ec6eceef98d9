---------------------------- MODULE DeviceState ----------------------------
(***************************************************************************)
(* The life of a ResourceClaim in the kubelet plugin, in the default mode  *)
(* (feature gate HAMiCoreSupport): DeviceState.Prepare and Unprepare with  *)
(* every effect they leave on the node (checkpoint entry, per-container    *)
(* cache directory with its ownership marker, CDI spec file), called by    *)
(* concurrent gRPC handlers and by the checkpoint cleanup manager, under   *)
(* the prepare/unprepare file lock, with failures, abandoned calls,        *)
(* crashes of the plugin and reboots of the node between any two effects.  *)
(*                                                                         *)
(* Abstractions.                                                           *)
(*  - A claim is its UID.  NameOf[c] is its namespace/name: two UIDs may   *)
(*    share a name, never at the same time.                                *)
(*  - A claim names one container of the pod that reserves it, so a cache  *)
(*    directory is identified by claim and pod.                            *)
(*  - A directory is "owned" when it holds the marker .claim-<uid> or the  *)
(*    file <uid>.cache, or is the legacy directory claims/<uid>;           *)
(*    "unowned" when it exists with none of them.                          *)
(*  - The mutex of DeviceState is always taken with the file lock held and *)
(*    is not a second variable.  A read or read-mutate-write of the        *)
(*    checkpoint is one step: both happen under the cplock and the         *)
(*    checkpoint manager replaces the file atomically.                     *)
(*  - Allocation results, devices and limits do not appear: nothing here   *)
(*    depends on which devices a claim holds.                              *)
(***************************************************************************)
EXTENDS Integers, FiniteSets

CONSTANTS
    Claims,      \* ResourceClaim UIDs
    Pods,        \* pod UIDs
    Workers,     \* gRPC handler goroutines (kubeletplugin.Serialize(false))
    Cleaner,     \* the goroutine that runs CheckpointCleanupManager.cleanup
    None,        \* no claim, no pod, no lock holder
    NameOf,      \* namespace/name of each claim
    LateOps,     \* operations an abandoned call may still start (see Acquire)
    Upgrade,     \* the node may carry claims of a version without boot ids
    MaxFaults,   \* bound on failed steps and abandoned calls
    MaxCrashes,  \* bound on crashes of the plugin
    MaxReboots   \* bound on reboots of the node

Procs == Workers \cup {Cleaner}

Ops == {"prepare", "unprepare"}

ASSUME ConstantsAssumption ==
    /\ Cleaner \notin Workers
    /\ None \notin Procs \cup Claims \cup Pods
    /\ NameOf \in [Claims -> Claims]
    /\ LateOps \subseteq Ops
    /\ Upgrade \in BOOLEAN
    /\ MaxFaults \in Nat /\ MaxCrashes \in Nat /\ MaxReboots \in Nat

VARIABLES
    \* The node's disk.
    cp,       \* checkpoint entry of each claim
    cpBoot,   \* NodeBootID of the checkpoint file
    cdi,      \* claims that have a CDI spec file
    dir,      \* dir[c][q]: cache directory of claim c in pod q
    boot,     \* the kernel's boot id
    \* The plugin process.
    up,       \* it accepts requests
    pulock,   \* holder of the prepare/unprepare file lock
    pc,       \* next step of each goroutine
    op,       \* operation a goroutine runs
    claim,    \* claim it runs it for
    pod,      \* pod (directory) it works on
    ctx,      \* the caller still waits: its context is not cancelled
    sweep,    \* PrepareStarted claims the current cleanup has yet to look at
    queue,    \* a cleanup task waits in the channel of capacity one
    \* The API server and the kubelet.
    api,      \* ResourceClaim object of each UID
    kub,      \* what the kubelet does with each claim
    user,     \* the pod that reserves a claim (status.reservedFor[0])
    \* How much has gone wrong so far.
    faults, crashes

disk == <<cp, cpBoot, cdi, dir>>
proc == <<pc, op, claim, pod, ctx>>
cleanup == <<sweep, queue>>
env == <<api, kub, user>>
count == <<faults, crashes>>
vars == <<disk, boot, up, pulock, proc, cleanup, env, count>>

NoFile == -1     \* no checkpoint file on disk
NoBootID == 0    \* a checkpoint file that records no boot id

DirStates == {"none", "unowned", "owned"}

\* Steps taken with the prepare/unprepare lock held.
PrepareSteps == {"label", "wipe", "mkdir", "mark", "spec", "complete"}
UnprepareSteps == {"scan", "rmdir", "delspec", "forget"}
Locked == {"begin"} \cup PrepareSteps \cup UnprepareSteps
Steps == {"idle", "lock", "list", "next"} \cup Locked

DiskTypeOK ==
    /\ cp \in [Claims -> {"absent", "started", "completed"}]
    /\ cpBoot \in Int
    /\ cdi \in SUBSET Claims
    /\ dir \in [Claims -> [Pods -> DirStates]]
    /\ boot \in Nat \ {0}

ProcTypeOK ==
    /\ up \in BOOLEAN
    /\ pulock \in Procs \cup {None}
    /\ pc \in [Procs -> Steps]
    /\ op \in [Procs -> Ops]
    /\ claim \in [Procs -> Claims \cup {None}]
    /\ pod \in [Procs -> Pods \cup {None}]
    /\ ctx \in [Procs -> BOOLEAN]
    /\ sweep \in SUBSET Claims
    /\ queue \in BOOLEAN

EnvTypeOK ==
    /\ api \in [Claims -> {"none", "live", "deleted"}]
    /\ kub \in [Claims -> {"idle", "wants", "running", "stopping"}]
    /\ user \in [Claims -> Pods \cup {None}]
    /\ faults \in Nat
    /\ crashes \in Nat

\* The type invariant.
TypeOK == DiskTypeOK /\ ProcTypeOK /\ EnvTypeOK

-----------------------------------------------------------------------------
(* The plugin process: start, crash, reboot.                               *)

\* A node on which the plugin has never run, or one whose plugin was just
\* upgraded: then the claims `old' were prepared by a version that recorded no
\* boot id, and their containers still run.
Init ==
    /\ \E old \in SUBSET Claims, q \in Pods :
        /\ old # {} => Upgrade
        /\ \A c, d \in old : NameOf[c] = NameOf[d] => c = d
        /\ cp = [c \in Claims |-> IF c \in old THEN "completed" ELSE "absent"]
        /\ cpBoot = IF old = {} THEN NoFile ELSE NoBootID
        /\ cdi = old
        /\ dir = [c \in Claims |-> [r \in Pods |->
                    IF c \in old /\ r = q THEN "owned" ELSE "none"]]
        /\ api = [c \in Claims |-> IF c \in old THEN "live" ELSE "none"]
        /\ kub = [c \in Claims |-> IF c \in old THEN "running" ELSE "idle"]
        /\ user = [c \in Claims |-> IF c \in old THEN q ELSE None]
    /\ boot = 1
    /\ up = FALSE
    /\ pulock = None
    /\ pc = [p \in Procs |-> "idle"]
    /\ op = [p \in Procs |-> "unprepare"]
    /\ claim = [p \in Procs |-> None]
    /\ pod = [p \in Procs |-> None]
    /\ ctx = [p \in Procs |-> FALSE]
    /\ sweep = {}
    /\ queue = FALSE
    /\ faults = 0
    /\ crashes = 0

\* Fault: a checkpoint of any boot is kept.
KeepCheckpointOfAnyBoot == cpBoot # NoFile

\* initCheckpoint: the stored boot id is the current one or was not recorded.
KeepCheckpoint == cpBoot \in {boot, NoBootID}

\* NewDeviceState ... initCheckpoint: keep a checkpoint of this boot, adopt one
\* without a boot id, otherwise start from an empty one.  The cleanup manager
\* begins with an immediate cleanup.
Start ==
    /\ ~up
    /\ up' = TRUE
    /\ cpBoot' = boot
    /\ cp' = IF KeepCheckpoint THEN cp ELSE [c \in Claims |-> "absent"]
    /\ pc' = [pc EXCEPT ![Cleaner] = "list"]
    /\ UNCHANGED <<cdi, dir, boot, pulock, op, claim, pod, ctx, cleanup, env, count>>

\* What the end of the process undoes: goroutines, channel, and the file lock,
\* which the kernel drops.
ProcessEnds ==
    /\ up' = FALSE
    /\ pulock' = None
    /\ pc' = [p \in Procs |-> "idle"]
    /\ op' = [p \in Procs |-> "unprepare"]
    /\ claim' = [p \in Procs |-> None]
    /\ pod' = [p \in Procs |-> None]
    /\ ctx' = [p \in Procs |-> FALSE]
    /\ sweep' = {}
    /\ queue' = FALSE

Crash ==
    /\ up
    /\ crashes < MaxCrashes
    /\ crashes' = crashes + 1
    /\ ProcessEnds
    /\ UNCHANGED <<disk, boot, env, faults>>

\* The CDI root of the chart (/var/run/cdi) is volatile, the checkpoint and the
\* cache directories are not.  Containers die; the kubelet prepares again.
Reboot ==
    /\ boot <= MaxReboots
    /\ boot' = boot + 1
    /\ ProcessEnds
    /\ cdi' = {}
    /\ kub' = [c \in Claims |-> IF kub[c] = "running" THEN "wants" ELSE kub[c]]
    /\ UNCHANGED <<cp, cpBoot, dir, api, user, count>>

-----------------------------------------------------------------------------
(* The kubelet and the API server.                                         *)

\* A handler works on c and its caller still waits for the answer.
Calling(c) == \E w \in Workers : pc[w] # "idle" /\ claim[w] = c /\ ctx[w]

Create(c) ==
    /\ api[c] = "none"
    /\ \A d \in Claims : NameOf[d] = NameOf[c] => api[d] # "live"
    /\ api' = [api EXCEPT ![c] = "live"]
    /\ UNCHANGED <<disk, boot, up, pulock, proc, cleanup, kub, user, count>>

\* Deletion waits for the reservation to go, but a pod can be force-deleted
\* under a kubelet that still holds the claim: any time.
Delete(c) ==
    /\ api[c] = "live"
    /\ api' = [api EXCEPT ![c] = "deleted"]
    /\ UNCHANGED <<disk, boot, up, pulock, proc, cleanup, kub, user, count>>

PodArrives(c, q) ==
    /\ kub[c] = "idle"
    /\ api[c] = "live"
    /\ kub' = [kub EXCEPT ![c] = "wants"]
    /\ user' = [user EXCEPT ![c] = q]
    /\ UNCHANGED <<disk, boot, up, pulock, proc, cleanup, api, count>>

\* The containers have stopped; the pod's worker has no call under way.
PodStops(c) ==
    /\ kub[c] \in {"wants", "running"}
    /\ ~Calling(c)
    /\ kub' = [kub EXCEPT ![c] = "stopping"]
    /\ UNCHANGED <<disk, boot, up, pulock, proc, cleanup, api, user, count>>

Call(w, c, o) ==
    /\ up
    /\ pc[w] = "idle"
    /\ ~Calling(c)
    /\ pc' = [pc EXCEPT ![w] = "lock"]
    /\ op' = [op EXCEPT ![w] = o]
    /\ claim' = [claim EXCEPT ![w] = c]
    /\ ctx' = [ctx EXCEPT ![w] = TRUE]
    /\ UNCHANGED <<disk, boot, up, pulock, cleanup, env, count>>

\* NodePrepareResources, also for a claim whose containers run already (the
\* kubelet or the plugin restarted).  The claim object comes from the API server.
CallPrepare(w, c) ==
    /\ kub[c] \in {"wants", "running"}
    /\ api[c] = "live"
    /\ pod' = [pod EXCEPT ![w] = user[c]]
    /\ Call(w, c, "prepare")

CallUnprepare(w, c) ==
    /\ kub[c] = "stopping"
    /\ pod' = pod
    /\ Call(w, c, "unprepare")

\* The kubelet gives up on a call; the handler goes on.
Abandon(w) ==
    /\ pc[w] # "idle" /\ ctx[w]
    /\ faults < MaxFaults
    /\ faults' = faults + 1
    /\ ctx' = [ctx EXCEPT ![w] = FALSE]
    /\ UNCHANGED <<disk, boot, up, pulock, pc, op, claim, pod, cleanup, env, crashes>>

-----------------------------------------------------------------------------
(* nodePrepareResource and nodeUnprepareResource: lock, operation, answer.  *)

\* Fault: the lock is taken over from a holder that still works.
AcquireBusy(p) ==
    /\ pc[p] = "lock"
    /\ ctx[p] \/ op[p] \in LateOps
    /\ pulock' = p
    /\ pc' = [pc EXCEPT ![p] = "begin"]
    /\ UNCHANGED <<disk, boot, up, op, claim, pod, ctx, cleanup, env, count>>

\* pulock.Acquire.  A cancelled context ends the wait, but a free lock may be
\* had without one: the loop over the claims of a request does not look at the
\* context, and reaches the later claims after its caller has gone.  LateOps
\* says for which operations.
Acquire(p) ==
    /\ pc[p] = "lock"
    /\ pulock = None
    /\ ctx[p] \/ op[p] \in LateOps
    /\ pulock' = p
    /\ pc' = [pc EXCEPT ![p] = "begin"]
    /\ UNCHANGED <<disk, boot, up, op, claim, pod, ctx, cleanup, env, count>>

\* The kubelet's view after the answer `ok' to p reaches it.
Answered(p, ok) ==
    IF ~ok \/ ~ctx[p] \/ p \notin Workers
    THEN kub
    ELSE [kub EXCEPT ![claim[p]] =
            IF op[p] = "unprepare" THEN "idle"
            ELSE IF @ = "wants" THEN "running" ELSE @]

\* The goroutine p is done with its claim.
Done(p) ==
    /\ pc' = [pc EXCEPT ![p] = IF p = Cleaner THEN "next" ELSE "idle"]
    /\ op' = [op EXCEPT ![p] = "unprepare"]
    /\ claim' = [claim EXCEPT ![p] = None]
    /\ pod' = [pod EXCEPT ![p] = None]
    /\ ctx' = [ctx EXCEPT ![p] = FALSE]

\* Fault: the lock is released on success only.
ReleaseOnSuccess(p, ok) == pulock' = IF pulock = p /\ ok THEN None ELSE pulock

\* The deferred release, run on every return after Acquire.
Release(p, ok) == pulock' = IF pulock = p THEN None ELSE pulock

\* Return from the handler (the cleaner: from its unprepare callback): the
\* deferred release of the lock and the answer.
Return(p, ok) ==
    /\ Release(p, ok)
    /\ Done(p)
    /\ kub' = Answered(p, ok)
    /\ UNCHANGED <<boot, up, cleanup, api, user, crashes>>

\* The lock is busy for the whole timeout, or the caller is gone.
AcquireFails(p) ==
    /\ pc[p] = "lock"
    /\ pulock # None \/ ~ctx[p]
    /\ Return(p, FALSE)
    /\ UNCHANGED <<disk, faults>>

\* One call of Prepare or Unprepare fails and is returned as an error: the
\* checkpoint cannot be read or written, the pod not resolved, a directory not
\* removed or created, the spec not written.  What was done stays done.
\* (DeleteClaimSpecFile's error is not returned: see UnprepareSpec.)
StepFails(p) ==
    /\ pc[p] \in Locked \ {"delspec"}
    /\ faults < MaxFaults
    /\ faults' = faults + 1
    /\ Return(p, FALSE)
    /\ UNCHANGED disk

Goto(p, s) == pc' = [pc EXCEPT ![p] = s]

-----------------------------------------------------------------------------
(* DeviceState.Prepare                                                      *)

\* Fault: the state of an existing entry is not looked at.
AlreadyPreparedIgnored(c) == FALSE

AlreadyPrepared(c) == cp[c] = "completed"

\* A claim that is PrepareCompleted is answered from the checkpoint.
PrepareCached(p) ==
    /\ pc[p] = "begin" /\ op[p] = "prepare"
    /\ AlreadyPrepared(claim[p])
    /\ Return(p, TRUE)
    /\ UNCHANGED <<disk, faults>>

\* Any other one is recorded as PrepareStarted; in this mode what an earlier
\* attempt left behind is not rolled back.
PrepareBegin(p) ==
    /\ pc[p] = "begin" /\ op[p] = "prepare"
    /\ ~AlreadyPrepared(claim[p])
    /\ cp' = [cp EXCEPT ![claim[p]] = "started"]
    /\ Goto(p, "label")
    /\ UNCHANGED <<cpBoot, cdi, dir, boot, up, pulock, op, claim, pod, ctx, cleanup, env, count>>

\* resolveClaimToPod and ensurePodMonitorLabel talk to the API server with the
\* caller's context.
PrepareLabel(p) ==
    /\ pc[p] = "label"
    /\ ctx[p]
    /\ Goto(p, "wipe")
    /\ UNCHANGED <<disk, boot, up, pulock, op, claim, pod, ctx, cleanup, env, count>>

PrepareLabelCancelled(p) ==
    /\ pc[p] = "label"
    /\ ~ctx[p]
    /\ Return(p, FALSE)
    /\ UNCHANGED <<disk, faults>>

SetDir(c, q, d) == dir' = [dir EXCEPT ![c][q] = d]

\* os.RemoveAll: first what the directory holds, then the directory.
PrepareWipe(p) ==
    /\ pc[p] = "wipe"
    /\ dir[claim[p]][pod[p]] = "owned"
    /\ SetDir(claim[p], pod[p], "unowned")
    /\ UNCHANGED <<cp, cpBoot, cdi, boot, up, pulock, proc, cleanup, env, count>>

PrepareWiped(p) ==
    /\ pc[p] = "wipe"
    /\ dir[claim[p]][pod[p]] # "owned"
    /\ SetDir(claim[p], pod[p], "none")
    /\ Goto(p, "mkdir")
    /\ UNCHANGED <<cp, cpBoot, cdi, boot, up, pulock, op, claim, pod, ctx, cleanup, env, count>>

PrepareMkdir(p) ==
    /\ pc[p] = "mkdir"
    /\ SetDir(claim[p], pod[p], "unowned")
    /\ Goto(p, "mark")
    /\ UNCHANGED <<cp, cpBoot, cdi, boot, up, pulock, op, claim, pod, ctx, cleanup, env, count>>

PrepareMark(p) ==
    /\ pc[p] = "mark"
    /\ SetDir(claim[p], pod[p], "owned")
    /\ Goto(p, "spec")
    /\ UNCHANGED <<cp, cpBoot, cdi, boot, up, pulock, op, claim, pod, ctx, cleanup, env, count>>

PrepareSpec(p) ==
    /\ pc[p] = "spec"
    /\ cdi' = cdi \cup {claim[p]}
    /\ Goto(p, "complete")
    /\ UNCHANGED <<cp, cpBoot, dir, boot, up, pulock, op, claim, pod, ctx, cleanup, env, count>>

PrepareComplete(p) ==
    /\ pc[p] = "complete"
    /\ cp' = [cp EXCEPT ![claim[p]] = "completed"]
    /\ Return(p, TRUE)
    /\ UNCHANGED <<cpBoot, cdi, dir, faults>>

-----------------------------------------------------------------------------
(* DeviceState.Unprepare                                                    *)

\* Fault: a preparation that did not complete is taken for one that left
\* nothing to undo.
NextAfterEntryReadTrusting(s) == IF s = "started" THEN "forget" ELSE "scan"

\* Fault: the switch has no case for a completed claim.
NextAfterEntryReadPartial(s) == IF s = "started" THEN "scan" ELSE s

\* PrepareStarted and PrepareCompleted claims are undone alike in this mode:
\* both end in HAMiCoreManager.Unprepare.
NextAfterEntryRead(s) == "scan"

\* A claim without an entry is taken for one already unprepared.
UnprepareNoop(p) ==
    /\ pc[p] = "begin" /\ op[p] = "unprepare"
    /\ cp[claim[p]] = "absent"
    /\ Return(p, TRUE)
    /\ UNCHANGED <<disk, faults>>

UnprepareBegin(p) ==
    /\ pc[p] = "begin" /\ op[p] = "unprepare"
    /\ cp[claim[p]] # "absent"
    /\ Goto(p, NextAfterEntryRead(cp[claim[p]]))
    /\ UNCHANGED <<disk, boot, up, pulock, op, claim, pod, ctx, cleanup, env, count>>

\* HAMiCoreManager.Unprepare looks at every container directory and removes
\* the ones this claim owns, whichever pod they were made for.
UnprepareScan(p, q) ==
    /\ pc[p] = "scan"
    /\ dir[claim[p]][q] = "owned"
    /\ SetDir(claim[p], q, "unowned")
    /\ pod' = [pod EXCEPT ![p] = q]
    /\ Goto(p, "rmdir")
    /\ UNCHANGED <<cp, cpBoot, cdi, boot, up, pulock, op, claim, ctx, cleanup, env, count>>

UnprepareScanned(p) ==
    /\ pc[p] = "scan"
    /\ \A q \in Pods : dir[claim[p]][q] # "owned"
    /\ Goto(p, "delspec")
    /\ UNCHANGED <<disk, boot, up, pulock, op, claim, pod, ctx, cleanup, env, count>>

UnprepareRmdir(p) ==
    /\ pc[p] = "rmdir"
    /\ SetDir(claim[p], pod[p], "none")
    /\ Goto(p, "scan")
    /\ UNCHANGED <<cp, cpBoot, cdi, boot, up, pulock, op, claim, pod, ctx, cleanup, env, count>>

\* An error of DeleteClaimSpecFile is logged, and Unprepare goes on.
UnprepareSpec(p) ==
    /\ pc[p] = "delspec"
    /\ \/ cdi' = cdi \ {claim[p]} /\ UNCHANGED faults
       \/ faults < MaxFaults /\ faults' = faults + 1 /\ UNCHANGED cdi
    /\ Goto(p, "forget")
    /\ UNCHANGED <<cp, cpBoot, dir, boot, up, pulock, op, claim, pod, ctx, cleanup, env, crashes>>

\* deleteClaimFromCheckpoint
UnprepareForget(p) ==
    /\ pc[p] = "forget"
    /\ cp' = [cp EXCEPT ![claim[p]] = "absent"]
    /\ Return(p, TRUE)
    /\ UNCHANGED <<cpBoot, cdi, dir, faults>>

-----------------------------------------------------------------------------
(* CheckpointCleanupManager                                                 *)

\* The ticker of triggerPeriodically; a full channel drops the task.
CleanupTick ==
    /\ up
    /\ queue' = TRUE
    /\ UNCHANGED <<disk, boot, up, pulock, proc, sweep, env, count>>

\* worker takes the task.
CleanupTake ==
    /\ up
    /\ pc[Cleaner] = "idle" /\ queue
    /\ queue' = FALSE
    /\ Goto(Cleaner, "list")
    /\ UNCHANGED <<disk, boot, up, pulock, op, claim, pod, ctx, sweep, env, count>>

\* cleanup reads the checkpoint, without the prepare/unprepare lock.
CleanupList ==
    /\ pc[Cleaner] = "list"
    /\ sweep' = {c \in Claims : cp[c] = "started"}
    /\ Goto(Cleaner, "next")
    /\ UNCHANGED <<disk, boot, up, pulock, op, claim, pod, ctx, queue, env, count>>

\* An error ends this cleanup; the next one tries again.
CleanupListFails ==
    /\ pc[Cleaner] = "list"
    /\ faults < MaxFaults
    /\ faults' = faults + 1
    /\ Goto(Cleaner, "idle")
    /\ UNCHANGED <<disk, boot, up, pulock, op, claim, pod, ctx, cleanup, env, crashes>>

\* The ResourceClaim objects a Get by c's name can return.
Lookup(c) == {d \in Claims : api[d] = "live" /\ NameOf[d] = NameOf[c]}

\* Fault: any error of the Get counts as not found.
StaleOnAnyError(c) == Lookup(c) \subseteq Claims

\* Fault: not found is an error like any other.
StaleOnlyIfReplaced(c) == \E d \in Lookup(c) : d # c

\* unprepareIfStale: not found, or found with another UID.
Stale(c) == Lookup(c) = {} \/ \E d \in Lookup(c) : d # c

CleanupStale(c) ==
    /\ pc[Cleaner] = "next"
    /\ c \in sweep
    /\ Stale(c)
    /\ sweep' = sweep \ {c}
    /\ claim' = [claim EXCEPT ![Cleaner] = c]
    /\ op' = [op EXCEPT ![Cleaner] = "unprepare"]
    /\ ctx' = [ctx EXCEPT ![Cleaner] = TRUE]
    /\ Goto(Cleaner, "lock")
    /\ UNCHANGED <<disk, boot, up, pulock, pod, queue, env, count>>

CleanupSkip(c) ==
    /\ pc[Cleaner] = "next"
    /\ c \in sweep
    /\ ~Stale(c)
    /\ sweep' = sweep \ {c}
    /\ UNCHANGED <<disk, boot, up, pulock, proc, queue, env, count>>

\* The Get failed with another error than not found: next time.
CleanupGetFails(c) ==
    /\ pc[Cleaner] = "next"
    /\ c \in sweep
    /\ faults < MaxFaults
    /\ faults' = faults + 1
    /\ sweep' = sweep \ {c}
    /\ UNCHANGED <<disk, boot, up, pulock, proc, queue, env, crashes>>

CleanupDone ==
    /\ pc[Cleaner] = "next"
    /\ sweep = {}
    /\ Goto(Cleaner, "idle")
    /\ UNCHANGED <<disk, boot, up, pulock, op, claim, pod, ctx, cleanup, env, count>>

-----------------------------------------------------------------------------
PrepareStep(p) ==
    \/ PrepareCached(p) \/ PrepareBegin(p)
    \/ PrepareLabel(p) \/ PrepareLabelCancelled(p)
    \/ PrepareWipe(p) \/ PrepareWiped(p) \/ PrepareMkdir(p) \/ PrepareMark(p)
    \/ PrepareSpec(p) \/ PrepareComplete(p)

UnprepareStep(p) ==
    \/ UnprepareNoop(p) \/ UnprepareBegin(p)
    \/ \E q \in Pods : UnprepareScan(p, q)
    \/ UnprepareScanned(p) \/ UnprepareRmdir(p)
    \/ UnprepareSpec(p) \/ UnprepareForget(p)

CleanupStep ==
    \/ CleanupTake \/ CleanupList \/ CleanupListFails \/ CleanupDone
    \/ \E c \in Claims : CleanupStale(c) \/ CleanupSkip(c) \/ CleanupGetFails(c)

Kubelet ==
    \/ \E c \in Claims :
        \/ Create(c) \/ Delete(c) \/ PodStops(c)
        \/ \E q \in Pods : PodArrives(c, q)
        \/ \E w \in Workers : CallPrepare(w, c) \/ CallUnprepare(w, c)
    \/ \E w \in Workers : Abandon(w)

Next ==
    \/ Start \/ Crash \/ Reboot
    \/ Kubelet
    \/ CleanupTick \/ CleanupStep
    \/ \E p \in Procs :
        \/ Acquire(p) \/ AcquireFails(p) \/ StepFails(p)
        \/ PrepareStep(p) \/ UnprepareStep(p)

\* The Go scheduler runs every goroutine that can go on; a supervisor restarts
\* the plugin; the ticker ticks; the kubelet repeats an Unprepare that failed.
\* A waiter that finds the file lock free again and again gets it in the end.
Fairness ==
    /\ WF_vars(Start)
    /\ WF_vars(CleanupTick) /\ WF_vars(CleanupStep)
    /\ \A p \in Procs : /\ WF_vars(PrepareStep(p) \/ UnprepareStep(p))
                        /\ WF_vars(AcquireFails(p))
    /\ SF_vars(Acquire(Cleaner))
    /\ \A c \in Claims :
        /\ SF_vars(\E w \in Workers : CallUnprepare(w, c))
        /\ SF_vars(\E w \in Workers : claim[w] = c /\ op[w] = "unprepare" /\ Acquire(w))

Spec == Init /\ [][Next]_vars

FairSpec == Spec /\ Fairness

-----------------------------------------------------------------------------
(* Properties                                                               *)

\* What a container that uses claim c needs: the record that answers repeated
\* Prepare calls, the CDI spec the runtime injects, and the cache directory the
\* spec mounts, of the pod that reserves the claim.
Usable(c) ==
    /\ cp[c] = "completed"
    /\ c \in cdi
    /\ user[c] \in Pods /\ dir[c][user[c]] = "owned"

\* While containers run on a claim the API server knows, the claim stays usable:
\* no repeated Prepare, no cleanup, no restart of the plugin wipes its cache
\* directory, its CDI spec or its PrepareCompleted entry.
RunningClaimUsable ==
    \A c \in Claims : kub[c] = "running" /\ api[c] = "live" => Usable(c)

\* A cache directory a claim owns is on the node only while the checkpoint has
\* an entry for the claim: so a later Unprepare still finds and removes it,
\* whichever pod it was made for and wherever Prepare stopped.
OwnedDirIsTracked ==
    \A c \in Claims, q \in Pods : dir[c][q] = "owned" => cp[c] # "absent"

\* The cleanup manager unprepares a claim only if its object is gone for good,
\* however long ago it read the checkpoint and asked the API server.
CleanupOnlyStale ==
    pc[Cleaner] \in {"lock"} \cup Locked => api[claim[Cleaner]] = "deleted"

\* The driver's promise: the checkpoint entry is the claim's status, as long as
\* the checkpoint counts for the current boot.
ClaimStatus ==
    [c \in Claims |->
        CASE cpBoot \in {boot, NoBootID} /\ cp[c] = "started" -> "preparing"
          [] cpBoot \in {boot, NoBootID} /\ cp[c] = "completed" -> "prepared"
          [] OTHER -> "unprepared"]

InUse == {c \in Claims : kub[c] = "running"}
Known == {c \in Claims : api[c] = "live"}

\* HAMi core shares every GPU: nothing is given to a claim for itself.
Service == INSTANCE ClaimService WITH
    Devices <- {}, status <- ClaimStatus, inUse <- InUse, known <- Known,
    own <- [c \in Claims |-> {}]

\* Prepare, Unprepare, the cleanup manager and initCheckpoint implement the
\* claim service: containers start only on a prepared claim, and a known claim
\* is not withdrawn from running containers.
ImplementsClaimService == Service!Spec

\* No step is lost between two goroutines: a checkpoint entry changes only by
\* the goroutine that holds the prepare/unprepare lock for that very claim, or
\* when a starting plugin discards the checkpoint of an earlier boot.
EntryChangesUnderLock ==
    [][\A c \in Claims : cp'[c] # cp[c] =>
         \/ pulock # None /\ claim[pulock] = c
         \/ ~up /\ up' /\ cpBoot # boot]_vars

\* A claim left PrepareStarted whose object was deleted does not stay in the
\* checkpoint: the periodic cleanup or a late Unprepare removes the entry.
StaleStartedRemoved ==
    \A c \in Claims :
        api[c] = "deleted" /\ cp[c] = "started" ~> cp[c] # "started"

\* The kubelet gets rid of every claim it wants to release: Unprepare, repeated,
\* succeeds in the end whatever earlier attempts left behind.
ReleaseCompletes ==
    \A c \in Claims : kub[c] = "stopping" ~> kub[c] = "idle"

\* An entry leaves the checkpoint only with everything Prepare put on the disk:
\* no cache directory is left behind for a claim without an entry.
NothingLeftBehind ==
    \A c \in Claims, q \in Pods : cp[c] = "absent" => dir[c][q] = "none"
=============================================================================
