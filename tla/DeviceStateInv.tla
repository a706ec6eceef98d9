--------------------------- MODULE DeviceStateInv ---------------------------
(***************************************************************************)
(* The inductive invariant behind the safety properties of DeviceState:    *)
(* what each goroutine may rely on at each of its steps.  TLC checks it on *)
(* the small instances, DeviceState_proofs proves it.                      *)
(***************************************************************************)
EXTENDS DeviceState

Active(p) == pc[p] \in {"lock"} \cup Locked

\* The checkpoint on disk counts for this boot.
Current == cpBoot \in {boot, NoBootID}

\* The lock protects every step after it; a goroutine works on a claim, and
\* each step belongs to one operation.  A claim the kubelet holds is reserved.
GoroutinesInv ==
    /\ \A p \in Procs :
        /\ pc[p] \in Locked => pulock = p
        /\ Active(p) => claim[p] \in Claims
        /\ Active(p) /\ op[p] = "prepare" => pod[p] \in Pods
        /\ pc[p] \in PrepareSteps => op[p] = "prepare"
        /\ pc[p] \in UnprepareSteps => op[p] = "unprepare"
        /\ pc[p] = "rmdir" => pod[p] \in Pods
        /\ pc[p] # "idle" => up
        /\ pc[p] \in {"list", "next"} => p = Cleaner
    /\ op[Cleaner] = "unprepare"
    /\ sweep # {} => up
    /\ \A c \in Claims : kub[c] # "idle" => user[c] \in Pods

\* What is on disk at each step of the goroutine that holds the lock.
DiskInv ==
    \A p \in Procs :
        /\ pc[p] \in PrepareSteps => cp[claim[p]] = "started"
        /\ pc[p] \in {"spec", "complete"} => dir[claim[p]][pod[p]] = "owned"
        /\ pc[p] = "complete" => claim[p] \in cdi
        /\ pc[p] \in UnprepareSteps => cp[claim[p]] # "absent"

\* A worker undoes a claim only while the kubelet releases it, and prepares it
\* only for the pod that reserves it.  (A prepare that starts late gets no
\* further than "label".)
KubeletInv ==
    /\ \A w \in Workers :
        /\ op[w] = "unprepare" /\ (pc[w] \in Locked \/ (pc[w] = "lock" /\ ctx[w]))
             => kub[claim[w]] = "stopping"
        /\ Active(w) /\ op[w] = "prepare" /\ ctx[w]
             => kub[claim[w]] \in {"wants", "running"} /\ pod[w] = user[claim[w]]
        /\ pc[w] \in PrepareSteps \ {"label"}
             => kub[claim[w]] # "idle" /\ pod[w] = user[claim[w]]
    /\ \A v, w \in Workers :
        Active(v) /\ Active(w) /\ ctx[v] /\ ctx[w] /\ claim[v] = claim[w] => v = w

\* Claims the plugin has heard of exist or existed; names are unique among
\* live objects; the cleaner undoes deleted claims only.
ApiInv ==
    /\ \A c \in Claims : api[c] = "none" =>
        kub[c] = "idle" /\ cp[c] = "absent" /\ c \notin sweep
    /\ \A p \in Procs : Active(p) => api[claim[p]] # "none"
    /\ \A c, d \in Claims :
        api[c] = "live" /\ api[d] = "live" /\ NameOf[c] = NameOf[d] => c = d
    /\ CleanupOnlyStale

BootInv ==
    /\ cpBoot >= NoFile /\ cpBoot <= boot
    /\ up => cpBoot = boot
    /\ cpBoot = NoBootID => Upgrade

\* A completed claim that is neither being released nor deleted is usable, and
\* so is every claim that runs.
CompletedInv ==
    \A c \in Claims : api[c] # "deleted" =>
        /\ Current /\ cp[c] = "completed" /\ kub[c] # "stopping"
             => kub[c] \in {"wants", "running"} /\ Usable(c)
        /\ kub[c] = "running" => Current /\ cp[c] = "completed"

IndInv ==
    /\ TypeOK /\ GoroutinesInv /\ DiskInv /\ KubeletInv
    /\ ApiInv /\ BootInv /\ CompletedInv
=============================================================================
