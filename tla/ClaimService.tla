---------------------------- MODULE ClaimService ----------------------------
(***************************************************************************)
(* What the driver promises the kubelet about ResourceClaims, with nothing *)
(* of how it keeps the promise: no files, no locks, no retries, no GPUs.   *)
(* Every mode of the driver that is modelled here implements it.           *)
(*                                                                         *)
(* A claim is unprepared, being prepared or prepared.  Containers use a    *)
(* claim only from the prepared state; a claim in use by a pod of a known  *)
(* claim object is never withdrawn, except that a reboot of the node stops *)
(* all containers and takes every claim back to unprepared; and no two     *)
(* claims are prepared that were both given some device for themselves.    *)
(***************************************************************************)
CONSTANTS
    Claims,
    Devices  \* what a claim may be given for itself

VARIABLES
    status,  \* "unprepared", "preparing" or "prepared", for each claim
    inUse,   \* claims whose containers run
    known,   \* claims whose object the API server holds
    own      \* the devices given to each claim for itself

vars == <<status, inUse, known, own>>

TypeOK ==
    /\ status \in [Claims -> {"unprepared", "preparing", "prepared"}]
    /\ inUse \subseteq Claims
    /\ known \subseteq Claims
    /\ own \in [Claims -> SUBSET Devices]

Prepared == {c \in Claims : status[c] = "prepared"}

\* What the service is for: two prepared claims never have a device for
\* themselves in common, and a known claim whose containers run is prepared.
Exclusive == \A c, o \in Prepared : c # o => own[c] \cap own[o] = {}
Served == inUse \cap known \subseteq Prepared

\* A node may already run containers when the driver is first asked.
Init ==
    /\ TypeOK /\ Exclusive
    /\ "preparing" \notin {status[c] : c \in Claims}
    /\ inUse = Prepared
    /\ inUse \subseteq known

\* The scheduler allocates devices to the claim, or takes them back.
Assign(c) ==
    /\ status[c] = "unprepared"
    /\ own' \in [Claims -> SUBSET Devices]
    /\ \A o \in Claims \ {c} : own'[o] = own[o]
    /\ UNCHANGED <<status, inUse, known>>

Begin(c) ==
    /\ status[c] # "prepared"
    /\ status' = [status EXCEPT ![c] = "preparing"]
    /\ UNCHANGED <<inUse, known, own>>

\* Preparation ends; the answer may reach a kubelet that starts containers.
Finish(c) ==
    /\ status[c] = "preparing"
    /\ \A o \in Prepared : own[o] \cap own[c] = {}
    /\ status' = [status EXCEPT ![c] = "prepared"]
    /\ inUse' \in {inUse, inUse \cup {c}}
    /\ UNCHANGED <<known, own>>

Use(c) ==
    /\ status[c] = "prepared"
    /\ inUse' = inUse \cup {c}
    /\ UNCHANGED <<status, known, own>>

Stop(c) ==
    /\ inUse' = inUse \ {c}
    /\ UNCHANGED <<status, known, own>>

Withdraw(c) ==
    /\ c \notin inUse \cap known
    /\ status' = [status EXCEPT ![c] = "unprepared"]
    /\ UNCHANGED <<inUse, known, own>>

\* A claim is created before any container may use it.
Announce(c) ==
    /\ c \notin inUse
    /\ known' = known \cup {c}
    /\ UNCHANGED <<status, inUse, own>>

Retire(c) ==
    /\ known' = known \ {c}
    /\ UNCHANGED <<status, inUse, own>>

Reboot ==
    /\ status' = [c \in Claims |-> "unprepared"]
    /\ inUse' = {}
    /\ UNCHANGED <<known, own>>

Next ==
    \/ Reboot
    \/ \E c \in Claims :
        \/ Assign(c) \/ Begin(c) \/ Finish(c) \/ Use(c) \/ Stop(c)
        \/ Withdraw(c) \/ Announce(c) \/ Retire(c)

Spec == Init /\ [][Next]_vars
=============================================================================
