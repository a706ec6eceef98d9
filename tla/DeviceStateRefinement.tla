----------------------- MODULE DeviceStateRefinement -----------------------
(***************************************************************************)
(* Proof that DeviceState implements ClaimService: every step of the       *)
(* detailed specification is a step of the abstract one or changes none of *)
(* its variables.                                                          *)
(***************************************************************************)
EXTENDS DeviceState_proofs

\* The step leaves everything the abstract specification talks about.
Stutter == ClaimStatus' = ClaimStatus /\ InUse' = InUse /\ Known' = Known

\* What a step of the driver looks like from outside.
AbstractStep == Service!Next \/ Stutter

\* Each action of the claim service is a step of it.
LEMMA AbstractSteps ==
    /\ Service!Reboot => AbstractStep
    /\ \A c \in Claims :
        /\ Service!Begin(c) => AbstractStep
        /\ Service!Finish(c) => AbstractStep
        /\ Service!Use(c) => AbstractStep
        /\ Service!Withdraw(c) => AbstractStep
  BY DEF AbstractStep, Service!Next

\* A node at the start, fresh or upgraded, is a claim service at its start.
LEMMA InitRefines == Init => Service!Init
<1> SUFFICES ASSUME Init PROVE Service!Init
  OBVIOUS
<1>1. Service!TypeOK
  BY DEF Service!TypeOK, ClaimStatus, InUse, Known
<1>2. Service!Exclusive
  BY DEF Service!Exclusive, Service!Prepared
<1>3. "preparing" \notin {ClaimStatus[c] : c \in Claims}
  BY DEF Init, ClaimStatus, NoFile, NoBootID
<1>4. InUse = Service!Prepared /\ InUse \subseteq Known
  BY DEF Init, Service!Prepared, ClaimStatus, InUse, Known, NoFile, NoBootID
<1> QED
  BY <1>1, <1>2, <1>3, <1>4 DEF Service!Init, InUse, Known

\* The abstract status an entry stands for.
StatusOf == [absent |-> "unprepared", started |-> "preparing", completed |-> "prepared"]

\* While the plugin runs, a claim's status is what its entry says.
LEMMA StatusIsEntry ==
    ASSUME TypeOK, cpBoot = boot, NEW c \in Claims
    PROVE  ClaimStatus[c] = StatusOf[cp[c]]
  BY DEF TypeOK, DiskTypeOK, ClaimStatus, StatusOf

\* ... and a write of the entry is a change of the status of that claim.
LEMMA EntryWritten ==
    ASSUME TypeOK, cpBoot = boot, cpBoot' = cpBoot, boot' = boot,
           NEW c \in Claims, NEW e \in {"absent", "started", "completed"},
           cp' = [cp EXCEPT ![c] = e]
    PROVE  ClaimStatus' = [ClaimStatus EXCEPT ![c] = StatusOf[e]]
<1>1. \A d \in Claims : ClaimStatus'[d] = IF d = c THEN StatusOf[e] ELSE ClaimStatus[d]
  BY DEF TypeOK, DiskTypeOK, ClaimStatus, StatusOf
<1>2. /\ ClaimStatus = [d \in Claims |-> ClaimStatus[d]]
      /\ ClaimStatus' = [d \in Claims |-> ClaimStatus'[d]]
  BY DEF ClaimStatus
<1> HIDE DEF StatusOf
<1> QED
  BY <1>1, <1>2

\* A goroutine that may take a locked step runs in a started plugin.
LEMMA LockedFacts ==
    ASSUME IndInv, NEW p \in Procs, pc[p] \in Locked
    PROVE  cpBoot = boot /\ claim[p] \in Claims
  BY DEF IndInv, GoroutinesInv, BootInv, Active, Locked, PrepareSteps,
     UnprepareSteps

\* Answering Prepare from the checkpoint starts containers on a prepared claim.
LEMMA PrepareCachedRefines ==
    ASSUME IndInv, NEW p \in Procs, PrepareCached(p) PROVE AbstractStep
<1> DEFINE c == claim[p]
<1>1. c \in Claims /\ cp[c] = "completed" /\ cpBoot = boot
  BY LockedFacts DEF PrepareCached, AlreadyPrepared, Locked
<1>2. ClaimStatus[c] = "prepared"
  BY <1>1, StatusIsEntry DEF IndInv, StatusOf
<1>3. ClaimStatus' = ClaimStatus /\ Known' = Known
  BY DEF PrepareCached, Return, ClaimStatus, Known, disk
<1>4. InUse' = InUse \/ InUse' = InUse \cup {c}
  BY <1>1 DEF PrepareCached, Return, Answered, InUse, IndInv, TypeOK, EnvTypeOK
<1>5. InUse' = InUse \cup {c} => Service!Use(c)
  BY <1>2, <1>3 DEF Service!Use, InUse, Known
<1>6. InUse' = InUse => AbstractStep
  BY <1>3 DEF AbstractStep, Stutter
<1> QED
  BY <1>1, <1>4, <1>5, <1>6, AbstractSteps

\* Writing PrepareStarted begins the preparation.
LEMMA PrepareBeginRefines ==
    ASSUME IndInv, NEW p \in Procs, PrepareBegin(p) PROVE AbstractStep
<1> DEFINE c == claim[p]
<1>1. c \in Claims /\ cp[c] # "completed" /\ cpBoot = boot
  BY LockedFacts DEF PrepareBegin, AlreadyPrepared, Locked
<1>2. ClaimStatus[c] # "prepared"
  BY <1>1, StatusIsEntry DEF IndInv, StatusOf, TypeOK, DiskTypeOK
<1>3. ClaimStatus' = [ClaimStatus EXCEPT ![c] = "preparing"]
  <2>1. /\ cp' = [cp EXCEPT ![c] = "started"]
        /\ cpBoot' = cpBoot /\ boot' = boot
    BY DEF PrepareBegin
  <2>2. ClaimStatus' = [ClaimStatus EXCEPT ![c] = StatusOf["started"]]
    BY <1>1, <2>1, EntryWritten DEF IndInv
  <2> QED
    BY <2>2 DEF StatusOf
<1>4. InUse' = InUse /\ Known' = Known
  BY DEF PrepareBegin, InUse, Known, env
<1>5. Service!Begin(c)
  BY <1>2, <1>3, <1>4 DEF Service!Begin, InUse, Known
<1> QED
  BY <1>1, <1>5, AbstractSteps

\* Writing PrepareCompleted finishes it; the answer may start containers.
LEMMA PrepareCompleteRefines ==
    ASSUME IndInv, NEW p \in Procs, PrepareComplete(p) PROVE AbstractStep
<1> DEFINE c == claim[p]
<1>1. c \in Claims /\ cp[c] = "started" /\ cpBoot = boot
  BY LockedFacts DEF PrepareComplete, IndInv, DiskInv, Locked, PrepareSteps
<1>0. op[p] = "prepare"
  BY DEF PrepareComplete, IndInv, GoroutinesInv, PrepareSteps
<1>2. ClaimStatus[c] = "preparing"
  BY <1>1, StatusIsEntry DEF IndInv, StatusOf
<1>3. ClaimStatus' = [ClaimStatus EXCEPT ![c] = "prepared"]
  <2>1. /\ cp' = [cp EXCEPT ![c] = "completed"]
        /\ cpBoot' = cpBoot /\ boot' = boot
    BY DEF PrepareComplete, Return
  <2>2. ClaimStatus' = [ClaimStatus EXCEPT ![c] = StatusOf["completed"]]
    BY <1>1, <2>1, EntryWritten DEF IndInv
  <2> QED
    BY <2>2 DEF StatusOf
<1>4. InUse' = InUse \/ InUse' = InUse \cup {c}
  <2>1. kub' = kub \/ kub' = [kub EXCEPT ![c] = IF @ = "wants" THEN "running" ELSE @]
    BY <1>0 DEF PrepareComplete, Return, Answered
  <2> QED
    BY <1>1, <2>1 DEF InUse, IndInv, TypeOK, EnvTypeOK
<1>5. Known' = Known
  BY DEF PrepareComplete, Return, Known
<1>6. Service!Finish(c)
  BY <1>1, <1>2, <1>3, <1>4, <1>5 DEF Service!Finish, Service!Prepared, InUse, Known
<1>7. Service!Finish(c) => AbstractStep
  BY <1>1 DEF AbstractStep, Service!Next
<1> QED
  BY <1>6, <1>7

\* Removing the entry withdraws a claim no container of a known claim uses.
LEMMA UnprepareForgetRefines ==
    ASSUME IndInv, NEW p \in Procs, UnprepareForget(p) PROVE AbstractStep
<1> DEFINE c == claim[p]
<1>1. c \in Claims /\ cpBoot = boot
  BY LockedFacts DEF UnprepareForget, Locked, UnprepareSteps
<1>2. op[p] = "unprepare"
  BY DEF UnprepareForget, IndInv, GoroutinesInv, UnprepareSteps
<1>3. p \in Workers => kub[c] = "stopping"
  BY <1>2 DEF UnprepareForget, IndInv, KubeletInv, Locked, UnprepareSteps
<1>4. p = Cleaner => api[c] = "deleted"
  BY DEF UnprepareForget, IndInv, ApiInv, CleanupOnlyStale, Locked, UnprepareSteps
<1>5. c \notin InUse \cap Known
  BY <1>3, <1>4, ProcsFacts DEF InUse, Known
<1>6. ClaimStatus' = [ClaimStatus EXCEPT ![c] = "unprepared"]
  <2>1. /\ cp' = [cp EXCEPT ![c] = "absent"]
        /\ cpBoot' = cpBoot /\ boot' = boot
    BY DEF UnprepareForget, Return
  <2>2. ClaimStatus' = [ClaimStatus EXCEPT ![c] = StatusOf["absent"]]
    BY <1>1, <2>1, EntryWritten DEF IndInv
  <2> QED
    BY <2>2 DEF StatusOf
<1>7. InUse' = InUse /\ Known' = Known
  BY <1>1, <1>2, <1>3 DEF UnprepareForget, Return, Answered, InUse, Known,
     IndInv, TypeOK, EnvTypeOK
<1>8. Service!Withdraw(c)
  BY <1>5, <1>6, <1>7 DEF Service!Withdraw, InUse, Known
<1> QED
  BY <1>1, <1>8, AbstractSteps

\* Every step of the driver, the kubelet and the API server maps to a step of
\* the claim service or to none.
LEMMA StepRefines == NoAdoption /\ IndInv /\ [Next]_vars => AbstractStep
<1> SUFFICES ASSUME NoAdoption /\ IndInv, [Next]_vars PROVE AbstractStep
  OBVIOUS
<1> USE ProcsFacts, ConstantsAssumption DEF NoAdoption, IndInv, TypeOK,
    DiskTypeOK, ProcTypeOK, EnvTypeOK, GoroutinesInv, DiskInv, KubeletInv,
    ApiInv, BootInv, CompletedInv, CleanupOnlyStale, AbstractStep, Stutter,
    ClaimStatus, InUse, Known, NoFile, NoBootID, AlreadyPrepared, Active,
    Locked, PrepareSteps, UnprepareSteps, disk, proc, cleanup, env, count
<1>1. CASE Start
  BY <1>1 DEF Start, KeepCheckpoint
<1>2. CASE Crash
  BY <1>2 DEF Crash, ProcessEnds
<1>3. CASE Reboot
  BY <1>3 DEF Reboot, ProcessEnds, Service!Next, Service!Reboot
<1>4. ASSUME NEW c \in Claims, Create(c) PROVE AbstractStep
  BY SMTT(30), <1>4 DEF Create, Service!Next, Service!Announce
<1>5. ASSUME NEW c \in Claims, Delete(c) PROVE AbstractStep
  BY <1>5 DEF Delete, Service!Next, Service!Retire
<1>6. ASSUME NEW c \in Claims, PodStops(c) PROVE AbstractStep
  BY <1>6 DEF PodStops, Service!Next, Service!Stop
<1>7. ASSUME NEW c \in Claims, NEW q \in Pods, PodArrives(c, q) PROVE AbstractStep
  BY <1>7 DEF PodArrives
<1>8. ASSUME NEW w \in Workers, NEW c \in Claims, CallPrepare(w, c) PROVE AbstractStep
  BY <1>8 DEF CallPrepare, Call
<1>9. ASSUME NEW w \in Workers, NEW c \in Claims, CallUnprepare(w, c) PROVE AbstractStep
  BY <1>9 DEF CallUnprepare, Call
<1>10. ASSUME NEW w \in Workers, Abandon(w) PROVE AbstractStep
  BY <1>10 DEF Abandon
<1>11. CASE CleanupTick
  BY <1>11 DEF CleanupTick
<1>12. CASE CleanupTake
  BY <1>12 DEF CleanupTake, Goto
<1>13. CASE CleanupList
  BY <1>13 DEF CleanupList, Goto
<1>14. CASE CleanupListFails
  BY <1>14 DEF CleanupListFails, Goto
<1>15. CASE CleanupDone
  BY <1>15 DEF CleanupDone, Goto
<1>16. ASSUME NEW c \in Claims, CleanupStale(c) PROVE AbstractStep
  BY <1>16 DEF CleanupStale, Goto
<1>17. ASSUME NEW c \in Claims, CleanupSkip(c) PROVE AbstractStep
  BY <1>17 DEF CleanupSkip
<1>18. ASSUME NEW c \in Claims, CleanupGetFails(c) PROVE AbstractStep
  BY <1>18 DEF CleanupGetFails
<1>19. ASSUME NEW p \in Procs, Acquire(p) PROVE AbstractStep
  BY <1>19 DEF Acquire
<1>20. ASSUME NEW p \in Procs, AcquireFails(p) PROVE AbstractStep
  BY <1>20 DEF AcquireFails, Return, Release, Done, Answered
<1>21. ASSUME NEW p \in Procs, StepFails(p) PROVE AbstractStep
  BY <1>21 DEF StepFails, Return, Release, Done, Answered
<1>22. ASSUME NEW p \in Procs, PrepareCached(p) PROVE AbstractStep
  BY <1>22, PrepareCachedRefines
<1>23. ASSUME NEW p \in Procs, PrepareBegin(p) PROVE AbstractStep
  BY <1>23, PrepareBeginRefines
<1>24. ASSUME NEW p \in Procs, PrepareLabel(p) PROVE AbstractStep
  BY <1>24 DEF PrepareLabel, Goto
<1>25. ASSUME NEW p \in Procs, PrepareLabelCancelled(p) PROVE AbstractStep
  BY <1>25 DEF PrepareLabelCancelled, Return, Release, Done, Answered
<1>26. ASSUME NEW p \in Procs, PrepareWipe(p) PROVE AbstractStep
  BY <1>26 DEF PrepareWipe, SetDir
<1>27. ASSUME NEW p \in Procs, PrepareWiped(p) PROVE AbstractStep
  BY <1>27 DEF PrepareWiped, SetDir, Goto
<1>28. ASSUME NEW p \in Procs, PrepareMkdir(p) PROVE AbstractStep
  BY <1>28 DEF PrepareMkdir, SetDir, Goto
<1>29. ASSUME NEW p \in Procs, PrepareMark(p) PROVE AbstractStep
  BY <1>29 DEF PrepareMark, SetDir, Goto
<1>30. ASSUME NEW p \in Procs, PrepareSpec(p) PROVE AbstractStep
  BY <1>30 DEF PrepareSpec, Goto
<1>31. ASSUME NEW p \in Procs, PrepareComplete(p) PROVE AbstractStep
  BY <1>31, PrepareCompleteRefines
<1>32. ASSUME NEW p \in Procs, UnprepareNoop(p) PROVE AbstractStep
  BY <1>32 DEF UnprepareNoop, Return, Release, Done, Answered
<1>33. ASSUME NEW p \in Procs, UnprepareBegin(p) PROVE AbstractStep
  BY <1>33 DEF UnprepareBegin, NextAfterEntryRead, Goto
<1>34. ASSUME NEW p \in Procs, NEW q \in Pods, UnprepareScan(p, q) PROVE AbstractStep
  BY <1>34 DEF UnprepareScan, SetDir, Goto
<1>35. ASSUME NEW p \in Procs, UnprepareScanned(p) PROVE AbstractStep
  BY <1>35 DEF UnprepareScanned, Goto
<1>36. ASSUME NEW p \in Procs, UnprepareRmdir(p) PROVE AbstractStep
  BY <1>36 DEF UnprepareRmdir, SetDir, Goto
<1>37. ASSUME NEW p \in Procs, UnprepareSpec(p) PROVE AbstractStep
  BY <1>37 DEF UnprepareSpec, Goto
<1>38. ASSUME NEW p \in Procs, UnprepareForget(p) PROVE AbstractStep
  BY <1>38, UnprepareForgetRefines
<1>39. CASE UNCHANGED vars
  BY <1>39 DEF vars
<1> QED
  BY <1>1, <1>2, <1>3, <1>4, <1>5, <1>6, <1>7, <1>8, <1>9, <1>10, <1>11,
     <1>12, <1>13, <1>14, <1>15, <1>16, <1>17, <1>18, <1>19, <1>20, <1>21,
     <1>22, <1>23, <1>24, <1>25, <1>26, <1>27, <1>28, <1>29, <1>30, <1>31,
     <1>32, <1>33, <1>34, <1>35, <1>36, <1>37, <1>38, <1>39 DEF Next,
     Kubelet, CleanupStep, PrepareStep, UnprepareStep

(***************************************************************************)
(* DeviceState.Prepare, Unprepare, the cleanup manager and initCheckpoint  *)
(* implement the claim service: containers start only on a prepared claim  *)
(* and a claim the API server knows is not withdrawn under them.           *)
(***************************************************************************)
THEOREM DeviceStateImplementsClaimService ==
    ASSUME Timely, NoAdoption PROVE Spec => ImplementsClaimService
<1>1. IndInv /\ [Next]_vars => [Service!Next]_(Service!vars)
  BY NoAdoption, StepRefines DEF AbstractStep, Stutter, Service!vars, InUse, Known
<1>2. Spec => []IndInv
  BY Timely, NoAdoption, Inductive
<1> QED
  BY InitRefines, <1>1, <1>2, PTL DEF Spec, ImplementsClaimService, Service!Spec
=============================================================================
