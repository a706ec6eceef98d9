--------------------------- MODULE Sharing_proofs ---------------------------
(***************************************************************************)
(* The theorems of Sharing, for every set of claims, devices and           *)
(* allocations InputsAssumption admits and every number of failed steps.   *)
(* Each conjunct of SharingInv has a lemma of its own, <Conjunct>Step,     *)
(* with one case per action.                                               *)
(***************************************************************************)
EXTENDS Sharing, DeviceConfigs_proofs

\* The groups of an allocation are of its devices, and have none in common.
LEMMA GroupFacts ==
    ASSUME NEW in \in Inputs, NEW c \in Claims, ~LookupFails(in[c])
    PROVE  /\ \A g \in Groups(in[c]) :
                 /\ g \in AllGroups /\ g.devs \subseteq Devs
                 /\ g.devs \subseteq AllocatedDevs(in[c])
                 /\ g.config.sharing \in {"none", "Default", "Long", "mps"}
           /\ \A g, h \in Groups(in[c]) : g # h => g.devs \cap h.devs = {} /\ g.devs # h.devs
<1> DEFINE a == in[c]
<1>1. ASSUME NEW g \in Groups(a)
      PROVE  g.devs \subseteq Devs /\ g.devs \subseteq AllocatedDevs(a)
  BY <1>1 DEF Groups, Group, AllocatedDevs, LookupFails
<1>2. Groups(a) \subseteq AllGroups
  <2>1. <<in, c>> \in {y \in Inputs \X Claims : ~LookupFails(y[1][y[2]])}
    OBVIOUS
  <2> QED
    BY <2>1 DEF AllGroups
<1>3. ASSUME NEW g \in Groups(a), NEW h \in Groups(a), g # h
      PROVE  g.devs \cap h.devs = {} /\ g.devs # h.devs
  <2>1. PICK i \in {Lookup(ConfigsOf(a), r) : r \in OwnResults(a)} : g = Group(a, ConfigsOf(a), i)
    BY DEF Groups
  <2>2. PICK j \in {Lookup(ConfigsOf(a), r) : r \in OwnResults(a)} : h = Group(a, ConfigsOf(a), j)
    BY DEF Groups
  <2>3. i # j
    BY <1>3, <2>1, <2>2
  <2>4. \A r, s \in OwnResults(a) : r.device = s.device => r = s
    BY InputsAssumption DEF IsAllocation, OwnResults
  <2>5. /\ g.devs = {r.device : r \in {s \in OwnResults(a) : Lookup(ConfigsOf(a), s) = i}}
        /\ h.devs = {r.device : r \in {s \in OwnResults(a) : Lookup(ConfigsOf(a), s) = j}}
    BY <2>1, <2>2 DEF Group
  <2>6. g.devs \cap h.devs = {}
    BY <2>3, <2>4, <2>5
  <2>7. g.devs # {}
    BY <2>1, <2>5
  <2> QED
    BY <2>6, <2>7
<1>4. \A g \in Groups(a) : g.config.sharing \in {"none", "Default", "Long", "mps"}
  BY InputsAssumption, GroupConfigs
<1> QED
  BY <1>1, <1>2, <1>3, <1>4

\* The devices of the groups of all allocations.
LEMMA AllGroupsFacts ==
    \A g \in AllGroups : /\ g.devs \in SUBSET Devs
                         /\ g.config.sharing \in {"none", "Default", "Long", "mps"}
<1> SUFFICES ASSUME NEW g \in AllGroups
             PROVE  g.devs \in SUBSET Devs /\ g.config.sharing \in {"none", "Default", "Long", "mps"}
  OBVIOUS
<1>1. PICK x \in Inputs \X Claims : ~LookupFails(x[1][x[2]]) /\ g \in Groups(x[1][x[2]])
  BY DEF AllGroups
<1>2. x[1] \in Inputs /\ x[2] \in Claims
  OBVIOUS
<1> QED
  BY <1>1, <1>2, GroupFacts

\* An operation goes through the steps in the order of the code.
LEMMA OperationStep ==
    SharingTypeOK /\ OperationInv /\ EntryInv /\ [Next]_vars => OperationInv'
<1> SUFFICES ASSUME SharingTypeOK /\ OperationInv /\ EntryInv, [Next]_vars
    PROVE OperationInv'
  OBVIOUS
<1> USE SharingAssumption, AllGroupsFacts DEF SharingTypeOK, EntryInv,
    OperationInv, Starts, Stops, SetsExclusive, NoOp, gpus, daemons
<1>1. ASSUME NEW c \in Claims, PrepareCached(c) PROVE OperationInv'
  BY <1>1 DEF PrepareCached
<1>2. ASSUME NEW c \in Claims, PrepareBegin(c) PROVE OperationInv'
  BY <1>2 DEF PrepareBegin
<1>3. ASSUME NEW c \in Claims, UnprepareNoop(c) PROVE OperationInv'
  BY <1>3 DEF UnprepareNoop
<1>4. ASSUME NEW c \in Claims, UnprepareBegin(c) PROVE OperationInv'
  BY <1>4 DEF UnprepareBegin
<1>5. ASSUME NEW c \in Claims, PodNeeds(c) PROVE OperationInv'
  BY <1>5 DEF PodNeeds, Kubelet
<1>6. ASSUME NEW c \in Claims, PodGivesUp(c) PROVE OperationInv'
  BY <1>6 DEF PodGivesUp, Kubelet
<1>7. ASSUME NEW c \in Claims, PodEnds(c) PROVE OperationInv'
  BY <1>7 DEF PodEnds, Kubelet
<1>8. ASSUME NEW g \in op.todo, ApplyConfig(g) PROVE OperationInv'
  BY <1>8 DEF ApplyConfig, FirstStep
<1>9. ASSUME NEW g \in op.todo, UnprepareGroup(g) PROVE OperationInv'
  BY <1>9 DEF UnprepareGroup
<1>10. ASSUME NEW g \in Gpus, SetComputeMode(g) PROVE OperationInv'
  BY <1>10 DEF SetComputeMode
<1>11. ASSUME NEW g \in Gpus, SetTimeSlice(g) PROVE OperationInv'
  BY <1>11 DEF SetTimeSlice
<1>12. CASE ComputeModeDone
  BY <1>12 DEF ComputeModeDone, Goto
<1>13. CASE TimeSliceDone
  BY <1>13 DEF TimeSliceDone, Goto
<1>14. CASE StartCheck
  BY <1>14 DEF StartCheck, Goto
<1>15. CASE MakeDirs
  BY <1>15 DEF MakeDirs, Goto
<1>16. CASE MountShm
  BY <1>16 DEF MountShm, Goto
<1>17. CASE CreateDeployment
  BY <1>17 DEF CreateDeployment, Goto
<1>18. CASE AssertReady
  BY <1>18 DEF AssertReady, Goto
<1>19. CASE AssertReadyTimeout
  BY <1>19 DEF AssertReadyTimeout
<1>20. CASE StopStat
  BY <1>20 DEF StopStat, Goto, AfterStop
<1>21. CASE StopDelete
  BY <1>21 DEF StopDelete, Goto
<1>22. CASE StopUnmount
  BY <1>22 DEF StopUnmount, Goto
<1>23. CASE StopRemoveAll
  BY <1>23 DEF StopRemoveAll, Goto, AfterStop
<1>24. CASE PrepareComplete
  BY <1>24 DEF PrepareComplete
<1>25. CASE UnprepareForget
  BY <1>25 DEF UnprepareForget
<1>26. CASE StepFails
  BY <1>26 DEF StepFails
<1>27. ASSUME NEW d \in Daemons, DeploymentReady(d) PROVE OperationInv'
  BY <1>27 DEF DeploymentReady, Deployment
<1>28. ASSUME NEW d \in Daemons, DeploymentUnready(d) PROVE OperationInv'
  BY <1>28 DEF DeploymentUnready, Deployment
<1>29. ASSUME NEW d \in Daemons, DeploymentGone(d) PROVE OperationInv'
  BY <1>29 DEF DeploymentGone, Deployment
<1>30. CASE UNCHANGED vars
  BY <1>30 DEF vars
<1>31. ASSUME NEW c \in Claims, RollbackFails(c) PROVE OperationInv'
  BY <1>31 DEF RollbackFails
<1>32. CASE CreateSpecFails
  BY <1>32 DEF CreateSpecFails
<1> QED
  BY <1>1, <1>2, <1>3, <1>4, <1>5, <1>6, <1>7, <1>8, <1>9, <1>10, <1>11,
     <1>12, <1>13, <1>14, <1>15, <1>16, <1>17, <1>18, <1>19, <1>20, <1>21,
     <1>22, <1>23, <1>24, <1>25, <1>26, <1>27, <1>28, <1>29, <1>30, <1>31, <1>32 DEF Next,
     OpStep, Smi, Start, Stop, Unprepare, KubeletStep

\* No step allocates anything.
LEMMA AllocationStays == [Next]_vars => alloc' = alloc
  BY DEF Next, vars, PrepareCached, PrepareBegin, Unprepare, UnprepareNoop,
     UnprepareBegin, KubeletStep, PodNeeds, PodGivesUp, PodEnds, Kubelet, OpStep,
     ApplyConfig, UnprepareGroup, Smi, SetComputeMode, SetTimeSlice, ComputeModeDone,
     TimeSliceDone, Start, StartCheck, MakeDirs, MountShm, CreateDeployment,
     AssertReady, AssertReadyTimeout, Stop, StopStat, StopDelete, StopUnmount,
     StopRemoveAll, PrepareComplete, UnprepareForget, StepFails, RollbackFails,
     CreateSpecFails, DeploymentReady, DeploymentUnready, DeploymentGone, Deployment

\* A rollback spares the MIG devices of completed claims.
LEMMA RollbackSpares ==
    ASSUME NEW c \in Claims, NEW b \in Claims, cp[b] = "completed", MigsOf(b) \subseteq migs
    PROVE  /\ \A m \in RolledBack(c) : MigsOf(b) \subseteq m
           /\ \A gone \in SUBSET Orphans(c) : MigsOf(b) \subseteq migs \ gone
<1>1. MigsOf(b) \subseteq NamedMigs(b)
  BY DEF MigsOf, NamedMigs, AllocatedDevs, OwnResults
<1>2. MigsOf(b) \cap Orphans(c) = {}
  BY <1>1 DEF Orphans
<1> QED
  BY <1>2 DEF RolledBack

\* What is left by a rollback are MIG devices that were there.
LEMMA RollbackType ==
    ASSUME NEW c \in Claims, migs \subseteq Migs
    PROVE  \A m \in RolledBack(c) : m \subseteq Migs
  BY DEF RolledBack

\* No operation takes a MIG device from a completed claim.
LEMMA MigStep == SharingTypeOK /\ OperationInv /\ MigInv /\ [Next]_vars => MigInv'
<1> SUFFICES ASSUME SharingTypeOK, OperationInv, MigInv, [Next]_vars PROVE MigInv'
  OBVIOUS
<1>0. \A b \in Claims : MigsOf(b)' = MigsOf(b)
  BY AllocationStays DEF MigsOf
<1> SUFFICES ASSUME NEW b \in Claims, cp'[b] = "completed" PROVE MigsOf(b) \subseteq migs'
  BY <1>0 DEF MigInv
<1> USE DEF SharingTypeOK, MigInv
<1>1. ASSUME NEW c \in Claims, PrepareBegin(c) \/ UnprepareBegin(c)
      PROVE  MigsOf(b) \subseteq migs'
  <2>1. cp[b] = "completed" /\ migs' \in RolledBack(c)
    BY <1>1 DEF PrepareBegin, UnprepareBegin
  <2> QED
    BY <2>1, RollbackSpares
<1>2. ASSUME NEW c \in Claims, RollbackFails(c) PROVE MigsOf(b) \subseteq migs'
  <2>1. /\ cp[b] = "completed"
        /\ migs' = migs \/ \E gone \in SUBSET Orphans(c) : migs' = migs \ gone
    BY <1>2 DEF RollbackFails
  <2> QED
    BY <2>1, RollbackSpares
<1>3. CASE PrepareComplete
  <2>1. MigsOf(op.claim) \subseteq migs /\ migs' = migs
    BY <1>3 DEF PrepareComplete, gpus
  <2>2. b # op.claim => cp[b] = "completed"
    BY <1>3 DEF PrepareComplete
  <2> QED
    BY <2>1, <2>2
<1>4. CASE UnprepareForget
  <2>1. cp[b] = "completed" /\ migs' = migs
    BY <1>4 DEF UnprepareForget, gpus
  <2> QED
    BY <2>1
<1>5. CASE cp' = cp /\ migs' = migs
  BY <1>5
<1>6. \/ \E c \in Claims : PrepareBegin(c) \/ UnprepareBegin(c) \/ RollbackFails(c)
      \/ PrepareComplete \/ UnprepareForget
      \/ cp' = cp /\ migs' = migs
  BY DEF Next, vars, gpus, PrepareCached, Unprepare, UnprepareNoop, KubeletStep,
     PodNeeds, PodGivesUp, PodEnds, Kubelet, OpStep, ApplyConfig, UnprepareGroup, Smi,
     SetComputeMode, SetTimeSlice, ComputeModeDone, TimeSliceDone, Start, StartCheck,
     MakeDirs, MountShm, CreateDeployment, AssertReady, AssertReadyTimeout, Stop,
     StopStat, StopDelete, StopUnmount, StopRemoveAll, StepFails, CreateSpecFails,
     DeploymentReady, DeploymentUnready, DeploymentGone, Deployment
<1> QED
  BY <1>1, <1>2, <1>3, <1>4, <1>5, <1>6

\* An entry goes from started to completed to absent under its own operation.
LEMMA EntryStep == SharingTypeOK /\ OperationInv /\ EntryInv /\ [Next]_vars => EntryInv'
<1> SUFFICES ASSUME SharingTypeOK /\ OperationInv /\ EntryInv, [Next]_vars
    PROVE EntryInv'
  OBVIOUS
<1> USE SharingAssumption, AllGroupsFacts DEF SharingTypeOK, EntryInv,
    OperationInv, Starts, Stops, SetsExclusive, NoOp, gpus, daemons
<1>1. ASSUME NEW c \in Claims, PrepareCached(c) PROVE EntryInv'
  BY <1>1 DEF PrepareCached
<1>2. ASSUME NEW c \in Claims, PrepareBegin(c) PROVE EntryInv'
  BY <1>2 DEF PrepareBegin
<1>3. ASSUME NEW c \in Claims, UnprepareNoop(c) PROVE EntryInv'
  BY <1>3 DEF UnprepareNoop
<1>4. ASSUME NEW c \in Claims, UnprepareBegin(c) PROVE EntryInv'
  BY <1>4 DEF UnprepareBegin
<1>5. ASSUME NEW c \in Claims, PodNeeds(c) PROVE EntryInv'
  BY <1>5 DEF PodNeeds, Kubelet
<1>6. ASSUME NEW c \in Claims, PodGivesUp(c) PROVE EntryInv'
  BY <1>6 DEF PodGivesUp, Kubelet
<1>7. ASSUME NEW c \in Claims, PodEnds(c) PROVE EntryInv'
  BY <1>7 DEF PodEnds, Kubelet
<1>8. ASSUME NEW g \in op.todo, ApplyConfig(g) PROVE EntryInv'
  BY <1>8 DEF ApplyConfig, FirstStep
<1>9. ASSUME NEW g \in op.todo, UnprepareGroup(g) PROVE EntryInv'
  BY <1>9 DEF UnprepareGroup
<1>10. ASSUME NEW g \in Gpus, SetComputeMode(g) PROVE EntryInv'
  BY <1>10 DEF SetComputeMode
<1>11. ASSUME NEW g \in Gpus, SetTimeSlice(g) PROVE EntryInv'
  BY <1>11 DEF SetTimeSlice
<1>12. CASE ComputeModeDone
  BY <1>12 DEF ComputeModeDone, Goto
<1>13. CASE TimeSliceDone
  BY <1>13 DEF TimeSliceDone, Goto
<1>14. CASE StartCheck
  BY <1>14 DEF StartCheck, Goto
<1>15. CASE MakeDirs
  BY <1>15 DEF MakeDirs, Goto
<1>16. CASE MountShm
  BY <1>16 DEF MountShm, Goto
<1>17. CASE CreateDeployment
  BY <1>17 DEF CreateDeployment, Goto
<1>18. CASE AssertReady
  BY <1>18 DEF AssertReady, Goto
<1>19. CASE AssertReadyTimeout
  BY <1>19 DEF AssertReadyTimeout
<1>20. CASE StopStat
  BY <1>20 DEF StopStat, Goto, AfterStop
<1>21. CASE StopDelete
  BY <1>21 DEF StopDelete, Goto
<1>22. CASE StopUnmount
  BY <1>22 DEF StopUnmount, Goto
<1>23. CASE StopRemoveAll
  BY <1>23 DEF StopRemoveAll, Goto, AfterStop
<1>24. CASE PrepareComplete
  BY <1>24 DEF PrepareComplete
<1>25. CASE UnprepareForget
  BY <1>25 DEF UnprepareForget
<1>26. CASE StepFails
  BY <1>26 DEF StepFails
<1>27. ASSUME NEW d \in Daemons, DeploymentReady(d) PROVE EntryInv'
  BY <1>27 DEF DeploymentReady, Deployment
<1>28. ASSUME NEW d \in Daemons, DeploymentUnready(d) PROVE EntryInv'
  BY <1>28 DEF DeploymentUnready, Deployment
<1>29. ASSUME NEW d \in Daemons, DeploymentGone(d) PROVE EntryInv'
  BY <1>29 DEF DeploymentGone, Deployment
<1>30. CASE UNCHANGED vars
  BY <1>30 DEF vars
<1>31. ASSUME NEW c \in Claims, RollbackFails(c) PROVE EntryInv'
  BY <1>31 DEF RollbackFails
<1>32. CASE CreateSpecFails
  BY <1>32 DEF CreateSpecFails
<1> QED
  BY <1>1, <1>2, <1>3, <1>4, <1>5, <1>6, <1>7, <1>8, <1>9, <1>10, <1>11,
     <1>12, <1>13, <1>14, <1>15, <1>16, <1>17, <1>18, <1>19, <1>20, <1>21,
     <1>22, <1>23, <1>24, <1>25, <1>26, <1>27, <1>28, <1>29, <1>30, <1>31, <1>32 DEF Next,
     OpStep, Smi, Start, Stop, Unprepare, KubeletStep

\* Start mounts before it creates, Stop deletes before it unmounts.
LEMMA DaemonStep ==
    SharingTypeOK /\ OperationInv /\ EntryInv /\ DaemonInv /\ ProgressInv /\ [Next]_vars => DaemonInv'
<1> SUFFICES ASSUME SharingTypeOK /\ OperationInv /\ EntryInv /\ DaemonInv /\ ProgressInv, [Next]_vars
    PROVE DaemonInv'
  OBVIOUS
<1> USE SharingAssumption, AllGroupsFacts DEF SharingTypeOK, Daemons, D,
    EntryInv, DaemonInv, ProgressInv, OperationInv, Starts, Stops,
    SetsExclusive, NoOp, gpus, daemons
<1>1. ASSUME NEW c \in Claims, PrepareCached(c) PROVE DaemonInv'
  BY <1>1 DEF PrepareCached
<1>2. ASSUME NEW c \in Claims, PrepareBegin(c) PROVE DaemonInv'
  BY <1>2 DEF PrepareBegin
<1>3. ASSUME NEW c \in Claims, UnprepareNoop(c) PROVE DaemonInv'
  BY <1>3 DEF UnprepareNoop
<1>4. ASSUME NEW c \in Claims, UnprepareBegin(c) PROVE DaemonInv'
  BY <1>4 DEF UnprepareBegin
<1>5. ASSUME NEW c \in Claims, PodNeeds(c) PROVE DaemonInv'
  BY <1>5 DEF PodNeeds, Kubelet
<1>6. ASSUME NEW c \in Claims, PodGivesUp(c) PROVE DaemonInv'
  BY <1>6 DEF PodGivesUp, Kubelet
<1>7. ASSUME NEW c \in Claims, PodEnds(c) PROVE DaemonInv'
  BY <1>7 DEF PodEnds, Kubelet
<1>8. ASSUME NEW g \in op.todo, ApplyConfig(g) PROVE DaemonInv'
  BY <1>8 DEF ApplyConfig, FirstStep
<1>9. ASSUME NEW g \in op.todo, UnprepareGroup(g) PROVE DaemonInv'
  BY <1>9 DEF UnprepareGroup
<1>10. ASSUME NEW g \in Gpus, SetComputeMode(g) PROVE DaemonInv'
  BY <1>10 DEF SetComputeMode
<1>11. ASSUME NEW g \in Gpus, SetTimeSlice(g) PROVE DaemonInv'
  BY <1>11 DEF SetTimeSlice
<1>12. CASE ComputeModeDone
  BY <1>12 DEF ComputeModeDone, Goto
<1>13. CASE TimeSliceDone
  BY <1>13 DEF TimeSliceDone, Goto
<1>14. CASE StartCheck
  BY <1>14 DEF StartCheck, Goto
<1>15. CASE MakeDirs
  BY <1>15 DEF MakeDirs, Goto
<1>16. CASE MountShm
  <2>1. /\ D \in Daemons /\ D' = D /\ op'.pc = "mode" /\ op'.want = "mps"
        /\ root[D] /\ deploy[D] = "none" /\ mounts[D] <= faults /\ mounts[D] \in Nat
    BY <1>16 DEF MountShm, Goto
  <2>2. /\ mounts' = [mounts EXCEPT ![D] = mounts[D] + 1]
        /\ root' = root /\ deploy' = deploy /\ faults' = faults
    BY <1>16 DEF MountShm
  <2>3. mounts'[D] = mounts[D] + 1 /\ \A d \in Daemons \ {D} : mounts'[d] = mounts[d]
    BY <2>1, <2>2
  <2>4. ASSUME NEW d \in Daemons \ {D}
        PROVE  deploy[d] \in {"starting", "ready"} \/ mounts[d] <= faults
    OBVIOUS
  <2>5. ASSUME NEW d \in Daemons
        PROVE  /\ mounts'[d] > 0 => root'[d]
               /\ deploy'[d] \in {"starting", "ready"} => mounts'[d] > 0
               /\ mounts'[d] <= faults' + 1
               /\ \/ deploy'[d] \in {"starting", "ready"} \/ mounts'[d] <= faults'
                  \/ d = D
    <3>1. CASE d = D
      <4> HIDE DEF D, DaemonInv, ProgressInv, OperationInv, EntryInv
      <4> QED
        BY <3>1, <2>1, <2>2, <2>3
    <3>2. CASE d # D
      BY <3>2, <2>2, <2>3, <2>4
    <3> QED
      BY <3>1, <3>2
  <2> HIDE DEF D
  <2> QED
    BY <2>1, <2>5
<1>17. CASE CreateDeployment
  BY <1>17 DEF CreateDeployment, Goto
<1>18. CASE AssertReady
  BY <1>18 DEF AssertReady, Goto
<1>19. CASE AssertReadyTimeout
  BY <1>19 DEF AssertReadyTimeout
<1>20. CASE StopStat
  BY <1>20 DEF StopStat, Goto, AfterStop
<1>21. CASE StopDelete
  BY <1>21 DEF StopDelete, Goto
<1>22. CASE StopUnmount
  <2>1. /\ D \in Daemons /\ faults \in Nat /\ deploy[D] \in {"none", "closing"}
        /\ mounts[D] <= faults + 1 /\ mounts[D] \in Nat
    BY <1>22 DEF StopUnmount
  <2>2. /\ root' = root /\ deploy' = deploy /\ faults' = faults
        /\ mounts'[D] = IF mounts[D] = 0 THEN 0 ELSE mounts[D] - 1
        /\ \A d \in Daemons \ {D} : mounts'[d] = mounts[d]
    BY <1>22, <2>1 DEF StopUnmount
  <2>3. mounts'[D] \in Nat /\ mounts'[D] <= faults /\ (mounts'[D] > 0 => root'[D])
    BY <2>1, <2>2
  <2>4. ASSUME NEW d \in Daemons \ {D}
        PROVE  deploy[d] \in {"starting", "ready"} \/ mounts[d] <= faults
    OBVIOUS
  <2>5. ASSUME NEW d \in Daemons
        PROVE  /\ mounts'[d] > 0 => root'[d]
               /\ deploy'[d] \in {"starting", "ready"} => mounts'[d] > 0
               /\ mounts'[d] <= faults' + 1
               /\ deploy'[d] \in {"starting", "ready"} \/ mounts'[d] <= faults'
    <3>1. CASE d = D
      <4> HIDE DEF D, DaemonInv, ProgressInv, OperationInv, EntryInv
      <4> QED
        BY <3>1, <2>1, <2>2, <2>3
    <3>2. CASE d # D
      BY <3>2, <2>2, <2>4
    <3> QED
      BY <3>1, <3>2
  <2> QED
    BY <2>5
<1>23. CASE StopRemoveAll
  <2>1. D \in Daemons /\ mounts[D] = 0 /\ deploy[D] \in {"none", "closing"}
    BY <1>23 DEF StopRemoveAll
  <2>2. /\ mounts' = mounts /\ deploy' = deploy /\ faults' = faults
        /\ \A d \in Daemons \ {D} : root'[d] = root[d]
    BY <1>23 DEF StopRemoveAll
  <2>3. \A d \in Daemons : deploy[d] \in {"starting", "ready"} \/ mounts[d] <= faults
    BY <1>23 DEF StopRemoveAll
  <2>4. /\ \A d \in Daemons : mounts[d] \in Nat /\ (mounts[d] > 0 => root[d])
        /\ \A d \in Daemons : deploy[d] \in {"starting", "ready"} => mounts[d] > 0
        /\ \A d \in Daemons : mounts[d] <= faults + 1
    OBVIOUS
  <2> HIDE DEF D, ProgressInv, OperationInv, EntryInv, SharingTypeOK
  <2> QED
    BY SMTT(30), <2>1, <2>2, <2>3, <2>4
<1>24. CASE PrepareComplete
  <2>1. /\ mounts' = mounts /\ deploy' = deploy /\ root' = root
        /\ faults' \in Nat /\ faults <= faults'
    BY <1>24 DEF PrepareComplete
  <2>2. \A d \in Daemons : deploy[d] \in {"starting", "ready"} \/ mounts[d] <= faults
    BY <1>24 DEF PrepareComplete
  <2>3. op' = NoOp /\ \A d \in Daemons : mounts[d] \in Nat /\ mounts[d] <= faults + 1
    BY <1>24 DEF PrepareComplete
  <2>4. /\ \A d \in Daemons : mounts[d] > 0 => root[d]
        /\ \A d \in Daemons : deploy[d] \in {"starting", "ready"} => mounts[d] > 0
    OBVIOUS
  <2> HIDE DEF D, ProgressInv, OperationInv, EntryInv, SharingTypeOK
  <2>5. faults \in Nat
    BY DEF SharingTypeOK
  <2> QED
    BY <2>1, <2>2, <2>3, <2>4, <2>5
<1>25. CASE UnprepareForget
  BY <1>25 DEF UnprepareForget
<1>26. CASE StepFails
  BY <1>26 DEF StepFails
<1>27. ASSUME NEW d \in Daemons, DeploymentReady(d) PROVE DaemonInv'
  BY <1>27 DEF DeploymentReady, Deployment
<1>28. ASSUME NEW d \in Daemons, DeploymentUnready(d) PROVE DaemonInv'
  BY <1>28 DEF DeploymentUnready, Deployment
<1>29. ASSUME NEW d \in Daemons, DeploymentGone(d) PROVE DaemonInv'
  BY <1>29 DEF DeploymentGone, Deployment
<1>30. CASE UNCHANGED vars
  BY <1>30 DEF vars
<1>31. ASSUME NEW c \in Claims, RollbackFails(c) PROVE DaemonInv'
  BY <1>31 DEF RollbackFails
<1>32. CASE CreateSpecFails
  BY <1>32 DEF CreateSpecFails
<1> QED
  BY <1>1, <1>2, <1>3, <1>4, <1>5, <1>6, <1>7, <1>8, <1>9, <1>10, <1>11,
     <1>12, <1>13, <1>14, <1>15, <1>16, <1>17, <1>18, <1>19, <1>20, <1>21,
     <1>22, <1>23, <1>24, <1>25, <1>26, <1>27, <1>28, <1>29, <1>30, <1>31, <1>32 DEF Next,
     OpStep, Smi, Start, Stop, Unprepare, KubeletStep

\* Every step writes values of the right type.
LEMMA TypeStep ==
    SharingTypeOK /\ OperationInv /\ EntryInv /\ DaemonInv /\ DaemonInv' /\ [Next]_vars => SharingTypeOK'
<1> SUFFICES ASSUME SharingTypeOK /\ OperationInv /\ EntryInv /\ DaemonInv /\ DaemonInv', [Next]_vars
    PROVE SharingTypeOK'
  OBVIOUS
<1> USE SharingAssumption, AllGroupsFacts, GroupFacts DEF SharingTypeOK,
    Daemons, D, EntryInv, DaemonInv, OperationInv, Starts, Stops,
    SetsExclusive, NoOp, gpus, daemons
<1>1. ASSUME NEW c \in Claims, PrepareCached(c) PROVE SharingTypeOK'
  BY <1>1 DEF PrepareCached
<1>2. ASSUME NEW c \in Claims, PrepareBegin(c) PROVE SharingTypeOK'
  BY <1>2, RollbackType DEF PrepareBegin
<1>3. ASSUME NEW c \in Claims, UnprepareNoop(c) PROVE SharingTypeOK'
  BY <1>3 DEF UnprepareNoop
<1>4. ASSUME NEW c \in Claims, UnprepareBegin(c) PROVE SharingTypeOK'
  BY <1>4, RollbackType DEF UnprepareBegin
<1>5. ASSUME NEW c \in Claims, PodNeeds(c) PROVE SharingTypeOK'
  BY <1>5 DEF PodNeeds, Kubelet
<1>6. ASSUME NEW c \in Claims, PodGivesUp(c) PROVE SharingTypeOK'
  BY <1>6 DEF PodGivesUp, Kubelet
<1>7. ASSUME NEW c \in Claims, PodEnds(c) PROVE SharingTypeOK'
  BY <1>7 DEF PodEnds, Kubelet
<1>8. ASSUME NEW g \in op.todo, ApplyConfig(g) PROVE SharingTypeOK'
  BY <1>8 DEF ApplyConfig, FirstStep
<1>9. ASSUME NEW g \in op.todo, UnprepareGroup(g) PROVE SharingTypeOK'
  BY <1>9 DEF UnprepareGroup
<1>10. ASSUME NEW g \in Gpus, SetComputeMode(g) PROVE SharingTypeOK'
  BY <1>10 DEF SetComputeMode
<1>11. ASSUME NEW g \in Gpus, SetTimeSlice(g) PROVE SharingTypeOK'
  BY <1>11 DEF SetTimeSlice
<1>12. CASE ComputeModeDone
  BY <1>12 DEF ComputeModeDone, Goto
<1>13. CASE TimeSliceDone
  BY <1>13 DEF TimeSliceDone, Goto
<1>14. CASE StartCheck
  BY <1>14 DEF StartCheck, Goto
<1>15. CASE MakeDirs
  BY <1>15 DEF MakeDirs, Goto
<1>16. CASE MountShm
  <2>1. D \in Daemons /\ faults' = faults /\ mounts[D] \in Nat
    BY <1>16 DEF MountShm
  <2>2. mounts' \in [Daemons -> Nat]
    BY <1>16, <2>1 DEF MountShm
  <2>3. mounts' \in [Daemons -> 0 .. MaxFaults + 1]
    BY <2>1, <2>2
  <2> QED
    BY <1>16, <2>3 DEF MountShm, Goto
<1>17. CASE CreateDeployment
  BY <1>17 DEF CreateDeployment, Goto
<1>18. CASE AssertReady
  BY <1>18 DEF AssertReady, Goto
<1>19. CASE AssertReadyTimeout
  BY <1>19 DEF AssertReadyTimeout
<1>20. CASE StopStat
  BY <1>20 DEF StopStat, Goto, AfterStop
<1>21. CASE StopDelete
  BY <1>21 DEF StopDelete, Goto
<1>22. CASE StopUnmount
  <2>1. D \in Daemons /\ mounts[D] \in Nat /\ mounts[D] <= MaxFaults + 1
    BY <1>22 DEF StopUnmount
  <2>2. (IF mounts[D] = 0 THEN 0 ELSE mounts[D] - 1) \in 0 .. MaxFaults + 1
    BY <2>1
  <2>3. mounts' = [mounts EXCEPT ![D] = IF mounts[D] = 0 THEN 0 ELSE mounts[D] - 1]
    BY <1>22 DEF StopUnmount
  <2>4. mounts' \in [Daemons -> 0 .. MaxFaults + 1]
    BY <2>2, <2>3
  <2> QED
    BY <1>22, <2>4 DEF StopUnmount, Goto
<1>23. CASE StopRemoveAll
  BY <1>23 DEF StopRemoveAll, Goto, AfterStop
<1>24. CASE PrepareComplete
  BY <1>24 DEF PrepareComplete
<1>25. CASE UnprepareForget
  BY <1>25 DEF UnprepareForget
<1>26. CASE StepFails
  BY <1>26 DEF StepFails
<1>27. ASSUME NEW d \in Daemons, DeploymentReady(d) PROVE SharingTypeOK'
  BY <1>27 DEF DeploymentReady, Deployment
<1>28. ASSUME NEW d \in Daemons, DeploymentUnready(d) PROVE SharingTypeOK'
  BY <1>28 DEF DeploymentUnready, Deployment
<1>29. ASSUME NEW d \in Daemons, DeploymentGone(d) PROVE SharingTypeOK'
  BY <1>29 DEF DeploymentGone, Deployment
<1>30. CASE UNCHANGED vars
  BY <1>30 DEF vars
<1>31. ASSUME NEW c \in Claims, RollbackFails(c) PROVE SharingTypeOK'
  BY <1>31 DEF RollbackFails
<1>32. CASE CreateSpecFails
  BY <1>32 DEF CreateSpecFails
<1> QED
  BY <1>1, <1>2, <1>3, <1>4, <1>5, <1>6, <1>7, <1>8, <1>9, <1>10, <1>11,
     <1>12, <1>13, <1>14, <1>15, <1>16, <1>17, <1>18, <1>19, <1>20, <1>21,
     <1>22, <1>23, <1>24, <1>25, <1>26, <1>27, <1>28, <1>29, <1>30, <1>31, <1>32 DEF Next,
     OpStep, Smi, Start, Stop, Unprepare, KubeletStep

\* No step undoes what an earlier one of the group has done.
LEMMA ProgressStep ==
    SharingTypeOK /\ OperationInv /\ EntryInv /\ DaemonInv /\ ProgressInv /\ [Next]_vars => ProgressInv'
<1> SUFFICES ASSUME SharingTypeOK /\ OperationInv /\ EntryInv /\ DaemonInv /\ ProgressInv, [Next]_vars
    PROVE ProgressInv'
  OBVIOUS
<1> USE SharingAssumption, AllGroupsFacts DEF SharingTypeOK, Daemons, D,
    EntryInv, DaemonInv, ProgressInv, OperationInv, Starts, Stops,
    SetsExclusive, NoOp, gpus, daemons
<1>1. ASSUME NEW c \in Claims, PrepareCached(c) PROVE ProgressInv'
  BY <1>1 DEF PrepareCached
<1>2. ASSUME NEW c \in Claims, PrepareBegin(c) PROVE ProgressInv'
  BY <1>2 DEF PrepareBegin
<1>3. ASSUME NEW c \in Claims, UnprepareNoop(c) PROVE ProgressInv'
  BY <1>3 DEF UnprepareNoop
<1>4. ASSUME NEW c \in Claims, UnprepareBegin(c) PROVE ProgressInv'
  BY <1>4 DEF UnprepareBegin
<1>5. ASSUME NEW c \in Claims, PodNeeds(c) PROVE ProgressInv'
  BY <1>5 DEF PodNeeds, Kubelet
<1>6. ASSUME NEW c \in Claims, PodGivesUp(c) PROVE ProgressInv'
  BY <1>6 DEF PodGivesUp, Kubelet
<1>7. ASSUME NEW c \in Claims, PodEnds(c) PROVE ProgressInv'
  BY <1>7 DEF PodEnds, Kubelet
<1>8. ASSUME NEW g \in op.todo, ApplyConfig(g) PROVE ProgressInv'
  BY <1>8 DEF ApplyConfig, FirstStep
<1>9. ASSUME NEW g \in op.todo, UnprepareGroup(g) PROVE ProgressInv'
  BY <1>9 DEF UnprepareGroup
<1>10. ASSUME NEW g \in Gpus, SetComputeMode(g) PROVE ProgressInv'
  BY <1>10 DEF SetComputeMode
<1>11. ASSUME NEW g \in Gpus, SetTimeSlice(g) PROVE ProgressInv'
  BY <1>11 DEF SetTimeSlice
<1>12. CASE ComputeModeDone
  BY <1>12 DEF ComputeModeDone, Goto
<1>13. CASE TimeSliceDone
  BY <1>13 DEF TimeSliceDone, Goto
<1>14. CASE StartCheck
  BY <1>14 DEF StartCheck, Goto
<1>15. CASE MakeDirs
  BY <1>15 DEF MakeDirs, Goto
<1>16. CASE MountShm
  BY <1>16 DEF MountShm, Goto
<1>17. CASE CreateDeployment
  BY <1>17 DEF CreateDeployment, Goto
<1>18. CASE AssertReady
  BY <1>18 DEF AssertReady, Goto
<1>19. CASE AssertReadyTimeout
  BY <1>19 DEF AssertReadyTimeout
<1>20. CASE StopStat
  <2>1. /\ D \in Daemons /\ D' = D /\ op' = [op EXCEPT !.pc = op'.pc]
        /\ op.do = "unprepare" /\ op.want = "Default"
    BY <1>20 DEF StopStat, Goto
  <2>2. CASE root[D]
    BY <1>20, <2>1, <2>2 DEF StopStat, Goto
  <2>3. CASE ~root[D]
    BY <1>20, <2>1, <2>3 DEF StopStat, Goto, AfterStop
  <2> QED
    BY <2>2, <2>3
<1>21. CASE StopDelete
  BY <1>21 DEF StopDelete, Goto
<1>22. CASE StopUnmount
  BY <1>22 DEF StopUnmount, Goto
<1>23. CASE StopRemoveAll
  <2>1. /\ D \in Daemons /\ D' = D /\ op.do = "unprepare" /\ op.want = "Default"
        /\ deploy[D] \in {"none", "closing"} /\ ~root'[D]
    BY <1>23 DEF StopRemoveAll, Goto
  <2>2. op'.pc \in {"mode", "pick"} /\ op'.want = "Default" /\ op'.left = op.left /\ op'.devs = op.devs
    BY <1>23, <2>1 DEF StopRemoveAll, Goto, AfterStop
  <2> QED
    BY <1>23, <2>1, <2>2 DEF StopRemoveAll
<1>24. CASE PrepareComplete
  BY <1>24 DEF PrepareComplete
<1>25. CASE UnprepareForget
  BY <1>25 DEF UnprepareForget
<1>26. CASE StepFails
  BY <1>26 DEF StepFails
<1>27. ASSUME NEW d \in Daemons, DeploymentReady(d) PROVE ProgressInv'
  <2>1. /\ op' = op /\ D' = D /\ root' = root /\ mounts' = mounts /\ mode' = mode
        /\ slice' = slice
    BY <1>27 DEF DeploymentReady, Deployment
  <2>2. D \in Daemons /\ deploy[D] \in {"none", "closing"} => deploy'[D] = deploy[D]
    BY <1>27 DEF DeploymentReady, Deployment
  <2>3. op.pc \notin {"idle", "pick"} => D \in Daemons
    OBVIOUS
  <2> HIDE DEF D
  <2> QED
    BY <2>1, <2>2, <2>3
<1>28. ASSUME NEW d \in Daemons, DeploymentUnready(d) PROVE ProgressInv'
  <2>1. /\ op' = op /\ D' = D /\ root' = root /\ mounts' = mounts /\ mode' = mode
        /\ slice' = slice
    BY <1>28 DEF DeploymentUnready, Deployment
  <2>2. D \in Daemons /\ deploy[D] \in {"none", "closing"} => deploy'[D] = deploy[D]
    BY <1>28 DEF DeploymentUnready, Deployment
  <2>3. op.pc \notin {"idle", "pick"} => D \in Daemons
    OBVIOUS
  <2> HIDE DEF D
  <2> QED
    BY <2>1, <2>2, <2>3
<1>29. ASSUME NEW d \in Daemons, DeploymentGone(d) PROVE ProgressInv'
  BY <1>29 DEF DeploymentGone, Deployment
<1>30. CASE UNCHANGED vars
  BY <1>30 DEF vars
<1>31. ASSUME NEW c \in Claims, RollbackFails(c) PROVE ProgressInv'
  BY <1>31 DEF RollbackFails
<1>32. CASE CreateSpecFails
  BY <1>32 DEF CreateSpecFails
<1> QED
  BY <1>1, <1>2, <1>3, <1>4, <1>5, <1>6, <1>7, <1>8, <1>9, <1>10, <1>11,
     <1>12, <1>13, <1>14, <1>15, <1>16, <1>17, <1>18, <1>19, <1>20, <1>21,
     <1>22, <1>23, <1>24, <1>25, <1>26, <1>27, <1>28, <1>29, <1>30, <1>31, <1>32 DEF Next,
     OpStep, Smi, Start, Stop, Unprepare, KubeletStep

\* A group Unprepare is through with stays clean.
LEMMA CleanStep ==
    SharingTypeOK /\ OperationInv /\ EntryInv /\ DaemonInv /\ ProgressInv /\ CleanInv /\ [Next]_vars => CleanInv'
<1> SUFFICES ASSUME SharingTypeOK /\ OperationInv /\ EntryInv /\ DaemonInv /\ ProgressInv /\ CleanInv, [Next]_vars
    PROVE CleanInv'
  OBVIOUS
<1> USE SharingAssumption, AllGroupsFacts DEF SharingTypeOK, Daemons, D,
    EntryInv, DaemonInv, ProgressInv, CleanInv, Clean, Passed, OperationInv,
    Starts, Stops, SetsExclusive, NoOp, gpus, daemons
<1>1. ASSUME NEW c \in Claims, PrepareCached(c) PROVE CleanInv'
  BY <1>1 DEF PrepareCached
<1>2. ASSUME NEW c \in Claims, PrepareBegin(c) PROVE CleanInv'
  BY <1>2 DEF PrepareBegin
<1>3. ASSUME NEW c \in Claims, UnprepareNoop(c) PROVE CleanInv'
  BY <1>3 DEF UnprepareNoop
<1>4. ASSUME NEW c \in Claims, UnprepareBegin(c) PROVE CleanInv'
  BY <1>4 DEF UnprepareBegin
<1>5. ASSUME NEW c \in Claims, PodNeeds(c) PROVE CleanInv'
  BY <1>5 DEF PodNeeds, Kubelet
<1>6. ASSUME NEW c \in Claims, PodGivesUp(c) PROVE CleanInv'
  BY <1>6 DEF PodGivesUp, Kubelet
<1>7. ASSUME NEW c \in Claims, PodEnds(c) PROVE CleanInv'
  BY <1>7 DEF PodEnds, Kubelet
<1>8. ASSUME NEW g \in op.todo, ApplyConfig(g) PROVE CleanInv'
  BY <1>8 DEF ApplyConfig, FirstStep
<1>9. ASSUME NEW g \in op.todo, UnprepareGroup(g) PROVE CleanInv'
  BY <1>9 DEF UnprepareGroup
<1>10. ASSUME NEW g \in Gpus, SetComputeMode(g) PROVE CleanInv'
  BY <1>10 DEF SetComputeMode
<1>11. ASSUME NEW g \in Gpus, SetTimeSlice(g) PROVE CleanInv'
  BY <1>11 DEF SetTimeSlice
<1>12. CASE ComputeModeDone
  BY <1>12 DEF ComputeModeDone, Goto
<1>13. CASE TimeSliceDone
  <2>1. CASE op.do = "unprepare" /\ cp[op.claim] = "completed"
    <3>1. \A g \in Groups(alloc[op.claim]) : <<op.claim, g.devs>> \in Daemons
      BY <2>1, GroupFacts
    <3>2. /\ op'.todo = op.todo /\ op'.devs = op.devs /\ alloc' = alloc
          /\ op'.claim = op.claim
      BY <1>13, <2>1 DEF TimeSliceDone, Goto
    <3>3. ASSUME NEW g \in Passed PROVE Clean(op.claim, g)'
      BY <1>13, <2>1, <3>1, <3>2, <3>3 DEF TimeSliceDone, Goto
    <3>4. ASSUME NEW g \in Groups(alloc[op.claim]) \ op.todo, g.devs = op.devs, op'.pc = "pick"
          PROVE  Clean(op.claim, g)'
      BY <1>13, <2>1, <3>1, <3>2, <3>4 DEF TimeSliceDone, Goto
    <3>5. Passed' \subseteq {g \in Groups(alloc[op.claim]) \ op.todo :
                             g \in Passed \/ (g.devs = op.devs /\ op'.pc = "pick")}
      BY <3>2
    <3> HIDE DEF Clean, Passed
    <3> QED
      BY <3>2, <3>3, <3>4, <3>5
  <2>2. CASE ~(op.do = "unprepare" /\ cp[op.claim] = "completed")
    BY <1>13, <2>2 DEF TimeSliceDone, Goto
  <2> QED
    BY <2>1, <2>2
<1>14. CASE StartCheck
  BY <1>14 DEF StartCheck, Goto
<1>15. CASE MakeDirs
  BY <1>15 DEF MakeDirs, Goto
<1>16. CASE MountShm
  BY <1>16 DEF MountShm, Goto
<1>17. CASE CreateDeployment
  BY <1>17 DEF CreateDeployment, Goto
<1>18. CASE AssertReady
  BY <1>18 DEF AssertReady, Goto
<1>19. CASE AssertReadyTimeout
  BY <1>19 DEF AssertReadyTimeout
<1>20. CASE StopStat
  <2>1. CASE op.do = "unprepare" /\ cp[op.claim] = "completed"
    <3>1. \A g \in Groups(alloc[op.claim]) : <<op.claim, g.devs>> \in Daemons
      BY <2>1, GroupFacts
    <3>2. /\ op'.todo = op.todo /\ op'.devs = op.devs /\ alloc' = alloc
          /\ op'.claim = op.claim
      BY <1>20, <2>1 DEF StopStat, Goto, AfterStop
    <3>3. ASSUME NEW g \in Passed PROVE Clean(op.claim, g)'
      BY <1>20, <2>1, <3>1, <3>2, <3>3 DEF StopStat, Goto, AfterStop
    <3>4. ASSUME NEW g \in Groups(alloc[op.claim]) \ op.todo, g.devs = op.devs, op'.pc = "pick"
          PROVE  Clean(op.claim, g)'
      BY SMTT(30), <1>20, <2>1, <3>1, <3>2, <3>4 DEF StopStat, Goto, AfterStop
    <3>5. Passed' \subseteq {g \in Groups(alloc[op.claim]) \ op.todo :
                             g \in Passed \/ (g.devs = op.devs /\ op'.pc = "pick")}
      BY <3>2
    <3> HIDE DEF Clean, Passed
    <3> QED
      BY <3>2, <3>3, <3>4, <3>5
  <2>2. CASE ~(op.do = "unprepare" /\ cp[op.claim] = "completed")
    BY <1>20, <2>2 DEF StopStat, Goto, AfterStop
  <2> QED
    BY <2>1, <2>2
<1>21. CASE StopDelete
  <2>1. CASE op.do = "unprepare" /\ cp[op.claim] = "completed"
    <3>1. /\ \A g \in Groups(alloc[op.claim]) : <<op.claim, g.devs>> \in Daemons
          /\ op'.todo = op.todo /\ op'.devs = op.devs /\ alloc' = alloc
      BY <1>21, <2>1, GroupFacts DEF StopDelete, Goto
    <3> QED
      BY <1>21, <2>1, <3>1 DEF StopDelete, Goto
  <2>2. CASE ~(op.do = "unprepare" /\ cp[op.claim] = "completed")
    BY <1>21, <2>2 DEF StopDelete, Goto
  <2> QED
    BY <2>1, <2>2
<1>22. CASE StopUnmount
  <2>1. /\ alloc' = alloc /\ cp' = cp /\ mode' = mode /\ slice' = slice
        /\ deploy' = deploy /\ root' = root /\ op.pc = "unmount"
        /\ op' = NoOp \/ op' = Goto("rmdir")
    BY <1>22 DEF StopUnmount
  <2>2. CASE op' = NoOp
    BY <2>2
  <2>3. CASE op' = Goto("rmdir")
    <3>1. op'.do = op.do /\ op'.claim = op.claim /\ Passed' = Passed
      BY <2>1, <2>3 DEF Goto
    <3> HIDE DEF Passed
    <3> QED
      BY <2>1, <3>1
  <2> QED
    BY <2>1, <2>2, <2>3
<1>23. CASE StopRemoveAll
  <2>1. CASE op.do = "unprepare" /\ cp[op.claim] = "completed"
    <3>1. \A g \in Groups(alloc[op.claim]) : <<op.claim, g.devs>> \in Daemons
      BY <2>1, GroupFacts
    <3>2. /\ op'.todo = op.todo /\ op'.devs = op.devs /\ alloc' = alloc
          /\ op'.claim = op.claim
      BY <1>23, <2>1 DEF StopRemoveAll, Goto, AfterStop
    <3>3. ASSUME NEW g \in Passed PROVE Clean(op.claim, g)'
      BY <1>23, <2>1, <3>1, <3>2, <3>3 DEF StopRemoveAll, Goto, AfterStop
    <3>4. ASSUME NEW g \in Groups(alloc[op.claim]) \ op.todo, g.devs = op.devs, op'.pc = "pick"
          PROVE  Clean(op.claim, g)'
      BY <1>23, <2>1, <3>1, <3>2, <3>4 DEF StopRemoveAll, Goto, AfterStop
    <3>5. Passed' \subseteq {g \in Groups(alloc[op.claim]) \ op.todo :
                             g \in Passed \/ (g.devs = op.devs /\ op'.pc = "pick")}
      BY <3>2
    <3> HIDE DEF Clean, Passed
    <3> QED
      BY <3>2, <3>3, <3>4, <3>5
  <2>2. CASE ~(op.do = "unprepare" /\ cp[op.claim] = "completed")
    BY <1>23, <2>2 DEF StopRemoveAll, Goto, AfterStop
  <2> QED
    BY <2>1, <2>2
<1>24. CASE PrepareComplete
  BY <1>24 DEF PrepareComplete
<1>25. CASE UnprepareForget
  BY <1>25 DEF UnprepareForget
<1>26. CASE StepFails
  BY <1>26 DEF StepFails
<1>27. ASSUME NEW d \in Daemons, DeploymentReady(d) PROVE CleanInv'
  BY <1>27 DEF DeploymentReady, Deployment
<1>28. ASSUME NEW d \in Daemons, DeploymentUnready(d) PROVE CleanInv'
  BY <1>28 DEF DeploymentUnready, Deployment
<1>29. ASSUME NEW d \in Daemons, DeploymentGone(d) PROVE CleanInv'
  BY <1>29 DEF DeploymentGone, Deployment
<1>30. CASE UNCHANGED vars
  BY <1>30 DEF vars
<1>31. ASSUME NEW c \in Claims, RollbackFails(c) PROVE CleanInv'
  BY <1>31 DEF RollbackFails
<1>32. CASE CreateSpecFails
  BY <1>32 DEF CreateSpecFails
<1> QED
  BY <1>1, <1>2, <1>3, <1>4, <1>5, <1>6, <1>7, <1>8, <1>9, <1>10, <1>11,
     <1>12, <1>13, <1>14, <1>15, <1>16, <1>17, <1>18, <1>19, <1>20, <1>21,
     <1>22, <1>23, <1>24, <1>25, <1>26, <1>27, <1>28, <1>29, <1>30, <1>31, <1>32 DEF Next,
     OpStep, Smi, Start, Stop, Unprepare, KubeletStep

\* Every set of devices of a claim may have a daemon.
LEMMA DaemonFacts == \A c \in Claims, devs \in SUBSET Devs : <<c, devs>> \in Daemons
  BY DEF Daemons

\* What GroupFacts says of the claims that are or are being prepared.
LEMMA PreparedGroups ==
    ASSUME SharingTypeOK, OperationInv, EntryInv, NEW c \in Claims,
           cp[c] = "completed" \/ (op.do = "prepare" /\ op.claim = c)
    PROVE  /\ \A g \in Groups(alloc[c]) :
                 /\ g.devs \in SUBSET Devs /\ g.devs \subseteq AllocatedDevs(alloc[c])
                 /\ g.config.sharing \in {"none", "Default", "Long", "mps"}
           /\ \A g, h \in Groups(alloc[c]) : g # h => g.devs \cap h.devs = {} /\ g.devs # h.devs
<1>1. alloc \in Inputs /\ ~LookupFails(alloc[c])
  BY DEF SharingTypeOK, OperationInv, EntryInv
<1> QED
  BY <1>1, GroupFacts

\* The part of it that the cases below need.
LEMMA SettledGroups ==
    ASSUME SharingTypeOK, OperationInv, EntryInv
    PROVE  \A c \in Claims : cp[c] = "completed" \/ (op.do = "prepare" /\ op.claim = c) =>
               \A g \in Groups(alloc[c]) :
                   g.devs \in SUBSET Devs /\ g.devs \subseteq AllocatedDevs(alloc[c])
  BY PreparedGroups

\* Only Unprepare deletes a Deployment, and only one of its own claim.
LEMMA OpenStep ==
    SharingTypeOK /\ OperationInv /\ EntryInv /\ OpenInv /\ ~PromptReuse /\ [Next]_vars => OpenInv'
<1> SUFFICES ASSUME SharingTypeOK /\ OperationInv /\ EntryInv /\ OpenInv /\ ~PromptReuse, [Next]_vars
    PROVE OpenInv'
  OBVIOUS
<1> USE SharingAssumption, AllGroupsFacts, DaemonFacts DEF SharingTypeOK, D,
    EntryInv, OpenInv, OperationInv, Starts, Stops, SetsExclusive, NoOp,
    gpus, daemons
<1>1. ASSUME NEW c \in Claims, PrepareCached(c) PROVE OpenInv'
  BY <1>1 DEF PrepareCached
<1>2. ASSUME NEW c \in Claims, PrepareBegin(c) PROVE OpenInv'
  BY <1>2 DEF PrepareBegin
<1>3. ASSUME NEW c \in Claims, UnprepareNoop(c) PROVE OpenInv'
  BY <1>3 DEF UnprepareNoop
<1>4. ASSUME NEW c \in Claims, UnprepareBegin(c) PROVE OpenInv'
  BY <1>4 DEF UnprepareBegin
<1>5. ASSUME NEW c \in Claims, PodNeeds(c) PROVE OpenInv'
  BY <1>5 DEF PodNeeds, Kubelet
<1>6. ASSUME NEW c \in Claims, PodGivesUp(c) PROVE OpenInv'
  BY <1>6 DEF PodGivesUp, Kubelet
<1>7. ASSUME NEW c \in Claims, PodEnds(c) PROVE OpenInv'
  BY <1>7 DEF PodEnds, Kubelet
<1>8. ASSUME NEW g \in op.todo, ApplyConfig(g) PROVE OpenInv'
  BY <1>8 DEF ApplyConfig, FirstStep
<1>9. ASSUME NEW g \in op.todo, UnprepareGroup(g) PROVE OpenInv'
  BY <1>9 DEF UnprepareGroup
<1>10. ASSUME NEW g \in Gpus, SetComputeMode(g) PROVE OpenInv'
  BY <1>10 DEF SetComputeMode
<1>11. ASSUME NEW g \in Gpus, SetTimeSlice(g) PROVE OpenInv'
  BY <1>11 DEF SetTimeSlice
<1>12. CASE ComputeModeDone
  BY <1>12 DEF ComputeModeDone, Goto
<1>13. CASE TimeSliceDone
  BY <1>13 DEF TimeSliceDone, Goto
<1>14. CASE StartCheck
  BY <1>14 DEF StartCheck, Goto
<1>15. CASE MakeDirs
  BY <1>15 DEF MakeDirs, Goto
<1>16. CASE MountShm
  BY <1>16 DEF MountShm, Goto
<1>17. CASE CreateDeployment
  BY <1>17 DEF CreateDeployment, Goto
<1>18. CASE AssertReady
  BY <1>18 DEF AssertReady, Goto
<1>19. CASE AssertReadyTimeout
  BY <1>19 DEF AssertReadyTimeout
<1>20. CASE StopStat
  BY <1>20 DEF StopStat, Goto, AfterStop
<1>21. CASE StopDelete
  <2>1. /\ op.do = "unprepare" /\ op.claim \in Claims /\ kub[op.claim] = "releasing"
        /\ op'.do = "unprepare" /\ kub' = kub /\ D \in Daemons
    BY <1>21 DEF StopDelete, Goto
  <2>2. \A c \in Claims, devs \in SUBSET Devs :
            c # op.claim => deploy'[<<c, devs>>] = deploy[<<c, devs>>]
    BY <1>21, <2>1 DEF StopDelete
  <2> QED
    BY <2>1, <2>2
<1>22. CASE StopUnmount
  BY <1>22 DEF StopUnmount, Goto
<1>23. CASE StopRemoveAll
  BY <1>23 DEF StopRemoveAll, Goto, AfterStop
<1>24. CASE PrepareComplete
  BY <1>24 DEF PrepareComplete
<1>25. CASE UnprepareForget
  BY <1>25 DEF UnprepareForget
<1>26. CASE StepFails
  BY <1>26 DEF StepFails
<1>27. ASSUME NEW d \in Daemons, DeploymentReady(d) PROVE OpenInv'
  BY <1>27 DEF DeploymentReady, Deployment
<1>28. ASSUME NEW d \in Daemons, DeploymentUnready(d) PROVE OpenInv'
  BY <1>28 DEF DeploymentUnready, Deployment
<1>29. ASSUME NEW d \in Daemons, DeploymentGone(d) PROVE OpenInv'
  BY <1>29 DEF DeploymentGone, Deployment
<1>30. CASE UNCHANGED vars
  BY <1>30 DEF vars
<1>31. ASSUME NEW c \in Claims, RollbackFails(c) PROVE OpenInv'
  BY <1>31 DEF RollbackFails
<1>32. CASE CreateSpecFails
  BY <1>32 DEF CreateSpecFails
<1> QED
  BY <1>1, <1>2, <1>3, <1>4, <1>5, <1>6, <1>7, <1>8, <1>9, <1>10, <1>11,
     <1>12, <1>13, <1>14, <1>15, <1>16, <1>17, <1>18, <1>19, <1>20, <1>21,
     <1>22, <1>23, <1>24, <1>25, <1>26, <1>27, <1>28, <1>29, <1>30, <1>31, <1>32 DEF Next,
     OpStep, Smi, Start, Stop, Unprepare, KubeletStep

\* A claim that completes has had all its groups started.
LEMMA SettledBackedStep ==
    SharingTypeOK /\ OperationInv /\ EntryInv /\ OpenInv /\ SettledBacked /\ PassedBacked /\ ~PromptReuse /\ [Next]_vars => SettledBacked'
<1> SUFFICES ASSUME SharingTypeOK /\ OperationInv /\ EntryInv /\ OpenInv /\ SettledBacked /\ PassedBacked /\ ~PromptReuse, [Next]_vars
    PROVE SettledBacked'
  OBVIOUS
<1> USE SharingAssumption, AllGroupsFacts, DaemonFacts, SettledGroups DEF
    SharingTypeOK, D, EntryInv, SettledBacked, Settled, Backed,
    OperationInv, Starts, Stops, SetsExclusive, NoOp, gpus, daemons
<1>1. ASSUME NEW c \in Claims, PrepareCached(c) PROVE SettledBacked'
  BY <1>1 DEF PrepareCached
<1>2. ASSUME NEW c \in Claims, PrepareBegin(c) PROVE SettledBacked'
  BY SMTT(30), <1>2 DEF PrepareBegin
<1>3. ASSUME NEW c \in Claims, UnprepareNoop(c) PROVE SettledBacked'
  <2>1. alloc' = alloc /\ deploy' = deploy /\ \A b \in Claims : Settled(b)' => Settled(b)
    BY <1>3 DEF UnprepareNoop
  <2> HIDE DEF Settled
  <2> QED
    BY <2>1
<1>4. ASSUME NEW c \in Claims, UnprepareBegin(c) PROVE SettledBacked'
  BY SMTT(30), <1>4 DEF UnprepareBegin
<1>5. ASSUME NEW c \in Claims, PodNeeds(c) PROVE SettledBacked'
  <2>1. alloc' = alloc /\ deploy' = deploy /\ \A b \in Claims : Settled(b)' => Settled(b)
    BY <1>5 DEF PodNeeds, Kubelet
  <2> HIDE DEF Settled
  <2> QED
    BY <2>1
<1>6. ASSUME NEW c \in Claims, PodGivesUp(c) PROVE SettledBacked'
  <2>1. alloc' = alloc /\ deploy' = deploy /\ \A b \in Claims : Settled(b)' => Settled(b)
    BY <1>6 DEF PodGivesUp, Kubelet
  <2> HIDE DEF Settled
  <2> QED
    BY <2>1
<1>7. ASSUME NEW c \in Claims, PodEnds(c) PROVE SettledBacked'
  <2>1. alloc' = alloc /\ deploy' = deploy /\ \A b \in Claims : Settled(b)' => Settled(b)
    BY <1>7 DEF PodEnds, Kubelet
  <2> HIDE DEF Settled
  <2> QED
    BY <2>1
<1>8. ASSUME NEW g \in op.todo, ApplyConfig(g) PROVE SettledBacked'
  BY <1>8 DEF ApplyConfig, FirstStep
<1>9. ASSUME NEW g \in op.todo, UnprepareGroup(g) PROVE SettledBacked'
  BY <1>9 DEF UnprepareGroup
<1>10. ASSUME NEW g \in Gpus, SetComputeMode(g) PROVE SettledBacked'
  BY <1>10 DEF SetComputeMode
<1>11. ASSUME NEW g \in Gpus, SetTimeSlice(g) PROVE SettledBacked'
  BY <1>11 DEF SetTimeSlice
<1>12. CASE ComputeModeDone
  BY <1>12 DEF ComputeModeDone, Goto
<1>13. CASE TimeSliceDone
  BY <1>13 DEF TimeSliceDone, Goto
<1>14. CASE StartCheck
  BY <1>14 DEF StartCheck, Goto
<1>15. CASE MakeDirs
  BY <1>15 DEF MakeDirs, Goto
<1>16. CASE MountShm
  BY <1>16 DEF MountShm, Goto
<1>17. CASE CreateDeployment
  BY <1>17 DEF CreateDeployment, Goto
<1>18. CASE AssertReady
  BY <1>18 DEF AssertReady, Goto
<1>19. CASE AssertReadyTimeout
  BY <1>19 DEF AssertReadyTimeout
<1>20. CASE StopStat
  BY <1>20 DEF StopStat, Goto, AfterStop
<1>21. CASE StopDelete
  <2>1. /\ op.claim \in Claims /\ op.devs \in SUBSET Devs /\ kub[op.claim] = "releasing"
        /\ alloc' = alloc /\ cp' = cp /\ kub' = kub
        /\ \A x \in Daemons : x # <<op.claim, op.devs>> => deploy'[x] = deploy[x]
    BY <1>21 DEF StopDelete, Goto
  <2>2. ASSUME NEW c \in Claims, Settled(c), NEW g \in Groups(alloc[c])
        PROVE  deploy'[<<c, g.devs>>] = deploy[<<c, g.devs>>]
    <3>1. <<c, g.devs>> \in Daemons /\ c # op.claim
      BY <2>1, <2>2
    <3> QED
      BY <2>1, <3>1
  <2> HIDE DEF SharingTypeOK, OperationInv, EntryInv, D
  <2> QED
    BY <2>1, <2>2
<1>22. CASE StopUnmount
  BY <1>22 DEF StopUnmount, Goto
<1>23. CASE StopRemoveAll
  BY <1>23 DEF StopRemoveAll, Goto, AfterStop
<1>24. CASE PrepareComplete
  <2>1. /\ op.claim \in Claims /\ alloc' = alloc /\ deploy' = deploy
        /\ \A b \in Claims : Settled(b)' => Settled(b) \/ b = op.claim
    BY <1>24 DEF PrepareComplete
  <2>2. \A g \in Groups(alloc[op.claim]) : Backed(op.claim, g)
    BY <1>24 DEF PrepareComplete, PassedBacked, Passed
  <2> HIDE DEF Settled, SharingTypeOK, OperationInv, EntryInv
  <2> QED
    BY <2>1, <2>2
<1>25. CASE UnprepareForget
  <2>1. alloc' = alloc /\ deploy' = deploy /\ \A b \in Claims : Settled(b)' => Settled(b)
    BY <1>25 DEF UnprepareForget
  <2> HIDE DEF Settled
  <2> QED
    BY <2>1
<1>26. CASE StepFails
  BY <1>26 DEF StepFails
<1>27. ASSUME NEW d \in Daemons, DeploymentReady(d) PROVE SettledBacked'
  <2>1. /\ alloc' = alloc /\ cp' = cp /\ kub' = kub /\ D' = D
        /\ \A x \in Daemons :
              deploy[x] \in {"starting", "ready"} => deploy'[x] \in {"starting", "ready"}
    BY <1>27 DEF DeploymentReady, Deployment
  <2>2. \A c \in Claims : Settled(c) =>
            \A g \in Groups(alloc[c]) : <<c, g.devs>> \in Daemons
    BY SettledGroups
  <2>3. \A c \in Claims : Settled(c)' = Settled(c)
    BY <2>1
  <2> HIDE DEF OperationInv, EntryInv, Settled
  <2> QED
    BY <2>1, <2>2, <2>3
<1>28. ASSUME NEW d \in Daemons, DeploymentUnready(d) PROVE SettledBacked'
  <2>1. /\ alloc' = alloc /\ cp' = cp /\ kub' = kub /\ D' = D
        /\ \A x \in Daemons :
              deploy[x] \in {"starting", "ready"} => deploy'[x] \in {"starting", "ready"}
    BY <1>28 DEF DeploymentUnready, Deployment
  <2>2. \A c \in Claims : Settled(c) =>
            \A g \in Groups(alloc[c]) : <<c, g.devs>> \in Daemons
    BY SettledGroups
  <2>3. \A c \in Claims : Settled(c)' = Settled(c)
    BY <2>1
  <2> HIDE DEF OperationInv, EntryInv, Settled
  <2> QED
    BY <2>1, <2>2, <2>3
<1>29. ASSUME NEW d \in Daemons, DeploymentGone(d) PROVE SettledBacked'
  <2>1. /\ alloc' = alloc /\ cp' = cp /\ kub' = kub /\ D' = D
        /\ \A x \in Daemons :
              deploy[x] \in {"starting", "ready"} => deploy'[x] \in {"starting", "ready"}
    BY <1>29 DEF DeploymentGone, Deployment
  <2>2. \A c \in Claims : Settled(c) =>
            \A g \in Groups(alloc[c]) : <<c, g.devs>> \in Daemons
    BY SettledGroups
  <2>3. \A c \in Claims : Settled(c)' = Settled(c)
    BY <2>1
  <2> HIDE DEF OperationInv, EntryInv, Settled
  <2> QED
    BY <2>1, <2>2, <2>3
<1>30. CASE UNCHANGED vars
  BY <1>30 DEF vars
<1>31. ASSUME NEW c \in Claims, RollbackFails(c) PROVE SettledBacked'
  BY <1>31 DEF RollbackFails
<1>32. CASE CreateSpecFails
  BY <1>32 DEF CreateSpecFails
<1> QED
  BY <1>1, <1>2, <1>3, <1>4, <1>5, <1>6, <1>7, <1>8, <1>9, <1>10, <1>11,
     <1>12, <1>13, <1>14, <1>15, <1>16, <1>17, <1>18, <1>19, <1>20, <1>21,
     <1>22, <1>23, <1>24, <1>25, <1>26, <1>27, <1>28, <1>29, <1>30, <1>31, <1>32 DEF Next,
     OpStep, Smi, Start, Stop, Unprepare, KubeletStep

\* The overlap check compares with every completed claim.
LEMMA ApartStep ==
    SharingTypeOK /\ OperationInv /\ EntryInv /\ ApartInv /\ [Next]_vars => ApartInv'
<1> SUFFICES ASSUME SharingTypeOK /\ OperationInv /\ EntryInv /\ ApartInv, [Next]_vars
    PROVE ApartInv'
  OBVIOUS
<1> USE SharingAssumption DEF SharingTypeOK, ApartInv,
    NonAdminDevs, NoOp, gpus, daemons
<1>1. ASSUME NEW c \in Claims, PrepareCached(c) PROVE ApartInv'
  BY <1>1 DEF PrepareCached
<1>2. ASSUME NEW c \in Claims, PrepareBegin(c) PROVE ApartInv'
  <2>1. /\ alloc' = alloc /\ cp' = [cp EXCEPT ![c] = "started"] /\ cp[c] # "completed"
        /\ \A b \in Claims \ {c} : cp[b] = "completed" =>
              NonAdminDevs(b) \cap NonAdminDevs(c) = {}
        /\ op'.do = "prepare" => op'.claim = c
    BY <1>2 DEF PrepareBegin, NoOverlap
  <2>2. \A b \in Claims : cp'[b] = "completed" => b # c /\ cp[b] = "completed"
    BY <2>1
  <2> QED
    BY <2>1, <2>2
<1>3. ASSUME NEW c \in Claims, UnprepareNoop(c) PROVE ApartInv'
  BY <1>3 DEF UnprepareNoop
<1>4. ASSUME NEW c \in Claims, UnprepareBegin(c) PROVE ApartInv'
  BY <1>4 DEF UnprepareBegin
<1>5. ASSUME NEW c \in Claims, PodNeeds(c) PROVE ApartInv'
  BY <1>5 DEF PodNeeds, Kubelet
<1>6. ASSUME NEW c \in Claims, PodGivesUp(c) PROVE ApartInv'
  BY <1>6 DEF PodGivesUp, Kubelet
<1>7. ASSUME NEW c \in Claims, PodEnds(c) PROVE ApartInv'
  BY <1>7 DEF PodEnds, Kubelet
<1>8. ASSUME NEW g \in op.todo, ApplyConfig(g) PROVE ApartInv'
  BY <1>8 DEF ApplyConfig, FirstStep
<1>9. ASSUME NEW g \in op.todo, UnprepareGroup(g) PROVE ApartInv'
  BY <1>9 DEF UnprepareGroup
<1>10. ASSUME NEW g \in Gpus, SetComputeMode(g) PROVE ApartInv'
  BY <1>10 DEF SetComputeMode
<1>11. ASSUME NEW g \in Gpus, SetTimeSlice(g) PROVE ApartInv'
  BY <1>11 DEF SetTimeSlice
<1>12. CASE ComputeModeDone
  BY <1>12 DEF ComputeModeDone, Goto
<1>13. CASE TimeSliceDone
  BY <1>13 DEF TimeSliceDone, Goto
<1>14. CASE StartCheck
  BY SMTT(30), <1>14 DEF StartCheck, Goto
<1>15. CASE MakeDirs
  BY SMTT(30), <1>15 DEF MakeDirs, Goto
<1>16. CASE MountShm
  BY SMTT(30), <1>16 DEF MountShm, Goto
<1>17. CASE CreateDeployment
  BY SMTT(30), <1>17 DEF CreateDeployment, Goto
<1>18. CASE AssertReady
  BY SMTT(30), <1>18 DEF AssertReady, Goto
<1>19. CASE AssertReadyTimeout
  BY <1>19 DEF AssertReadyTimeout
<1>20. CASE StopStat
  BY <1>20 DEF StopStat, Goto, AfterStop
<1>21. CASE StopDelete
  BY <1>21 DEF StopDelete, Goto
<1>22. CASE StopUnmount
  BY SMTT(30), <1>22 DEF StopUnmount, Goto
<1>23. CASE StopRemoveAll
  BY SMTT(30), <1>23 DEF StopRemoveAll, Goto, AfterStop
<1>24. CASE PrepareComplete
  <2>1. /\ alloc' = alloc /\ op'.do = "none" /\ op.do = "prepare" /\ op.claim \in Claims
        /\ \A b \in Claims \ {op.claim} : cp'[b] = cp[b]
    BY <1>24 DEF PrepareComplete, OperationInv
  <2>2. \A b \in Claims \ {op.claim} : cp[b] = "completed" =>
            /\ NonAdminDevs(b) \cap NonAdminDevs(op.claim) = {}
            /\ NonAdminDevs(op.claim) \cap NonAdminDevs(b) = {}
    BY <2>1
  <2> QED
    BY <2>1, <2>2
<1>25. CASE UnprepareForget
  BY <1>25 DEF UnprepareForget
<1>26. CASE StepFails
  BY <1>26 DEF StepFails
<1>27. ASSUME NEW d \in Daemons, DeploymentReady(d) PROVE ApartInv'
  BY <1>27 DEF DeploymentReady, Deployment
<1>28. ASSUME NEW d \in Daemons, DeploymentUnready(d) PROVE ApartInv'
  BY <1>28 DEF DeploymentUnready, Deployment
<1>29. ASSUME NEW d \in Daemons, DeploymentGone(d) PROVE ApartInv'
  BY <1>29 DEF DeploymentGone, Deployment
<1>30. CASE UNCHANGED vars
  BY <1>30 DEF vars
<1>31. ASSUME NEW c \in Claims, RollbackFails(c) PROVE ApartInv'
  BY <1>31 DEF RollbackFails
<1>32. CASE CreateSpecFails
  BY <1>32 DEF CreateSpecFails
<1> QED
  BY <1>1, <1>2, <1>3, <1>4, <1>5, <1>6, <1>7, <1>8, <1>9, <1>10, <1>11,
     <1>12, <1>13, <1>14, <1>15, <1>16, <1>17, <1>18, <1>19, <1>20, <1>21,
     <1>22, <1>23, <1>24, <1>25, <1>26, <1>27, <1>28, <1>29, <1>30, <1>31, <1>32 DEF Next,
     OpStep, Smi, Start, Stop, Unprepare, KubeletStep

\* The GPUs nvidia-smi is about to be called for are of no prepared claim but
\* the one at work.
LEMMA OwnGpus ==
    ASSUME Admin = {}, SharingTypeOK, OperationInv, EntryInv, ApartInv,
           op.pc \in {"mode", "slice"}
    PROVE  \A c \in Claims : Settled(c) => \A h \in Groups(alloc[c]) : h.devs \cap op.left = {}
<1> SUFFICES ASSUME NEW c \in Claims, Settled(c), NEW h \in Groups(alloc[c])
             PROVE  h.devs \cap op.left = {}
  OBVIOUS
<1>1. /\ op.claim \in Claims /\ op.claim # c
      /\ (op.do = "prepare" \/ cp[op.claim] = "completed")
      /\ cp[c] = "completed"
  BY DEF SharingTypeOK, OperationInv, EntryInv, Settled, NoOp
<1>2. PICK g \in Groups(alloc[op.claim]) : op.left \subseteq g.devs
  BY DEF SharingTypeOK, OperationInv, NoOp
<1>3. AllocatedDevs(alloc[op.claim]) \cap AllocatedDevs(alloc[c]) = {}
  BY <1>1 DEF ApartInv, NonAdminDevs
<1>4. g.devs \subseteq AllocatedDevs(alloc[op.claim]) /\ h.devs \subseteq AllocatedDevs(alloc[c])
  BY <1>1, SettledGroups
<1> QED
  BY <1>2, <1>3, <1>4

\* nvidia-smi is called for GPUs no other prepared claim has.
LEMMA SettledSlicedStep ==
    Admin = {} /\ SharingTypeOK /\ OperationInv /\ EntryInv /\ ApartInv /\ SettledSliced /\ PassedSliced /\ [Next]_vars => SettledSliced'
<1> SUFFICES ASSUME Admin = {} /\ SharingTypeOK /\ OperationInv /\ EntryInv /\ ApartInv /\ SettledSliced /\ PassedSliced, [Next]_vars
    PROVE SettledSliced'
  OBVIOUS
<1> USE SharingAssumption, AllGroupsFacts, SettledGroups DEF SharingTypeOK,
    EntryInv, SettledSliced, Settled, Sliced, OperationInv, Starts, Stops,
    SetsExclusive, NoOp, gpus, daemons
<1>1. ASSUME NEW c \in Claims, PrepareCached(c) PROVE SettledSliced'
  BY <1>1 DEF PrepareCached
<1>2. ASSUME NEW c \in Claims, PrepareBegin(c) PROVE SettledSliced'
  BY <1>2 DEF PrepareBegin
<1>3. ASSUME NEW c \in Claims, UnprepareNoop(c) PROVE SettledSliced'
  BY <1>3 DEF UnprepareNoop
<1>4. ASSUME NEW c \in Claims, UnprepareBegin(c) PROVE SettledSliced'
  BY <1>4 DEF UnprepareBegin
<1>5. ASSUME NEW c \in Claims, PodNeeds(c) PROVE SettledSliced'
  BY <1>5 DEF PodNeeds, Kubelet
<1>6. ASSUME NEW c \in Claims, PodGivesUp(c) PROVE SettledSliced'
  BY <1>6 DEF PodGivesUp, Kubelet
<1>7. ASSUME NEW c \in Claims, PodEnds(c) PROVE SettledSliced'
  BY <1>7 DEF PodEnds, Kubelet
<1>8. ASSUME NEW g \in op.todo, ApplyConfig(g) PROVE SettledSliced'
  BY <1>8 DEF ApplyConfig, FirstStep
<1>9. ASSUME NEW g \in op.todo, UnprepareGroup(g) PROVE SettledSliced'
  BY <1>9 DEF UnprepareGroup
<1>10. ASSUME NEW g \in Gpus, SetComputeMode(g) PROVE SettledSliced'
  <2>1. /\ alloc' = alloc /\ cp' = cp /\ kub' = kub
        /\ \A d \in Gpus \ op.left : mode'[d] = mode[d] /\ slice'[d] = slice[d]
    BY <1>10 DEF SetComputeMode
  <2>2. \A c \in Claims : Settled(c) => \A h \in Groups(alloc[c]) : h.devs \cap op.left = {}
    BY <1>10, OwnGpus DEF SetComputeMode
  <2>3. \A c \in Claims : Settled(c)' = Settled(c)
    BY <2>1
  <2> HIDE DEF OperationInv, EntryInv, Settled
  <2> QED
    BY <2>1, <2>2, <2>3
<1>11. ASSUME NEW g \in Gpus, SetTimeSlice(g) PROVE SettledSliced'
  <2>1. /\ alloc' = alloc /\ cp' = cp /\ kub' = kub
        /\ \A d \in Gpus \ op.left : mode'[d] = mode[d] /\ slice'[d] = slice[d]
    BY <1>11 DEF SetTimeSlice
  <2>2. \A c \in Claims : Settled(c) => \A h \in Groups(alloc[c]) : h.devs \cap op.left = {}
    BY <1>11, OwnGpus DEF SetTimeSlice
  <2>3. \A c \in Claims : Settled(c)' = Settled(c)
    BY <2>1
  <2> HIDE DEF OperationInv, EntryInv, Settled
  <2> QED
    BY <2>1, <2>2, <2>3
<1>12. CASE ComputeModeDone
  BY <1>12 DEF ComputeModeDone, Goto
<1>13. CASE TimeSliceDone
  BY <1>13 DEF TimeSliceDone, Goto
<1>14. CASE StartCheck
  BY <1>14 DEF StartCheck, Goto
<1>15. CASE MakeDirs
  BY <1>15 DEF MakeDirs, Goto
<1>16. CASE MountShm
  BY <1>16 DEF MountShm, Goto
<1>17. CASE CreateDeployment
  BY <1>17 DEF CreateDeployment, Goto
<1>18. CASE AssertReady
  BY <1>18 DEF AssertReady, Goto
<1>19. CASE AssertReadyTimeout
  BY <1>19 DEF AssertReadyTimeout
<1>20. CASE StopStat
  BY <1>20 DEF StopStat, Goto, AfterStop
<1>21. CASE StopDelete
  BY <1>21 DEF StopDelete, Goto
<1>22. CASE StopUnmount
  BY <1>22 DEF StopUnmount, Goto
<1>23. CASE StopRemoveAll
  BY <1>23 DEF StopRemoveAll, Goto, AfterStop
<1>24. CASE PrepareComplete
  BY <1>24 DEF PrepareComplete, PassedSliced, Passed
<1>25. CASE UnprepareForget
  BY <1>25 DEF UnprepareForget
<1>26. CASE StepFails
  BY <1>26 DEF StepFails
<1>27. ASSUME NEW d \in Daemons, DeploymentReady(d) PROVE SettledSliced'
  BY <1>27 DEF DeploymentReady, Deployment
<1>28. ASSUME NEW d \in Daemons, DeploymentUnready(d) PROVE SettledSliced'
  BY <1>28 DEF DeploymentUnready, Deployment
<1>29. ASSUME NEW d \in Daemons, DeploymentGone(d) PROVE SettledSliced'
  BY <1>29 DEF DeploymentGone, Deployment
<1>30. CASE UNCHANGED vars
  BY <1>30 DEF vars
<1>31. ASSUME NEW c \in Claims, RollbackFails(c) PROVE SettledSliced'
  BY <1>31 DEF RollbackFails
<1>32. CASE CreateSpecFails
  BY <1>32 DEF CreateSpecFails
<1> QED
  BY <1>1, <1>2, <1>3, <1>4, <1>5, <1>6, <1>7, <1>8, <1>9, <1>10, <1>11,
     <1>12, <1>13, <1>14, <1>15, <1>16, <1>17, <1>18, <1>19, <1>20, <1>21,
     <1>22, <1>23, <1>24, <1>25, <1>26, <1>27, <1>28, <1>29, <1>30, <1>31, <1>32 DEF Next,
     OpStep, Smi, Start, Stop, Unprepare, KubeletStep

\* A group is known by its devices: the one Prepare is at has the sharing it
\* applies, and no device of those it is through with.
LEMMA GroupAtHand ==
    ASSUME SharingTypeOK, OperationInv, EntryInv, op.do = "prepare", op.pc # "pick"
    PROVE  /\ \A g \in Groups(alloc[op.claim]) : g.devs = op.devs => g.config.sharing = op.want
           /\ \A g \in Passed : g.devs \cap op.left = {}
<1>1. op.claim \in Claims
  BY DEF OperationInv
<1>2. PICK h \in Groups(alloc[op.claim]) :
          op.devs = h.devs /\ op.left \subseteq h.devs /\ op.want = h.config.sharing
  BY DEF OperationInv
<1>3. \A g \in Groups(alloc[op.claim]) : g # h => g.devs \cap h.devs = {} /\ g.devs # h.devs
  BY <1>1, PreparedGroups
<1>4. \A g \in Groups(alloc[op.claim]) : g.devs = op.devs => g.config.sharing = op.want
  BY <1>2, <1>3
<1>5. \A g \in Passed : g \in Groups(alloc[op.claim]) /\ g # h
  BY <1>2 DEF Passed
<1> QED
  BY <1>2, <1>3, <1>4, <1>5

\* AssertReady passes a daemon that is there to stay.
LEMMA PassedBackedStep ==
    SharingTypeOK /\ OperationInv /\ EntryInv /\ DaemonInv /\ OpenInv /\ PassedBacked /\ [Next]_vars => PassedBacked'
<1> SUFFICES ASSUME SharingTypeOK /\ OperationInv /\ EntryInv /\ DaemonInv /\ OpenInv /\ PassedBacked, [Next]_vars
    PROVE PassedBacked'
  OBVIOUS
<1> USE SharingAssumption, AllGroupsFacts, DaemonFacts, SettledGroups DEF
    SharingTypeOK, D, PassedBacked, Passed, Backed, OperationInv, Starts,
    Stops, SetsExclusive, NoOp, gpus, daemons
<1>1. ASSUME NEW c \in Claims, PrepareCached(c) PROVE PassedBacked'
  BY <1>1 DEF PrepareCached
<1>2. ASSUME NEW c \in Claims, PrepareBegin(c) PROVE PassedBacked'
  BY <1>2 DEF PrepareBegin
<1>3. ASSUME NEW c \in Claims, UnprepareNoop(c) PROVE PassedBacked'
  BY <1>3 DEF UnprepareNoop
<1>4. ASSUME NEW c \in Claims, UnprepareBegin(c) PROVE PassedBacked'
  BY <1>4 DEF UnprepareBegin
<1>5. ASSUME NEW c \in Claims, PodNeeds(c) PROVE PassedBacked'
  BY <1>5 DEF PodNeeds, Kubelet
<1>6. ASSUME NEW c \in Claims, PodGivesUp(c) PROVE PassedBacked'
  BY <1>6 DEF PodGivesUp, Kubelet
<1>7. ASSUME NEW c \in Claims, PodEnds(c) PROVE PassedBacked'
  BY <1>7 DEF PodEnds, Kubelet
<1>8. ASSUME NEW g \in op.todo, ApplyConfig(g) PROVE PassedBacked'
  <2>1. CASE op'.do = "prepare"
    <3>1. /\ op.do = "prepare" /\ op.pc = "pick" /\ alloc' = alloc /\ deploy' = deploy
          /\ op' = [op EXCEPT !.pc = FirstStep(g.config.sharing), !.todo = @ \ {g},
                              !.devs = g.devs, !.want = g.config.sharing,
                              !.left = g.devs \cap Gpus]
      BY <1>8, <2>1 DEF ApplyConfig
    <3>2. op'.claim = op.claim /\ op'.pc = FirstStep(g.config.sharing) /\ op'.devs = g.devs
          /\ op'.todo = op.todo \ {g}
      BY <3>1
    <3>3. ASSUME NEW h \in Passed' PROVE h \in Passed \/ h.config.sharing # "mps"
      <4>1. h \in Groups(alloc[op.claim]) \ op.todo \/ h = g
        BY <3>1, <3>2
      <4>2. h = g => g.config.sharing # "mps"
        BY <3>2, <3>3 DEF FirstStep
      <4> QED
        BY <3>1, <4>1, <4>2
    <3>4. \A h \in Passed : Backed(op.claim, h)
      BY <3>1
    <3> HIDE DEF Passed
    <3> QED
      BY <3>1, <3>2, <3>3, <3>4
  <2>2. CASE op'.do # "prepare"
    BY <2>2
  <2> QED
    BY <2>1, <2>2
<1>9. ASSUME NEW g \in op.todo, UnprepareGroup(g) PROVE PassedBacked'
  BY <1>9 DEF UnprepareGroup
<1>10. ASSUME NEW g \in Gpus, SetComputeMode(g) PROVE PassedBacked'
  BY <1>10 DEF SetComputeMode
<1>11. ASSUME NEW g \in Gpus, SetTimeSlice(g) PROVE PassedBacked'
  BY <1>11 DEF SetTimeSlice
<1>12. CASE ComputeModeDone
  BY <1>12 DEF ComputeModeDone, Goto
<1>13. CASE TimeSliceDone
  <2>1. CASE op'.do = "prepare"
    <3>1. /\ op.do = "prepare" /\ op.claim \in Claims /\ alloc' = alloc
          /\ op' = [op EXCEPT !.pc = "pick"] /\ op.pc # "pick"
      BY <1>13, <2>1 DEF TimeSliceDone, Goto
    <3>2. \A g \in Groups(alloc[op.claim]) : g.devs = op.devs => g.config.sharing = op.want
      BY <3>1, GroupAtHand
    <3>3. Passed' \subseteq {g \in Groups(alloc[op.claim]) :
                             g \in Passed \/ g.config.sharing = op.want}
      BY <3>1, <3>2
    <3>4. \A g \in Passed' : g \in Passed \/ (g.devs = op.devs /\ g.config.sharing = op.want)
      BY <3>1, <3>2
    <3> QED
      BY SMTT(30), <1>13, <3>1, <3>3, <3>4 DEF TimeSliceDone, Goto
  <2>2. CASE op'.do # "prepare"
    BY <2>2
  <2> QED
    BY <2>1, <2>2
<1>14. CASE StartCheck
  BY <1>14 DEF StartCheck, Goto
<1>15. CASE MakeDirs
  BY <1>15 DEF MakeDirs, Goto
<1>16. CASE MountShm
  BY <1>16 DEF MountShm, Goto
<1>17. CASE CreateDeployment
  BY SMTT(30), <1>17 DEF CreateDeployment, Goto
<1>18. CASE AssertReady
  BY SMTT(30), <1>18 DEF AssertReady, Goto, OpenInv
<1>19. CASE AssertReadyTimeout
  BY <1>19 DEF AssertReadyTimeout
<1>20. CASE StopStat
  BY <1>20 DEF StopStat, Goto, AfterStop
<1>21. CASE StopDelete
  BY <1>21 DEF StopDelete, Goto
<1>22. CASE StopUnmount
  BY <1>22 DEF StopUnmount, Goto
<1>23. CASE StopRemoveAll
  BY <1>23 DEF StopRemoveAll, Goto, AfterStop
<1>24. CASE PrepareComplete
  BY <1>24 DEF PrepareComplete
<1>25. CASE UnprepareForget
  BY <1>25 DEF UnprepareForget
<1>26. CASE StepFails
  BY <1>26 DEF StepFails
<1>27. ASSUME NEW d \in Daemons, DeploymentReady(d) PROVE PassedBacked'
  <2>1. /\ alloc' = alloc /\ op' = op /\ Passed' = Passed
        /\ \A x \in Daemons :
              deploy[x] \in {"starting", "ready"} => deploy'[x] \in {"starting", "ready"}
    BY <1>27 DEF DeploymentReady, Deployment
  <2>2. op.do = "prepare" => \A g \in Passed : <<op.claim, g.devs>> \in Daemons
    BY SettledGroups
  <2> HIDE DEF Passed
  <2> QED
    BY <2>1, <2>2
<1>28. ASSUME NEW d \in Daemons, DeploymentUnready(d) PROVE PassedBacked'
  <2>1. /\ alloc' = alloc /\ op' = op /\ Passed' = Passed
        /\ \A x \in Daemons :
              deploy[x] \in {"starting", "ready"} => deploy'[x] \in {"starting", "ready"}
    BY <1>28 DEF DeploymentUnready, Deployment
  <2>2. op.do = "prepare" => \A g \in Passed : <<op.claim, g.devs>> \in Daemons
    BY SettledGroups
  <2> HIDE DEF Passed
  <2> QED
    BY <2>1, <2>2
<1>29. ASSUME NEW d \in Daemons, DeploymentGone(d) PROVE PassedBacked'
  <2>1. /\ alloc' = alloc /\ op' = op /\ Passed' = Passed
        /\ \A x \in Daemons :
              deploy[x] \in {"starting", "ready"} => deploy'[x] = deploy[x]
    BY <1>29 DEF DeploymentGone, Deployment
  <2>2. op.do = "prepare" => \A g \in Passed : <<op.claim, g.devs>> \in Daemons
    BY SettledGroups
  <2> HIDE DEF Passed
  <2> QED
    BY <2>1, <2>2
<1>30. CASE UNCHANGED vars
  BY <1>30 DEF vars
<1>31. ASSUME NEW c \in Claims, RollbackFails(c) PROVE PassedBacked'
  BY <1>31 DEF RollbackFails
<1>32. CASE CreateSpecFails
  BY <1>32 DEF CreateSpecFails
<1> QED
  BY <1>1, <1>2, <1>3, <1>4, <1>5, <1>6, <1>7, <1>8, <1>9, <1>10, <1>11,
     <1>12, <1>13, <1>14, <1>15, <1>16, <1>17, <1>18, <1>19, <1>20, <1>21,
     <1>22, <1>23, <1>24, <1>25, <1>26, <1>27, <1>28, <1>29, <1>30, <1>31, <1>32 DEF Next,
     OpStep, Smi, Start, Stop, Unprepare, KubeletStep

\* The GPUs of a group are of no group Prepare is through with.
LEMMA PassedSlicedStep ==
    SharingTypeOK /\ OperationInv /\ EntryInv /\ ProgressInv /\ PassedSliced /\ TimeSlicingSettings /\ [Next]_vars => PassedSliced'
<1> SUFFICES ASSUME SharingTypeOK /\ OperationInv /\ EntryInv /\ ProgressInv /\ PassedSliced /\ TimeSlicingSettings, [Next]_vars
    PROVE PassedSliced'
  OBVIOUS
<1> USE SharingAssumption, AllGroupsFacts, SettledGroups DEF SharingTypeOK,
    PassedSliced, Passed, Sliced, OperationInv, Starts, Stops,
    SetsExclusive, NoOp, gpus, daemons
<1>1. ASSUME NEW c \in Claims, PrepareCached(c) PROVE PassedSliced'
  BY <1>1 DEF PrepareCached
<1>2. ASSUME NEW c \in Claims, PrepareBegin(c) PROVE PassedSliced'
  BY <1>2 DEF PrepareBegin
<1>3. ASSUME NEW c \in Claims, UnprepareNoop(c) PROVE PassedSliced'
  BY <1>3 DEF UnprepareNoop
<1>4. ASSUME NEW c \in Claims, UnprepareBegin(c) PROVE PassedSliced'
  BY <1>4 DEF UnprepareBegin
<1>5. ASSUME NEW c \in Claims, PodNeeds(c) PROVE PassedSliced'
  BY <1>5 DEF PodNeeds, Kubelet
<1>6. ASSUME NEW c \in Claims, PodGivesUp(c) PROVE PassedSliced'
  BY <1>6 DEF PodGivesUp, Kubelet
<1>7. ASSUME NEW c \in Claims, PodEnds(c) PROVE PassedSliced'
  BY <1>7 DEF PodEnds, Kubelet
<1>8. ASSUME NEW g \in op.todo, ApplyConfig(g) PROVE PassedSliced'
  BY <1>8 DEF ApplyConfig, FirstStep
<1>9. ASSUME NEW g \in op.todo, UnprepareGroup(g) PROVE PassedSliced'
  BY <1>9 DEF UnprepareGroup
<1>10. ASSUME NEW g \in Gpus, SetComputeMode(g) PROVE PassedSliced'
  <2>1. /\ alloc' = alloc /\ op'.do = op.do /\ op'.claim = op.claim /\ Passed' = Passed
        /\ \A d \in Gpus \ op.left : mode'[d] = mode[d] /\ slice'[d] = slice[d]
        /\ op.pc \in {"mode", "slice"}
    BY <1>10 DEF SetComputeMode
  <2>2. op.do = "prepare" => \A h \in Passed : h.devs \cap op.left = {}
    BY <2>1, GroupAtHand
  <2> HIDE DEF Passed
  <2> QED
    BY <2>1, <2>2
<1>11. ASSUME NEW g \in Gpus, SetTimeSlice(g) PROVE PassedSliced'
  <2>1. /\ alloc' = alloc /\ op'.do = op.do /\ op'.claim = op.claim /\ Passed' = Passed
        /\ \A d \in Gpus \ op.left : mode'[d] = mode[d] /\ slice'[d] = slice[d]
        /\ op.pc \in {"mode", "slice"}
    BY <1>11 DEF SetTimeSlice
  <2>2. op.do = "prepare" => \A h \in Passed : h.devs \cap op.left = {}
    BY <2>1, GroupAtHand
  <2> HIDE DEF Passed
  <2> QED
    BY <2>1, <2>2
<1>12. CASE ComputeModeDone
  BY <1>12 DEF ComputeModeDone, Goto
<1>13. CASE TimeSliceDone
  <2>1. CASE op'.do = "prepare"
    <3>1. /\ op.do = "prepare" /\ op.claim \in Claims /\ alloc' = alloc
          /\ op' = [op EXCEPT !.pc = "pick"] /\ op.pc # "pick"
      BY <1>13, <2>1 DEF TimeSliceDone, Goto
    <3>2. \A g \in Groups(alloc[op.claim]) : g.devs = op.devs => g.config.sharing = op.want
      BY <3>1, GroupAtHand
    <3>3. Passed' \subseteq {g \in Groups(alloc[op.claim]) :
                             g \in Passed \/ g.config.sharing = op.want}
      BY <3>1, <3>2
    <3>4. \A g \in Passed' : g \in Passed \/ (g.devs = op.devs /\ g.config.sharing = op.want)
      BY <3>1, <3>2
    <3> QED
      BY <1>13, <3>1, <3>3, <3>4 DEF TimeSliceDone, Goto, ProgressInv
  <2>2. CASE op'.do # "prepare"
    BY <2>2
  <2> QED
    BY <2>1, <2>2
<1>14. CASE StartCheck
  BY <1>14 DEF StartCheck, Goto
<1>15. CASE MakeDirs
  BY <1>15 DEF MakeDirs, Goto
<1>16. CASE MountShm
  BY <1>16 DEF MountShm, Goto
<1>17. CASE CreateDeployment
  BY <1>17 DEF CreateDeployment, Goto
<1>18. CASE AssertReady
  <2>1. CASE op'.do = "prepare"
    <3>1. /\ op.do = "prepare" /\ op.claim \in Claims /\ alloc' = alloc
          /\ op' = [op EXCEPT !.pc = "pick"] /\ op.pc # "pick"
      BY <1>18, <2>1 DEF AssertReady, Goto
    <3>2. \A g \in Groups(alloc[op.claim]) : g.devs = op.devs => g.config.sharing = op.want
      BY <3>1, GroupAtHand
    <3>3. Passed' \subseteq {g \in Groups(alloc[op.claim]) :
                             g \in Passed \/ g.config.sharing = op.want}
      BY <3>1, <3>2
    <3>4. \A g \in Passed' : g \in Passed \/ (g.devs = op.devs /\ g.config.sharing = op.want)
      BY <3>1, <3>2
    <3> QED
      BY <1>18, <3>1, <3>3, <3>4 DEF AssertReady, Goto
  <2>2. CASE op'.do # "prepare"
    BY <2>2
  <2> QED
    BY <2>1, <2>2
<1>19. CASE AssertReadyTimeout
  BY <1>19 DEF AssertReadyTimeout
<1>20. CASE StopStat
  BY <1>20 DEF StopStat, Goto, AfterStop
<1>21. CASE StopDelete
  BY <1>21 DEF StopDelete, Goto
<1>22. CASE StopUnmount
  BY <1>22 DEF StopUnmount, Goto
<1>23. CASE StopRemoveAll
  BY <1>23 DEF StopRemoveAll, Goto, AfterStop
<1>24. CASE PrepareComplete
  BY <1>24 DEF PrepareComplete
<1>25. CASE UnprepareForget
  BY <1>25 DEF UnprepareForget
<1>26. CASE StepFails
  BY <1>26 DEF StepFails
<1>27. ASSUME NEW d \in Daemons, DeploymentReady(d) PROVE PassedSliced'
  BY <1>27 DEF DeploymentReady, Deployment
<1>28. ASSUME NEW d \in Daemons, DeploymentUnready(d) PROVE PassedSliced'
  BY <1>28 DEF DeploymentUnready, Deployment
<1>29. ASSUME NEW d \in Daemons, DeploymentGone(d) PROVE PassedSliced'
  BY <1>29 DEF DeploymentGone, Deployment
<1>30. CASE UNCHANGED vars
  BY <1>30 DEF vars
<1>31. ASSUME NEW c \in Claims, RollbackFails(c) PROVE PassedSliced'
  BY <1>31 DEF RollbackFails
<1>32. CASE CreateSpecFails
  BY <1>32 DEF CreateSpecFails
<1> QED
  BY <1>1, <1>2, <1>3, <1>4, <1>5, <1>6, <1>7, <1>8, <1>9, <1>10, <1>11,
     <1>12, <1>13, <1>14, <1>15, <1>16, <1>17, <1>18, <1>19, <1>20, <1>21,
     <1>22, <1>23, <1>24, <1>25, <1>26, <1>27, <1>28, <1>29, <1>30, <1>31, <1>32 DEF Next,
     OpStep, Smi, Start, Stop, Unprepare, KubeletStep

\* Nothing is prepared, mounted or deployed at first.
LEMMA InitSharing == Init => SharingInv
<1> SUFFICES ASSUME Init PROVE SharingInv
  OBVIOUS
<1> USE SharingAssumption DEF Init, NoOp
<1>1. SharingTypeOK
  BY DEF SharingTypeOK
<1>2. OperationInv /\ EntryInv
  BY DEF OperationInv, EntryInv, Starts, Stops, SetsExclusive
<1>3. DaemonInv
  BY DEF DaemonInv, SetsExclusive
<1>4. ProgressInv /\ CleanInv /\ ApartInv
  BY DEF ProgressInv, CleanInv, ApartInv, Stops, SetsExclusive
<1>5. BackedInv
  BY DaemonFacts DEF BackedInv, OpenInv, SettledBacked, PassedBacked, Settled
<1>6. SlicedInv
  BY DEF SlicedInv, SettledSliced, PassedSliced, Settled
<1>7. MigInv
  BY DEF MigInv
<1> QED
  BY <1>1, <1>2, <1>3, <1>4, <1>5, <1>6, <1>7 DEF SharingInv, CoreInv

\* Every step preserves the inductive invariant, part by part.
LEMMA CoreStep == CoreInv /\ [Next]_vars => CoreInv'
  BY OperationStep, EntryStep, DaemonStep, TypeStep, ProgressStep, CleanStep,
     ApartStep, MigStep DEF CoreInv

\* The daemons' part, without prompt reuse.
LEMMA BackedInvStep == ~PromptReuse /\ CoreInv /\ BackedInv /\ [Next]_vars => BackedInv'
  BY OpenStep, SettledBackedStep, PassedBackedStep DEF CoreInv, BackedInv

\* The time slices' part, with the gate on and without admin access.
LEMMA SlicedInvStep ==
    TimeSlicingSettings /\ Admin = {} /\ CoreInv /\ SlicedInv /\ [Next]_vars => SlicedInv'
  BY SettledSlicedStep, PassedSlicedStep DEF CoreInv, SlicedInv

\* The part that holds for all constants, always.
LEMMA CoreAlways == Spec => []CoreInv
<1>1. Init => CoreInv
  BY InitSharing DEF SharingInv
<1> QED
  BY <1>1, CoreStep, PTL DEF Spec

-----------------------------------------------------------------------------
(* The theorems.                                                            *)

(***************************************************************************)
(* The variables keep their types, whatever fails and with any allocation: *)
(* in particular a tmpfs is mounted on a shmDir at most once more than     *)
(* steps have failed.                                                      *)
(***************************************************************************)
THEOREM SharingTypeCorrect == Spec => []SharingTypeOK
<1>1. CoreInv => SharingTypeOK
  BY DEF CoreInv
<1> QED
  BY <1>1, CoreAlways, PTL

\* The step ReleaseIsClean allows.
ReleasesClean ==
    \A c \in Claims : cp[c] = "completed" /\ cp'[c] = "absent" =>
        \A g \in Groups(alloc[c]) :
            /\ deploy[<<c, g.devs>>] \in {"none", "closing"}
            /\ ~root[<<c, g.devs>>] /\ mounts[<<c, g.devs>>] = 0
            /\ TimeSlicingSettings => \A d \in g.devs \cap Gpus :
                  mode[d] = "DEFAULT" /\ slice[d] = "Default"

\* Only UnprepareForget drops an entry, and with no group left to undo.
LEMMA ReleasesCleanStep == CoreInv /\ [Next]_vars => ReleasesClean
<1> SUFFICES ASSUME CoreInv, [Next]_vars PROVE ReleasesClean
  OBVIOUS
<1> USE SharingAssumption, AllGroupsFacts DEF SharingTypeOK, CoreInv,
    EntryInv, ReleasesClean, OperationInv, Starts, Stops, SetsExclusive,
    NoOp, gpus, daemons
<1>1. ASSUME NEW c \in Claims, PrepareCached(c) PROVE ReleasesClean
  BY <1>1 DEF PrepareCached
<1>2. ASSUME NEW c \in Claims, PrepareBegin(c) PROVE ReleasesClean
  BY <1>2 DEF PrepareBegin
<1>3. ASSUME NEW c \in Claims, UnprepareNoop(c) PROVE ReleasesClean
  BY <1>3 DEF UnprepareNoop
<1>4. ASSUME NEW c \in Claims, UnprepareBegin(c) PROVE ReleasesClean
  BY <1>4 DEF UnprepareBegin
<1>5. ASSUME NEW c \in Claims, PodNeeds(c) PROVE ReleasesClean
  BY <1>5 DEF PodNeeds, Kubelet
<1>6. ASSUME NEW c \in Claims, PodGivesUp(c) PROVE ReleasesClean
  BY <1>6 DEF PodGivesUp, Kubelet
<1>7. ASSUME NEW c \in Claims, PodEnds(c) PROVE ReleasesClean
  BY <1>7 DEF PodEnds, Kubelet
<1>8. ASSUME NEW g \in op.todo, ApplyConfig(g) PROVE ReleasesClean
  BY <1>8 DEF ApplyConfig, FirstStep
<1>9. ASSUME NEW g \in op.todo, UnprepareGroup(g) PROVE ReleasesClean
  BY <1>9 DEF UnprepareGroup
<1>10. ASSUME NEW g \in Gpus, SetComputeMode(g) PROVE ReleasesClean
  BY <1>10 DEF SetComputeMode
<1>11. ASSUME NEW g \in Gpus, SetTimeSlice(g) PROVE ReleasesClean
  BY <1>11 DEF SetTimeSlice
<1>12. CASE ComputeModeDone
  BY <1>12 DEF ComputeModeDone, Goto
<1>13. CASE TimeSliceDone
  BY <1>13 DEF TimeSliceDone, Goto
<1>14. CASE StartCheck
  BY <1>14 DEF StartCheck, Goto
<1>15. CASE MakeDirs
  BY <1>15 DEF MakeDirs, Goto
<1>16. CASE MountShm
  BY <1>16 DEF MountShm, Goto
<1>17. CASE CreateDeployment
  BY <1>17 DEF CreateDeployment, Goto
<1>18. CASE AssertReady
  BY <1>18 DEF AssertReady, Goto
<1>19. CASE AssertReadyTimeout
  BY <1>19 DEF AssertReadyTimeout
<1>20. CASE StopStat
  BY <1>20 DEF StopStat, Goto, AfterStop
<1>21. CASE StopDelete
  BY <1>21 DEF StopDelete, Goto
<1>22. CASE StopUnmount
  BY <1>22 DEF StopUnmount, Goto
<1>23. CASE StopRemoveAll
  BY <1>23 DEF StopRemoveAll, Goto, AfterStop
<1>24. CASE PrepareComplete
  BY <1>24 DEF PrepareComplete
<1>25. CASE UnprepareForget
  <2>1. /\ op.do = "unprepare" /\ op.claim \in Claims
        /\ \A c \in Claims : cp'[c] # cp[c] => c = op.claim
        /\ Passed = Groups(alloc[op.claim])
    BY <1>25 DEF UnprepareForget, Passed
  <2>2. CASE cp[op.claim] = "completed"
    <3>1. \A g \in Groups(alloc[op.claim]) :
              Clean(op.claim, g) /\ <<op.claim, g.devs>> \in Daemons
      BY <2>1, <2>2, SettledGroups, DaemonFacts DEF CleanInv
    <3>2. \A d \in Daemons : ~root[d] => mounts[d] = 0
      BY DEF DaemonInv
    <3> HIDE DEF Passed, Daemons, OperationInv, EntryInv
    <3> QED
      BY <2>1, <3>1, <3>2 DEF Clean
  <2>3. CASE cp[op.claim] # "completed"
    BY <2>1, <2>3
  <2> QED
    BY <2>2, <2>3
<1>26. CASE StepFails
  BY <1>26 DEF StepFails
<1>27. ASSUME NEW d \in Daemons, DeploymentReady(d) PROVE ReleasesClean
  BY <1>27 DEF DeploymentReady, Deployment
<1>28. ASSUME NEW d \in Daemons, DeploymentUnready(d) PROVE ReleasesClean
  BY <1>28 DEF DeploymentUnready, Deployment
<1>29. ASSUME NEW d \in Daemons, DeploymentGone(d) PROVE ReleasesClean
  BY <1>29 DEF DeploymentGone, Deployment
<1>30. CASE UNCHANGED vars
  BY <1>30 DEF vars
<1>31. ASSUME NEW c \in Claims, RollbackFails(c) PROVE ReleasesClean
  BY <1>31 DEF RollbackFails
<1>32. CASE CreateSpecFails
  BY <1>32 DEF CreateSpecFails
<1> QED
  BY <1>1, <1>2, <1>3, <1>4, <1>5, <1>6, <1>7, <1>8, <1>9, <1>10, <1>11,
     <1>12, <1>13, <1>14, <1>15, <1>16, <1>17, <1>18, <1>19, <1>20, <1>21,
     <1>22, <1>23, <1>24, <1>25, <1>26, <1>27, <1>28, <1>29, <1>30, <1>31, <1>32 DEF Next,
     OpStep, Smi, Start, Stop, Unprepare, KubeletStep

(***************************************************************************)
(* Unprepare forgets a completed claim only when its daemons are stopped,  *)
(* unmounted and removed and, with TimeSlicingSettings, its GPUs are back  *)
(* at the defaults, however many attempts it takes, with or without admin  *)
(* access and prompt reuse.                                                *)
(***************************************************************************)
THEOREM ReleasesAreClean == Spec => ReleaseIsClean
<1>1. CoreInv /\ [Next]_vars => [ReleasesClean]_vars
  BY ReleasesCleanStep
<1>2. [][ReleasesClean]_vars => ReleaseIsClean
  BY PTL DEF ReleasesClean, ReleaseIsClean
<1> QED
  BY <1>1, <1>2, CoreAlways, PTL DEF Spec

(***************************************************************************)
(* The rollback of a claim, which may destroy static MIG devices, takes    *)
(* none from a claim in use, with or without the health monitor.           *)
(***************************************************************************)
THEOREM MigDevicesInUseExist == Spec => []RunningMigsExist
<1>1. CoreInv => RunningMigsExist
  BY DEF CoreInv, EntryInv, MigInv, RunningMigsExist
<1> QED
  BY <1>1, CoreAlways, PTL

(***************************************************************************)
(* A claim in use that shares by MPS has the Deployment, directories and   *)
(* tmpfs of its control daemon, if no claim is used again while the        *)
(* Deployment of its last use is being deleted.                            *)
(***************************************************************************)
THEOREM DaemonsBackClaims == ASSUME ~PromptReuse PROVE Spec => []DaemonBacked
<1>1. Init => BackedInv
  BY InitSharing DEF SharingInv
<1>2. CoreInv /\ BackedInv /\ [Next]_vars => BackedInv'
  BY BackedInvStep
<1>3. CoreInv /\ BackedInv => DaemonBacked
  <2> SUFFICES ASSUME CoreInv, BackedInv, NEW c \in Claims, kub[c] = "running",
                      NEW g \in Groups(alloc[c]), g.config.sharing = "mps"
               PROVE  LET d == <<c, g.devs>>
                      IN  deploy[d] \in {"starting", "ready"} /\ root[d] /\ mounts[d] > 0
    BY DEF DaemonBacked
  <2>1. cp[c] = "completed"
    BY DEF CoreInv, EntryInv
  <2>2. <<c, g.devs>> \in Daemons
    BY <2>1, SettledGroups, DaemonFacts DEF CoreInv
  <2>3. deploy[<<c, g.devs>>] \in {"starting", "ready"}
    BY <2>1 DEF BackedInv, SettledBacked, Settled, Backed
  <2> QED
    BY <2>2, <2>3 DEF CoreInv, DaemonInv
<1> QED
  BY <1>1, <1>2, <1>3, CoreAlways, PTL DEF Spec

\* Every claim gets the groups the documented precedence demands, or is refused.
THEOREM PrecedenceHolds == Spec => []GroupsFollowPrecedence
<1>1. SharingTypeOK => GroupsFollowPrecedence
  <2> SUFFICES ASSUME SharingTypeOK, NEW c \in Claims PROVE FollowsPrecedence(alloc[c])
    BY DEF GroupsFollowPrecedence
  <2>1. IsAllocation(alloc[c])
    BY InputsAssumption DEF SharingTypeOK
  <2> QED
    BY <2>1, LookupFollowsPrecedence
<1> QED
  BY <1>1, SharingTypeCorrect, PTL

(***************************************************************************)
(* Every GPU in use under a time slicing config has the time slice of the  *)
(* config that governs it, if the gate is on and no claim has admin        *)
(* access: what other claims, failed attempts and MPS daemons do to        *)
(* compute modes and time slices reaches none of its GPUs.                 *)
(***************************************************************************)
THEOREM TimeSlicesHold ==
    ASSUME TimeSlicingSettings, Admin = {}
    PROVE  Spec => []TimeSliceApplied
<1>1. Init => SlicedInv
  BY InitSharing DEF SharingInv
<1>2. CoreInv /\ SlicedInv /\ [Next]_vars => SlicedInv'
  BY SlicedInvStep
<1>3. CoreInv /\ SlicedInv => TimeSliceApplied
  <2> SUFFICES ASSUME CoreInv, SlicedInv, NEW c \in Claims,
                      NEW i \in {"Default", "Long"}, NEW g \in InUse(c, i)
               PROVE  mode[g] = "DEFAULT" /\ slice[g] = i
    BY DEF TimeSliceApplied
  <2>1. PICK r \in OwnResults(alloc[c]) :
            /\ g = r.device /\ kub[c] = "running" /\ g \in Gpus
            /\ GoverningConfig(alloc[c], r).sharing = i
    BY DEF InUse
  <2>2. cp[c] = "completed" /\ alloc \in Inputs /\ ~LookupFails(alloc[c])
    BY <2>1 DEF CoreInv, EntryInv, SharingTypeOK
  <2>3. {h.config : h \in {f \in Groups(alloc[c]) : r.device \in f.devs}}
           = {GoverningConfig(alloc[c], r)}
    <3>1. FollowsPrecedence(alloc[c])
      BY <2>2, InputsAssumption, LookupFollowsPrecedence
    <3> QED
      BY <2>2, <3>1 DEF FollowsPrecedence
  <2>4. PICK h \in Groups(alloc[c]) : r.device \in h.devs /\ h.config = GoverningConfig(alloc[c], r)
    BY <2>3
  <2>5. Sliced(h)
    BY <2>1, <2>2 DEF SlicedInv, SettledSliced, Settled
  <2> QED
    BY <2>1, <2>4, <2>5 DEF Sliced
<1> QED
  BY <1>1, <1>2, <1>3, CoreAlways, PTL DEF Spec

(***************************************************************************)
(* The inductive invariant: what the steps of an operation have done for   *)
(* the groups of its claim, and that the groups of all other prepared      *)
(* claims stay in force.                                                   *)
(***************************************************************************)
THEOREM SharingInductive ==
    ASSUME ~PromptReuse, TimeSlicingSettings, Admin = {}
    PROVE  Spec => []SharingInv
<1>1. SharingInv /\ [Next]_vars => SharingInv'
  BY CoreStep, BackedInvStep, SlicedInvStep DEF SharingInv
<1> QED
  BY <1>1, InitSharing, PTL DEF Spec
-----------------------------------------------------------------------------
(* Sharing implements ClaimService.                                         *)

\* A step leaves everything the abstract specification talks about.
Stutter == ClaimStatus' = ClaimStatus /\ Running' = Running
AbstractStep == Service!Next \/ Stutter

\* What a claim has for itself is among the devices of the allocations.
LEMMA OwnFacts ==
    SharingTypeOK => \A c \in Claims : NonAdminDevs(c) \subseteq Requested
<1> SUFFICES ASSUME SharingTypeOK, NEW c \in Claims PROVE NonAdminDevs(c) \subseteq Requested
  OBVIOUS
<1>1. <<alloc, c>> \in Inputs \X Claims
  BY DEF SharingTypeOK
<1>2. AllocatedDevs(alloc[c]) \subseteq Requested
  BY <1>1 DEF Requested
<1> QED
  BY <1>2 DEF NonAdminDevs

\* A write of an entry is a change of the status of that claim.
LEMMA EntryWritten ==
    ASSUME SharingTypeOK, NEW c \in Claims, NEW e \in {"absent", "started", "completed"},
           cp' = [cp EXCEPT ![c] = e]
    PROVE  ClaimStatus' = [ClaimStatus EXCEPT ![c] = StatusOf[e]]
<1> HIDE DEF StatusOf
<1> QED
  BY DEF SharingTypeOK, ClaimStatus

\* A completed claim answered from the checkpoint is prepared.
LEMMA PrepareCachedRefines ==
    ASSUME CoreInv, NEW c \in Claims, PrepareCached(c) PROVE AbstractStep
<1> USE DEF CoreInv, SharingTypeOK, PrepareCached
<1>1. ClaimStatus[c] = "prepared" /\ ClaimStatus' = ClaimStatus
  BY DEF ClaimStatus, StatusOf
<1>2. Running' = Running \cup {c}
  BY DEF Running
<1>3. Service!Use(c)
  BY <1>1, <1>2 DEF Service!Use, NonAdminDevs
<1> QED
  BY <1>3 DEF AbstractStep, Service!Next

\* Writing PrepareStarted begins the preparation, also of a claim whose configs
\* are then refused.
LEMMA PrepareBeginRefines ==
    ASSUME CoreInv, NEW c \in Claims, PrepareBegin(c) PROVE AbstractStep
<1> USE DEF CoreInv, SharingTypeOK
<1>1. /\ cp[c] # "completed" /\ cp' = [cp EXCEPT ![c] = "started"]
      /\ kub' = kub /\ alloc' = alloc
  BY DEF PrepareBegin
<1>2. ClaimStatus[c] # "prepared"
  BY <1>1 DEF ClaimStatus, StatusOf
<1>3. ClaimStatus' = [ClaimStatus EXCEPT ![c] = "preparing"] /\ Running' = Running
  BY <1>1, EntryWritten DEF StatusOf, Running
<1>4. Service!Begin(c)
  BY <1>1, <1>2, <1>3 DEF Service!Begin, NonAdminDevs
<1> QED
  BY <1>4 DEF AbstractStep, Service!Next

\* Writing PrepareCompleted finishes it, on devices no prepared claim has.
LEMMA PrepareCompleteRefines == CoreInv /\ PrepareComplete => AbstractStep
<1> SUFFICES ASSUME CoreInv, PrepareComplete PROVE AbstractStep
  OBVIOUS
<1> DEFINE c == op.claim
<1> USE DEF CoreInv, SharingTypeOK, OperationInv
<1>1. /\ c \in Claims /\ op.do = "prepare" /\ cp[c] = "started"
      /\ cp' = [cp EXCEPT ![c] = "completed"] /\ alloc' = alloc
      /\ kub' = kub \/ kub' = [kub EXCEPT ![c] = "running"]
  BY DEF PrepareComplete
<1>2. ClaimStatus[c] = "preparing"
  BY <1>1 DEF ClaimStatus, StatusOf
<1>3. ClaimStatus' = [ClaimStatus EXCEPT ![c] = "prepared"]
  BY <1>1, EntryWritten DEF StatusOf
<1>4. Running' \in {Running, Running \cup {c}}
  BY <1>1 DEF Running
<1>5. \A o \in Service!Prepared : NonAdminDevs(o) \cap NonAdminDevs(c) = {}
  <2>1. \A o \in Service!Prepared : o \in Claims \ {c} /\ cp[o] = "completed"
    BY <1>1 DEF Service!Prepared, ClaimStatus, StatusOf
  <2> QED
    BY <1>1, <2>1 DEF ApartInv
<1>6. Service!Finish(c)
  BY <1>1, <1>2, <1>3, <1>4, <1>5 DEF Service!Finish, Service!Prepared, NonAdminDevs
<1> QED
  BY <1>1, <1>6 DEF AbstractStep, Service!Next

\* Removing the entry withdraws a claim whose containers do not run.
LEMMA UnprepareForgetRefines == CoreInv /\ UnprepareForget => AbstractStep
<1> SUFFICES ASSUME CoreInv, UnprepareForget PROVE AbstractStep
  OBVIOUS
<1> DEFINE c == op.claim
<1> USE DEF CoreInv, SharingTypeOK, OperationInv
<1>1. /\ c \in Claims /\ kub[c] = "releasing" /\ kub' = [kub EXCEPT ![c] = "idle"]
      /\ cp' = [cp EXCEPT ![c] = "absent"] /\ alloc' = alloc
  BY DEF UnprepareForget
<1>2. c \notin Running /\ Running' = Running
  BY <1>1 DEF Running
<1>3. ClaimStatus' = [ClaimStatus EXCEPT ![c] = "unprepared"]
  BY <1>1, EntryWritten DEF StatusOf
<1>4. Service!Withdraw(c)
  BY <1>1, <1>2, <1>3 DEF Service!Withdraw, NonAdminDevs
<1> QED
  BY <1>1, <1>4 DEF AbstractStep, Service!Next

\* Every step of the plugin, the kubelet and the daemons' Deployments maps to a
\* step of the claim service or to none.
LEMMA StepRefines == CoreInv /\ [Next]_vars => AbstractStep
<1> SUFFICES ASSUME CoreInv, [Next]_vars PROVE AbstractStep
  OBVIOUS
<1> USE DEF CoreInv, SharingTypeOK, AbstractStep, Stutter, ClaimStatus, Running,
    NonAdminDevs
<1>1. ASSUME NEW c \in Claims, PrepareCached(c) PROVE AbstractStep
  BY <1>1, PrepareCachedRefines
<1>2. ASSUME NEW c \in Claims, PrepareBegin(c) PROVE AbstractStep
  BY <1>2, PrepareBeginRefines
<1>3. ASSUME NEW c \in Claims, UnprepareNoop(c) PROVE AbstractStep
  BY <1>3 DEF UnprepareNoop
<1>4. ASSUME NEW c \in Claims, UnprepareBegin(c) PROVE AbstractStep
  BY <1>4 DEF UnprepareBegin
<1>5. ASSUME NEW c \in Claims, PodNeeds(c) PROVE AbstractStep
  BY <1>5 DEF PodNeeds, Kubelet
<1>6. ASSUME NEW c \in Claims, PodGivesUp(c) PROVE AbstractStep
  BY <1>6 DEF PodGivesUp, Kubelet
<1>7. ASSUME NEW c \in Claims, PodEnds(c) PROVE AbstractStep
  BY <1>7 DEF PodEnds, Kubelet, Service!Next, Service!Stop
<1>8. ASSUME NEW g \in op.todo, ApplyConfig(g) PROVE AbstractStep
  BY <1>8 DEF ApplyConfig
<1>9. ASSUME NEW g \in op.todo, UnprepareGroup(g) PROVE AbstractStep
  BY <1>9 DEF UnprepareGroup
<1>10. ASSUME NEW g \in Gpus, SetComputeMode(g) PROVE AbstractStep
  BY <1>10 DEF SetComputeMode
<1>11. ASSUME NEW g \in Gpus, SetTimeSlice(g) PROVE AbstractStep
  BY <1>11 DEF SetTimeSlice
<1>12. CASE ComputeModeDone
  BY <1>12 DEF ComputeModeDone
<1>13. CASE TimeSliceDone
  BY <1>13 DEF TimeSliceDone
<1>14. CASE StartCheck
  BY <1>14 DEF StartCheck
<1>15. CASE MakeDirs
  BY <1>15 DEF MakeDirs
<1>16. CASE MountShm
  BY <1>16 DEF MountShm
<1>17. CASE CreateDeployment
  BY <1>17 DEF CreateDeployment
<1>18. CASE AssertReady
  BY <1>18 DEF AssertReady
<1>19. CASE AssertReadyTimeout
  BY <1>19 DEF AssertReadyTimeout
<1>20. CASE StopStat
  BY <1>20 DEF StopStat
<1>21. CASE StopDelete
  BY <1>21 DEF StopDelete
<1>22. CASE StopUnmount
  BY <1>22 DEF StopUnmount
<1>23. CASE StopRemoveAll
  BY <1>23 DEF StopRemoveAll
<1>24. CASE PrepareComplete
  BY <1>24, PrepareCompleteRefines
<1>25. CASE UnprepareForget
  BY <1>25, UnprepareForgetRefines
<1>26. CASE StepFails
  BY <1>26 DEF StepFails
<1>27. ASSUME NEW d \in Daemons, DeploymentReady(d) PROVE AbstractStep
  BY <1>27 DEF DeploymentReady, Deployment
<1>28. ASSUME NEW d \in Daemons, DeploymentUnready(d) PROVE AbstractStep
  BY <1>28 DEF DeploymentUnready, Deployment
<1>29. ASSUME NEW d \in Daemons, DeploymentGone(d) PROVE AbstractStep
  BY <1>29 DEF DeploymentGone, Deployment
<1>30. CASE UNCHANGED vars
  BY <1>30 DEF vars
<1>31. ASSUME NEW c \in Claims, RollbackFails(c) PROVE AbstractStep
  BY <1>31 DEF RollbackFails
<1>32. CASE CreateSpecFails
  BY <1>32 DEF CreateSpecFails
<1> QED
  BY <1>1, <1>2, <1>3, <1>4, <1>5, <1>6, <1>7, <1>8, <1>9, <1>10, <1>11,
     <1>12, <1>13, <1>14, <1>15, <1>16, <1>17, <1>18, <1>19, <1>20, <1>21,
     <1>22, <1>23, <1>24, <1>25, <1>26, <1>27, <1>28, <1>29, <1>30, <1>31, <1>32 DEF Next,
     OpStep, Smi, Start, Stop, Unprepare, KubeletStep

(***************************************************************************)
(* Sharing implements the claim service: whatever happens to modes, slices *)
(* and daemons, claims are prepared and withdrawn as promised.             *)
(***************************************************************************)
THEOREM SharingImplementsClaimService == Spec => ImplementsClaimService
<1>1. Init => Service!Init
  <2> SUFFICES ASSUME Init PROVE Service!Init
    OBVIOUS
  <2>1. \A c \in Claims : ClaimStatus[c] = "unprepared"
    BY DEF Init, ClaimStatus, StatusOf
  <2>2. Running = {} /\ Service!Prepared = {}
    BY <2>1 DEF Init, Running, Service!Prepared
  <2>3. Service!TypeOK
    BY <2>1, <2>2, InitSharing, OwnFacts DEF SharingInv, CoreInv, Service!TypeOK,
       ClaimStatus
  <2> QED
    BY <2>1, <2>2, <2>3 DEF Service!Init, Service!Exclusive
<1>2. CoreInv /\ [Next]_vars => [Service!Next]_(Service!vars)
  BY StepRefines, AllocationStays DEF AbstractStep, Stutter, Service!vars, NonAdminDevs
<1> QED
  BY <1>1, <1>2, CoreAlways, PTL DEF Spec, ImplementsClaimService, Service!Spec
=============================================================================
