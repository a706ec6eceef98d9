------------------------- MODULE Passthrough_proofs -------------------------
(***************************************************************************)
(* The theorems of Passthrough, for every set of claims, GPUs and          *)
(* allocations (a claim may even hold both forms of a GPU) and every       *)
(* number of failed steps and crashes.  Each conjunct of PassthroughInv    *)
(* has a lemma of its own, <Conjunct>Step, with one case per action.       *)
(***************************************************************************)
EXTENDS Passthrough, TLAPS

\* A GPU has exactly two devices, each the sibling of the other.
LEMMA DeviceFacts ==
    /\ \A d \in Devices :
        /\ Pci(d) \in Gpus /\ Type(d) \in {"gpu", "vfio"}
        /\ Sibling(d) \in Devices /\ Pci(Sibling(d)) = Pci(d)
        /\ Type(Sibling(d)) # Type(d)
    /\ \A d, e \in Devices : Pci(d) = Pci(e) =>
        /\ e = d \/ e = Sibling(d)
        /\ Type(d) = Type(e) => d = e
    /\ \A d, e \in Devices : Sibling(d) = Sibling(e) => d = e
    /\ \A g \in Gpus : /\ Gpu(g) \in Devices /\ Pci(Gpu(g)) = g /\ Type(Gpu(g)) = "gpu"
    /\ None \notin Devices /\ None \notin Claims
  BY PassthroughAssumption DEF Devices, Pci, Type, Sibling, Gpu, Vfio

\* The plugin starts with the GPUs the nvidia driver has, as full GPUs only.
LEMMA StartFacts ==
    \A d \in EnumerateAllPossibleDevices :
        d \in Devices /\ Type(d) = "gpu" /\ driver[Pci(d)] = "nvidia"
  BY DeviceFacts DEF EnumerateAllPossibleDevices, GetPerGpuAllocatableDevices,
     EnumerateGpuPciDevices

\* Every step writes values of the right type.
LEMMA TypeStep == PassthroughTypeOK /\ OperationInv /\ [Next]_vars => PassthroughTypeOK'
<1> SUFFICES ASSUME PassthroughTypeOK /\ OperationInv, [Next]_vars
    PROVE PassthroughTypeOK'
  OBVIOUS
<1> USE PassthroughAssumption, DeviceFacts DEF PassthroughTypeOK,
    OperationInv, VfioDevices, Rebinds, api, proc, count
<1>1. CASE Start
  BY <1>1, StartFacts DEF Start
<1>2. CASE BootPublish
  BY <1>2 DEF BootPublish
<1>3. CASE Crash
  BY <1>3 DEF Crash, Idle
<1>4. CASE StepFails
  BY <1>4 DEF StepFails, Fail, Idle
<1>5. CASE UnbindIgnored
  BY <1>5 DEF UnbindIgnored, Goto
<1>6. ASSUME NEW d \in Devices, AlreadyBound(d) PROVE PassthroughTypeOK'
  BY <1>6 DEF AlreadyBound, Rebinding, Found, Target
<1>7. ASSUME NEW d \in Devices, RebindRefused(d) PROVE PassthroughTypeOK'
  BY <1>7 DEF RebindRefused, Fail, Idle
<1>8. ASSUME NEW d \in Devices, ChangeDriver(d) PROVE PassthroughTypeOK'
  BY <1>8 DEF ChangeDriver, Rebinding, Found, Goto
<1>9. CASE UnbindWithoutLock
  BY <1>9 DEF UnbindWithoutLock, Goto
<1>10. CASE Unbind
  BY <1>10 DEF Unbind, Goto
<1>11. CASE Bind
  BY <1>11 DEF Bind, Target, Loop, Goto
<1>12. CASE BindFails
  BY <1>12 DEF BindFails, Fail, Idle
<1>13. CASE UnbindLockRefused
  BY <1>13 DEF UnbindLockRefused, Fail, Idle
<1>14. CASE PrepareCached
  BY <1>14 DEF PrepareCached, Goto
<1>15. CASE PrepareRefused
  BY <1>15 DEF PrepareRefused, Fail, Idle
<1>16. CASE PrepareStarted
  BY <1>16 DEF PrepareStarted, Goto
<1>17. CASE NotAllocatable
  BY <1>17 DEF NotAllocatable, Fail, Idle
<1>18. CASE PrepareDevices
  BY <1>18 DEF PrepareDevices, Goto
<1>19. CASE ConfigureDone
  BY <1>19 DEF ConfigureDone, Goto
<1>20. CASE PrepareComplete
  BY <1>20 DEF PrepareComplete, Goto
<1>21. ASSUME NEW d \in Devices, RemoveSiblingDevices(d) PROVE PassthroughTypeOK'
  BY <1>21 DEF RemoveSiblingDevices
<1>22. CASE UnprepareNoop
  BY <1>22 DEF UnprepareNoop, Goto
<1>23. CASE UnpreparePartial
  BY <1>23 DEF UnpreparePartial, Goto
<1>24. CASE UnprepareDevices
  BY <1>24 DEF UnprepareDevices, Goto
<1>25. CASE UnconfigureDone
  BY <1>25 DEF UnconfigureDone, Goto
<1>26. CASE DiscoverDone
  BY <1>26 DEF DiscoverDone, Goto
<1>27. CASE UnprepareForget
  BY <1>27 DEF UnprepareForget, Goto
<1>28. ASSUME NEW d \in Devices, DiscoverSiblingAllocatables(d) PROVE PassthroughTypeOK'
  BY <1>28 DEF DiscoverSiblingAllocatables
<1>29. CASE Publish
  BY <1>29 DEF Publish, Idle
<1>30. ASSUME NEW c \in Claims, NEW s \in Allocations, PodArrives(c, s)
       PROVE PassthroughTypeOK'
  BY <1>30 DEF PodArrives
<1>31. ASSUME NEW c \in Claims, PodStops(c) PROVE PassthroughTypeOK'
  BY <1>31 DEF PodStops
<1>32. ASSUME NEW c \in Claims, CallPrepare(c) PROVE PassthroughTypeOK'
  BY <1>32 DEF CallPrepare, Call
<1>33. ASSUME NEW c \in Claims, CallUnprepare(c) PROVE PassthroughTypeOK'
  BY <1>33 DEF CallUnprepare, Call
<1>34. CASE UNCHANGED vars
  BY <1>34 DEF vars
<1> QED
  BY <1>1, <1>2, <1>3, <1>4, <1>5, <1>6, <1>7, <1>8, <1>9, <1>10, <1>11,
     <1>12, <1>13, <1>14, <1>15, <1>16, <1>17, <1>18, <1>19, <1>20, <1>21,
     <1>22, <1>23, <1>24, <1>25, <1>26, <1>27, <1>28, <1>29, <1>30, <1>31,
     <1>32, <1>33, <1>34 DEF Next, Plugin, Rebind, Prepare, Unprepare,
     Kubelet

\* The kubelet does not change its mind on a claim while a call for it is under way.
LEMMA OperationStep == PassthroughTypeOK /\ OperationInv /\ [Next]_vars => OperationInv'
<1> SUFFICES ASSUME PassthroughTypeOK /\ OperationInv, [Next]_vars PROVE OperationInv'
  OBVIOUS
<1> USE PassthroughAssumption, DeviceFacts DEF PassthroughTypeOK,
    OperationInv, VfioDevices, Rebinds, api, proc, count
<1>1. CASE Start
  BY <1>1 DEF Start
<1>2. CASE BootPublish
  BY <1>2 DEF BootPublish
<1>3. CASE Crash
  BY <1>3 DEF Crash, Idle
<1>4. CASE StepFails
  BY <1>4 DEF StepFails, Fail, Idle
<1>5. CASE UnbindIgnored
  BY <1>5 DEF UnbindIgnored, Goto
<1>6. ASSUME NEW d \in Devices, AlreadyBound(d) PROVE OperationInv'
  BY <1>6 DEF AlreadyBound, Rebinding, Found, Target
<1>7. ASSUME NEW d \in Devices, RebindRefused(d) PROVE OperationInv'
  BY <1>7 DEF RebindRefused, Fail, Idle
<1>8. ASSUME NEW d \in Devices, ChangeDriver(d) PROVE OperationInv'
  BY <1>8 DEF ChangeDriver, Rebinding, Found, Goto
<1>9. CASE UnbindWithoutLock
  BY <1>9 DEF UnbindWithoutLock, Goto
<1>10. CASE Unbind
  BY <1>10 DEF Unbind, Goto
<1>11. CASE Bind
  BY <1>11 DEF Bind, Target, Loop, Goto
<1>12. CASE BindFails
  BY <1>12 DEF BindFails, Fail, Idle
<1>13. CASE UnbindLockRefused
  BY <1>13 DEF UnbindLockRefused, Fail, Idle
<1>14. CASE PrepareCached
  BY <1>14 DEF PrepareCached, Goto
<1>15. CASE PrepareRefused
  BY <1>15 DEF PrepareRefused, Fail, Idle
<1>16. CASE PrepareStarted
  BY <1>16 DEF PrepareStarted, Goto
<1>17. CASE NotAllocatable
  BY <1>17 DEF NotAllocatable, Fail, Idle
<1>18. CASE PrepareDevices
  BY <1>18 DEF PrepareDevices, Goto
<1>19. CASE ConfigureDone
  BY <1>19 DEF ConfigureDone, Goto
<1>20. CASE PrepareComplete
  BY <1>20 DEF PrepareComplete, Goto
<1>21. ASSUME NEW d \in Devices, RemoveSiblingDevices(d) PROVE OperationInv'
  BY <1>21 DEF RemoveSiblingDevices
<1>22. CASE UnprepareNoop
  BY <1>22 DEF UnprepareNoop, Goto
<1>23. CASE UnpreparePartial
  BY <1>23 DEF UnpreparePartial, Goto
<1>24. CASE UnprepareDevices
  BY <1>24 DEF UnprepareDevices, Goto
<1>25. CASE UnconfigureDone
  BY <1>25 DEF UnconfigureDone, Goto
<1>26. CASE DiscoverDone
  BY <1>26 DEF DiscoverDone, Goto
<1>27. CASE UnprepareForget
  BY <1>27 DEF UnprepareForget, Goto
<1>28. ASSUME NEW d \in Devices, DiscoverSiblingAllocatables(d) PROVE OperationInv'
  BY <1>28 DEF DiscoverSiblingAllocatables
<1>29. CASE Publish
  BY <1>29 DEF Publish, Idle
<1>30. ASSUME NEW c \in Claims, NEW s \in Allocations, PodArrives(c, s)
       PROVE OperationInv'
  BY <1>30 DEF PodArrives
<1>31. ASSUME NEW c \in Claims, PodStops(c) PROVE OperationInv'
  BY <1>31 DEF PodStops
<1>32. ASSUME NEW c \in Claims, CallPrepare(c) PROVE OperationInv'
  BY <1>32 DEF CallPrepare, Call
<1>33. ASSUME NEW c \in Claims, CallUnprepare(c) PROVE OperationInv'
  BY <1>33 DEF CallUnprepare, Call
<1>34. CASE UNCHANGED vars
  BY <1>34 DEF vars
<1> QED
  BY <1>1, <1>2, <1>3, <1>4, <1>5, <1>6, <1>7, <1>8, <1>9, <1>10, <1>11,
     <1>12, <1>13, <1>14, <1>15, <1>16, <1>17, <1>18, <1>19, <1>20, <1>21,
     <1>22, <1>23, <1>24, <1>25, <1>26, <1>27, <1>28, <1>29, <1>30, <1>31,
     <1>32, <1>33, <1>34 DEF Next, Plugin, Rebind, Prepare, Unprepare,
     Kubelet

\* An entry goes from started to completed to absent under its own operation.
LEMMA EntryStep ==
    PassthroughTypeOK /\ OperationInv /\ EntryInv /\ [Next]_vars => EntryInv'
<1> SUFFICES ASSUME PassthroughTypeOK /\ OperationInv /\ EntryInv, [Next]_vars
    PROVE EntryInv'
  OBVIOUS
<1> USE PassthroughAssumption, DeviceFacts DEF PassthroughTypeOK,
    OperationInv, EntryInv, Rebinds, api, proc, count
<1>1. CASE Start
  BY <1>1 DEF Start
<1>2. CASE BootPublish
  BY <1>2 DEF BootPublish
<1>3. CASE Crash
  BY <1>3 DEF Crash, Idle
<1>4. CASE StepFails
  BY <1>4 DEF StepFails, Fail, Idle
<1>5. CASE UnbindIgnored
  BY <1>5 DEF UnbindIgnored, Goto
<1>6. ASSUME NEW d \in Devices, AlreadyBound(d) PROVE EntryInv'
  BY <1>6 DEF AlreadyBound, Rebinding, Found, Target
<1>7. ASSUME NEW d \in Devices, RebindRefused(d) PROVE EntryInv'
  BY <1>7 DEF RebindRefused, Fail, Idle
<1>8. ASSUME NEW d \in Devices, ChangeDriver(d) PROVE EntryInv'
  BY <1>8 DEF ChangeDriver, Rebinding, Found, Goto
<1>9. CASE UnbindWithoutLock
  BY <1>9 DEF UnbindWithoutLock, Goto
<1>10. CASE Unbind
  BY <1>10 DEF Unbind, Goto
<1>11. CASE Bind
  BY <1>11 DEF Bind, Target, Loop, Goto
<1>12. CASE BindFails
  BY <1>12 DEF BindFails, Fail, Idle
<1>13. CASE UnbindLockRefused
  BY <1>13 DEF UnbindLockRefused, Fail, Idle
<1>14. CASE PrepareCached
  BY <1>14 DEF PrepareCached, Goto
<1>15. CASE PrepareRefused
  BY <1>15 DEF PrepareRefused, Fail, Idle
<1>16. CASE PrepareStarted
  BY <1>16 DEF PrepareStarted, Goto
<1>17. CASE NotAllocatable
  BY <1>17 DEF NotAllocatable, Fail, Idle
<1>18. CASE PrepareDevices
  BY <1>18 DEF PrepareDevices, Goto
<1>19. CASE ConfigureDone
  BY <1>19 DEF ConfigureDone, Goto
<1>20. CASE PrepareComplete
  BY <1>20 DEF PrepareComplete, Goto
<1>21. ASSUME NEW d \in Devices, RemoveSiblingDevices(d) PROVE EntryInv'
  BY <1>21 DEF RemoveSiblingDevices
<1>22. CASE UnprepareNoop
  BY <1>22 DEF UnprepareNoop, Goto
<1>23. CASE UnpreparePartial
  BY <1>23 DEF UnpreparePartial, Goto
<1>24. CASE UnprepareDevices
  BY <1>24 DEF UnprepareDevices, Goto
<1>25. CASE UnconfigureDone
  BY <1>25 DEF UnconfigureDone, Goto
<1>26. CASE DiscoverDone
  BY <1>26 DEF DiscoverDone, Goto
<1>27. CASE UnprepareForget
  BY <1>27 DEF UnprepareForget, Goto
<1>28. ASSUME NEW d \in Devices, DiscoverSiblingAllocatables(d) PROVE EntryInv'
  BY <1>28 DEF DiscoverSiblingAllocatables
<1>29. CASE Publish
  BY <1>29 DEF Publish, Idle
<1>30. ASSUME NEW c \in Claims, NEW s \in Allocations, PodArrives(c, s) PROVE EntryInv'
  BY <1>30 DEF PodArrives
<1>31. ASSUME NEW c \in Claims, PodStops(c) PROVE EntryInv'
  BY <1>31 DEF PodStops
<1>32. ASSUME NEW c \in Claims, CallPrepare(c) PROVE EntryInv'
  BY <1>32 DEF CallPrepare, Call
<1>33. ASSUME NEW c \in Claims, CallUnprepare(c) PROVE EntryInv'
  BY <1>33 DEF CallUnprepare, Call
<1>34. CASE UNCHANGED vars
  BY <1>34 DEF vars
<1> QED
  BY <1>1, <1>2, <1>3, <1>4, <1>5, <1>6, <1>7, <1>8, <1>9, <1>10, <1>11,
     <1>12, <1>13, <1>14, <1>15, <1>16, <1>17, <1>18, <1>19, <1>20, <1>21,
     <1>22, <1>23, <1>24, <1>25, <1>26, <1>27, <1>28, <1>29, <1>30, <1>31,
     <1>32, <1>33, <1>34 DEF Next, Plugin, Rebind, Prepare, Unprepare,
     Kubelet

\* A claim that completes has GPUs of its own, and no rebind reaches those of others.
LEMMA ExclusiveStep ==
    PassthroughTypeOK /\ OperationInv /\ EntryInv /\ ExclusiveInv /\ PrepareInv /\ ReleaseInv /\ [Next]_vars => ExclusiveInv'
<1> SUFFICES ASSUME PassthroughTypeOK /\ OperationInv /\ EntryInv /\ ExclusiveInv /\ PrepareInv /\ ReleaseInv, [Next]_vars
    PROVE ExclusiveInv'
  OBVIOUS
<1> USE PassthroughAssumption, DeviceFacts DEF PassthroughTypeOK,
    OperationInv, EntryInv, ExclusiveInv, PrepareInv, Settled, GpusOf,
    SiblingGone, BoundToVfio, ReleaseInv, Overlaps, VfioDevices, Rebinds,
    api, proc, count
<1>1. CASE Start
  BY SMTT(30), <1>1, StartFacts DEF Start
<1>2. CASE BootPublish
  BY SMTT(30), <1>2 DEF BootPublish
<1>3. CASE Crash
  <2>1. /\ cp' = cp /\ kub' = kub /\ alloc' = alloc /\ driver' = driver
        /\ allocatable' = {}
    BY SMTT(30), <1>3 DEF Crash
  <2> QED
    BY SMTT(30), <2>1
<1>4. CASE StepFails
  BY SMTT(30), <1>4 DEF StepFails, Fail, Idle
<1>5. CASE UnbindIgnored
  BY SMTT(30), <1>5 DEF UnbindIgnored, Goto
<1>6. ASSUME NEW d \in Devices, AlreadyBound(d) PROVE ExclusiveInv'
  BY SMTT(30), <1>6 DEF AlreadyBound, Rebinding, Found, Target
<1>7. ASSUME NEW d \in Devices, RebindRefused(d) PROVE ExclusiveInv'
  BY SMTT(30), <1>7 DEF RebindRefused, Fail, Idle
<1>8. ASSUME NEW d \in Devices, ChangeDriver(d) PROVE ExclusiveInv'
  BY SMTT(30), <1>8 DEF ChangeDriver, Rebinding, Found, Goto
<1>9. CASE UnbindWithoutLock
  BY SMTT(30), <1>9 DEF UnbindWithoutLock, Goto
<1>10. CASE Unbind
  BY SMTT(30), <1>10 DEF Unbind, Goto
<1>11. CASE Bind
  <2>1. dev \in alloc[claim] /\ dev \in Devices /\ dev \in allocatable /\ ~Settled(claim)
    BY SMTT(30), <1>11 DEF Bind
  <2>2. \A c \in Claims, d \in Devices : Settled(c) /\ d \in alloc[c] => Pci(d) # Pci(dev)
    BY <1>11, <2>1 DEF Bind
  <2>3. /\ cp' = cp /\ kub' = kub /\ alloc' = alloc /\ allocatable' = allocatable
        /\ \A g \in Gpus : g # Pci(dev) => driver'[g] = driver[g]
    BY <1>11, <2>1 DEF Bind
  <2> QED
    BY SMTT(30), <2>2, <2>3
<1>12. CASE BindFails
  BY SMTT(30), <1>12 DEF BindFails, Fail, Idle
<1>13. CASE UnbindLockRefused
  BY SMTT(30), <1>13 DEF UnbindLockRefused, Fail, Idle
<1>14. CASE PrepareCached
  BY SMTT(30), <1>14 DEF PrepareCached, Goto
<1>15. CASE PrepareRefused
  BY SMTT(30), <1>15 DEF PrepareRefused, Fail, Idle
<1>16. CASE PrepareStarted
  BY SMTT(30), <1>16 DEF PrepareStarted, Goto
<1>17. CASE NotAllocatable
  BY SMTT(30), <1>17 DEF NotAllocatable, Fail, Idle
<1>18. CASE PrepareDevices
  BY SMTT(30), <1>18 DEF PrepareDevices, Goto
<1>19. CASE ConfigureDone
  BY SMTT(30), <1>19 DEF ConfigureDone, Goto
<1>20. CASE PrepareComplete
  BY SMTT(30), <1>20 DEF PrepareComplete, Goto
<1>21. ASSUME NEW d \in Devices, RemoveSiblingDevices(d) PROVE ExclusiveInv'
  BY SMTT(30), <1>21 DEF RemoveSiblingDevices
<1>22. CASE UnprepareNoop
  BY SMTT(30), <1>22 DEF UnprepareNoop, Goto
<1>23. CASE UnpreparePartial
  BY SMTT(30), <1>23 DEF UnpreparePartial, Goto
<1>24. CASE UnprepareDevices
  BY SMTT(30), <1>24 DEF UnprepareDevices, Goto
<1>25. CASE UnconfigureDone
  BY SMTT(30), <1>25 DEF UnconfigureDone, Goto
<1>26. CASE DiscoverDone
  BY SMTT(30), <1>26 DEF DiscoverDone, Goto
<1>27. CASE UnprepareForget
  BY SMTT(30), <1>27 DEF UnprepareForget, Goto
<1>28. ASSUME NEW d \in Devices, DiscoverSiblingAllocatables(d) PROVE ExclusiveInv'
  BY SMTT(30), <1>28 DEF DiscoverSiblingAllocatables
<1>29. CASE Publish
  BY SMTT(30), <1>29 DEF Publish, Idle
<1>30. ASSUME NEW c \in Claims, NEW s \in Allocations, PodArrives(c, s)
       PROVE ExclusiveInv'
  <2>1. /\ cp[c] = "absent" /\ cp' = cp /\ allocatable' = allocatable /\ driver' = driver
        /\ \A o \in Claims \ {c} : alloc'[o] = alloc[o] /\ kub'[o] = kub[o]
    BY SMTT(30), <1>30 DEF PodArrives
  <2> QED
    BY SMTT(30), <2>1
<1>31. ASSUME NEW c \in Claims, PodStops(c) PROVE ExclusiveInv'
  BY SMTT(30), <1>31 DEF PodStops
<1>32. ASSUME NEW c \in Claims, CallPrepare(c) PROVE ExclusiveInv'
  BY SMTT(30), <1>32 DEF CallPrepare, Call
<1>33. ASSUME NEW c \in Claims, CallUnprepare(c) PROVE ExclusiveInv'
  BY SMTT(30), <1>33 DEF CallUnprepare, Call
<1>34. CASE UNCHANGED vars
  BY SMTT(30), <1>34 DEF vars
<1> QED
  BY <1>1, <1>2, <1>3, <1>4, <1>5, <1>6, <1>7, <1>8, <1>9, <1>10, <1>11,
     <1>12, <1>13, <1>14, <1>15, <1>16, <1>17, <1>18, <1>19, <1>20, <1>21,
     <1>22, <1>23, <1>24, <1>25, <1>26, <1>27, <1>28, <1>29, <1>30, <1>31,
     <1>32, <1>33, <1>34 DEF Next, Plugin, Rebind, Prepare, Unprepare,
     Kubelet

\* Prepare loses nothing of what it has checked and done.
LEMMA PrepareInvStep ==
    PassthroughTypeOK /\ OperationInv /\ EntryInv /\ ExclusiveInv /\ PrepareInv /\ [Next]_vars => PrepareInv'
<1> SUFFICES ASSUME PassthroughTypeOK /\ OperationInv /\ EntryInv /\ ExclusiveInv /\ PrepareInv, [Next]_vars
    PROVE PrepareInv'
  OBVIOUS
<1> USE PassthroughAssumption, DeviceFacts DEF PassthroughTypeOK,
    OperationInv, EntryInv, ExclusiveInv, PrepareInv, Settled, GpusOf,
    SiblingGone, BoundToVfio, Overlaps, VfioDevices, Rebinds, api, proc,
    count
<1>1. CASE Start
  BY <1>1, StartFacts DEF Start
<1>2. CASE BootPublish
  BY <1>2 DEF BootPublish
<1>3. CASE Crash
  BY <1>3 DEF Crash, Idle
<1>4. CASE StepFails
  BY <1>4 DEF StepFails, Fail, Idle
<1>5. CASE UnbindIgnored
  BY <1>5 DEF UnbindIgnored, Goto
<1>6. ASSUME NEW d \in Devices, AlreadyBound(d) PROVE PrepareInv'
  BY <1>6 DEF AlreadyBound, Rebinding, Found, Target
<1>7. ASSUME NEW d \in Devices, RebindRefused(d) PROVE PrepareInv'
  BY <1>7 DEF RebindRefused, Fail, Idle
<1>8. ASSUME NEW d \in Devices, ChangeDriver(d) PROVE PrepareInv'
  BY <1>8 DEF ChangeDriver, Rebinding, Found, Goto
<1>9. CASE UnbindWithoutLock
  BY <1>9 DEF UnbindWithoutLock, Goto
<1>10. CASE Unbind
  BY <1>10 DEF Unbind, Goto
<1>11. CASE Bind
  BY <1>11 DEF Bind, Target, Loop, Goto
<1>12. CASE BindFails
  BY <1>12 DEF BindFails, Fail, Idle
<1>13. CASE UnbindLockRefused
  BY <1>13 DEF UnbindLockRefused, Fail, Idle
<1>14. CASE PrepareCached
  BY <1>14 DEF PrepareCached, Goto
<1>15. CASE PrepareRefused
  BY <1>15 DEF PrepareRefused, Fail, Idle
<1>16. CASE PrepareStarted
  BY <1>16 DEF PrepareStarted, Goto
<1>17. CASE NotAllocatable
  BY <1>17 DEF NotAllocatable, Fail, Idle
<1>18. CASE PrepareDevices
  BY <1>18 DEF PrepareDevices, Goto
<1>19. CASE ConfigureDone
  BY <1>19 DEF ConfigureDone, Goto
<1>20. CASE PrepareComplete
  BY <1>20 DEF PrepareComplete, Goto
<1>21. ASSUME NEW d \in Devices, RemoveSiblingDevices(d) PROVE PrepareInv'
  BY <1>21 DEF RemoveSiblingDevices
<1>22. CASE UnprepareNoop
  BY <1>22 DEF UnprepareNoop, Goto
<1>23. CASE UnpreparePartial
  BY <1>23 DEF UnpreparePartial, Goto
<1>24. CASE UnprepareDevices
  BY <1>24 DEF UnprepareDevices, Goto
<1>25. CASE UnconfigureDone
  BY <1>25 DEF UnconfigureDone, Goto
<1>26. CASE DiscoverDone
  BY <1>26 DEF DiscoverDone, Goto
<1>27. CASE UnprepareForget
  BY <1>27 DEF UnprepareForget, Goto
<1>28. ASSUME NEW d \in Devices, DiscoverSiblingAllocatables(d) PROVE PrepareInv'
  BY <1>28 DEF DiscoverSiblingAllocatables
<1>29. CASE Publish
  BY <1>29 DEF Publish, Idle
<1>30. ASSUME NEW c \in Claims, NEW s \in Allocations, PodArrives(c, s)
       PROVE PrepareInv'
  BY <1>30 DEF PodArrives
<1>31. ASSUME NEW c \in Claims, PodStops(c) PROVE PrepareInv'
  BY <1>31 DEF PodStops
<1>32. ASSUME NEW c \in Claims, CallPrepare(c) PROVE PrepareInv'
  BY <1>32 DEF CallPrepare, Call
<1>33. ASSUME NEW c \in Claims, CallUnprepare(c) PROVE PrepareInv'
  BY <1>33 DEF CallUnprepare, Call
<1>34. CASE UNCHANGED vars
  BY <1>34 DEF vars
<1> QED
  BY <1>1, <1>2, <1>3, <1>4, <1>5, <1>6, <1>7, <1>8, <1>9, <1>10, <1>11,
     <1>12, <1>13, <1>14, <1>15, <1>16, <1>17, <1>18, <1>19, <1>20, <1>21,
     <1>22, <1>23, <1>24, <1>25, <1>26, <1>27, <1>28, <1>29, <1>30, <1>31,
     <1>32, <1>33, <1>34 DEF Next, Plugin, Rebind, Prepare, Unprepare,
     Kubelet

\* Unprepare loses nothing of what it has restored.
LEMMA ReleaseStep ==
    PassthroughTypeOK /\ OperationInv /\ EntryInv /\ ExclusiveInv /\ PrepareInv /\ ReleaseInv /\ [Next]_vars => ReleaseInv'
<1> SUFFICES ASSUME PassthroughTypeOK /\ OperationInv /\ EntryInv /\ ExclusiveInv /\ PrepareInv /\ ReleaseInv, [Next]_vars
    PROVE ReleaseInv'
  OBVIOUS
<1> USE PassthroughAssumption, DeviceFacts DEF PassthroughTypeOK,
    OperationInv, EntryInv, ExclusiveInv, PrepareInv, Settled, GpusOf,
    SiblingGone, BoundToVfio, ReleaseInv, Overlaps, VfioDevices, Rebinds,
    api, proc, count
<1>1. CASE Start
  BY <1>1, StartFacts DEF Start
<1>2. CASE BootPublish
  BY <1>2 DEF BootPublish
<1>3. CASE Crash
  BY <1>3 DEF Crash, Idle
<1>4. CASE StepFails
  BY <1>4 DEF StepFails, Fail, Idle
<1>5. CASE UnbindIgnored
  BY <1>5 DEF UnbindIgnored, Goto
<1>6. ASSUME NEW d \in Devices, AlreadyBound(d) PROVE ReleaseInv'
  BY <1>6 DEF AlreadyBound, Rebinding, Found, Target
<1>7. ASSUME NEW d \in Devices, RebindRefused(d) PROVE ReleaseInv'
  BY <1>7 DEF RebindRefused, Fail, Idle
<1>8. ASSUME NEW d \in Devices, ChangeDriver(d) PROVE ReleaseInv'
  BY <1>8 DEF ChangeDriver, Rebinding, Found, Goto
<1>9. CASE UnbindWithoutLock
  BY <1>9 DEF UnbindWithoutLock, Goto
<1>10. CASE Unbind
  BY <1>10 DEF Unbind, Goto
<1>11. CASE Bind
  BY <1>11 DEF Bind, Target, Loop, Goto
<1>12. CASE BindFails
  BY <1>12 DEF BindFails, Fail, Idle
<1>13. CASE UnbindLockRefused
  BY <1>13 DEF UnbindLockRefused, Fail, Idle
<1>14. CASE PrepareCached
  BY <1>14 DEF PrepareCached, Goto
<1>15. CASE PrepareRefused
  BY <1>15 DEF PrepareRefused, Fail, Idle
<1>16. CASE PrepareStarted
  BY <1>16 DEF PrepareStarted, Goto
<1>17. CASE NotAllocatable
  BY <1>17 DEF NotAllocatable, Fail, Idle
<1>18. CASE PrepareDevices
  BY <1>18 DEF PrepareDevices, Goto
<1>19. CASE ConfigureDone
  BY <1>19 DEF ConfigureDone, Goto
<1>20. CASE PrepareComplete
  BY <1>20 DEF PrepareComplete, Goto
<1>21. ASSUME NEW d \in Devices, RemoveSiblingDevices(d) PROVE ReleaseInv'
  BY <1>21 DEF RemoveSiblingDevices
<1>22. CASE UnprepareNoop
  BY <1>22 DEF UnprepareNoop, Goto
<1>23. CASE UnpreparePartial
  BY <1>23 DEF UnpreparePartial, Goto
<1>24. CASE UnprepareDevices
  BY <1>24 DEF UnprepareDevices, Goto
<1>25. CASE UnconfigureDone
  BY <1>25 DEF UnconfigureDone, Goto
<1>26. CASE DiscoverDone
  BY <1>26 DEF DiscoverDone, Goto
<1>27. CASE UnprepareForget
  BY <1>27 DEF UnprepareForget, Goto
<1>28. ASSUME NEW d \in Devices, DiscoverSiblingAllocatables(d) PROVE ReleaseInv'
  BY <1>28 DEF DiscoverSiblingAllocatables
<1>29. CASE Publish
  BY <1>29 DEF Publish, Idle
<1>30. ASSUME NEW c \in Claims, NEW s \in Allocations, PodArrives(c, s)
       PROVE ReleaseInv'
  BY <1>30 DEF PodArrives
<1>31. ASSUME NEW c \in Claims, PodStops(c) PROVE ReleaseInv'
  BY <1>31 DEF PodStops
<1>32. ASSUME NEW c \in Claims, CallPrepare(c) PROVE ReleaseInv'
  BY <1>32 DEF CallPrepare, Call
<1>33. ASSUME NEW c \in Claims, CallUnprepare(c) PROVE ReleaseInv'
  BY <1>33 DEF CallUnprepare, Call
<1>34. CASE UNCHANGED vars
  BY <1>34 DEF vars
<1> QED
  BY <1>1, <1>2, <1>3, <1>4, <1>5, <1>6, <1>7, <1>8, <1>9, <1>10, <1>11,
     <1>12, <1>13, <1>14, <1>15, <1>16, <1>17, <1>18, <1>19, <1>20, <1>21,
     <1>22, <1>23, <1>24, <1>25, <1>26, <1>27, <1>28, <1>29, <1>30, <1>31,
     <1>32, <1>33, <1>34 DEF Next, Plugin, Rebind, Prepare, Unprepare,
     Kubelet

\* Nothing is prepared before the plugin starts.
LEMMA InitPassthrough == Init => PassthroughInv
<1> SUFFICES ASSUME Init PROVE PassthroughInv
  OBVIOUS
<1> USE PassthroughAssumption, DeviceFacts DEF Init, VfioDevices, Rebinds
<1>1. PassthroughTypeOK
  BY DEF PassthroughTypeOK
<1>2. OperationInv /\ EntryInv
  BY DEF OperationInv, EntryInv
<1>3. ExclusiveInv /\ PrepareInv /\ ReleaseInv
  BY DEF ExclusiveInv, PrepareInv, ReleaseInv, Settled
<1> QED
  BY <1>1, <1>2, <1>3 DEF PassthroughInv

\* Every step preserves the inductive invariant.
LEMMA InvStep == PassthroughInv /\ [Next]_vars => PassthroughInv'
  BY TypeStep, OperationStep, EntryStep, ExclusiveStep, PrepareInvStep,
     ReleaseStep DEF PassthroughInv

-----------------------------------------------------------------------------
(* What a step may do to the GPUs in use.                                   *)

\* The step RunningKeepsDriver allows.
KeepsDriver ==
    \A c \in Running : c \in Running' => \A d \in alloc[c] :
        /\ driver'[Pci(d)] = driver[Pci(d)]
        /\ Type(d) = "vfio" => driver[Pci(d)] = "vfio-pci"

\* The step ReleaseRestoresGpu allows.
RestoresGpu ==
    \A c \in Claims : cp[c] = "completed" /\ cp'[c] = "absent" =>
        \A d \in VfioDevices(c) :
            driver'[Pci(d)] = "nvidia" /\ {d, Sibling(d)} \subseteq allocatable'

\* The device whose driver is changed is no device of a running claim, under
\* either name.
LEMMA RebindsOnlyFree ==
    ASSUME PassthroughInv, pc \in Rebinds
    PROVE  /\ dev \in Devices
           /\ \A c \in Running : \A d \in alloc[c] : Pci(d) # Pci(dev)
<1> USE DeviceFacts, PassthroughAssumption DEF PassthroughInv,
    PassthroughTypeOK, OperationInv, EntryInv, ExclusiveInv, PrepareInv,
    ReleaseInv, Settled, GpusOf, SiblingGone, VfioDevices, Rebinds, Running
<1>1. dev \in Devices /\ dev \in alloc[claim] /\ dev \in allocatable
  OBVIOUS
<1>2. ASSUME NEW c \in Running, NEW d \in alloc[c], Pci(d) = Pci(dev)
      PROVE FALSE
  <2>1. c # claim /\ Settled(c)
    BY <1>2
  <2>2. CASE op = "prepare"
    BY <2>1, <2>2, <1>1, <1>2
  <2>3. CASE op = "unprepare"
    <3>1. alloc[c] \cap alloc[claim] = {}
      BY <2>1, <2>3
    <3>2. dev = Sibling(d)
      BY <1>1, <1>2, <3>1
    <3> QED
      BY <1>1, <1>2, <2>1, <3>1, <3>2
  <2> QED
    BY <2>2, <2>3
<1> QED
  BY <1>1, <1>2

\* A driver changes in Unbind and Bind only.
LEMMA KeepsDriverStep == PassthroughInv /\ [Next]_vars => KeepsDriver
<1> SUFFICES ASSUME PassthroughInv, [Next]_vars PROVE KeepsDriver
  OBVIOUS
<1> USE PassthroughAssumption, DeviceFacts, RebindsOnlyFree DEF
    PassthroughInv, PassthroughTypeOK, EntryInv, ExclusiveInv, Settled,
    BoundToVfio, Running, KeepsDriver, Rebinds, api, proc, count
<1>1. CASE Start
  BY <1>1 DEF Start
<1>2. CASE BootPublish
  BY <1>2 DEF BootPublish
<1>3. CASE Crash
  BY <1>3 DEF Crash, Idle
<1>4. CASE StepFails
  BY <1>4 DEF StepFails, Fail, Idle
<1>5. CASE UnbindIgnored
  BY <1>5 DEF UnbindIgnored, Goto
<1>6. ASSUME NEW d \in Devices, AlreadyBound(d) PROVE KeepsDriver
  BY <1>6 DEF AlreadyBound, Rebinding, Found, Target
<1>7. ASSUME NEW d \in Devices, RebindRefused(d) PROVE KeepsDriver
  BY <1>7 DEF RebindRefused, Fail, Idle
<1>8. ASSUME NEW d \in Devices, ChangeDriver(d) PROVE KeepsDriver
  BY <1>8 DEF ChangeDriver, Rebinding, Found, Goto
<1>9. CASE UnbindWithoutLock
  BY <1>9 DEF UnbindWithoutLock, Goto
<1>10. CASE Unbind
  BY <1>10 DEF Unbind, Goto
<1>11. CASE Bind
  BY <1>11 DEF Bind, Target, Loop, Goto
<1>12. CASE BindFails
  BY <1>12 DEF BindFails, Fail, Idle
<1>13. CASE UnbindLockRefused
  BY <1>13 DEF UnbindLockRefused, Fail, Idle
<1>14. CASE PrepareCached
  BY <1>14 DEF PrepareCached, Goto
<1>15. CASE PrepareRefused
  BY <1>15 DEF PrepareRefused, Fail, Idle
<1>16. CASE PrepareStarted
  BY <1>16 DEF PrepareStarted, Goto
<1>17. CASE NotAllocatable
  BY <1>17 DEF NotAllocatable, Fail, Idle
<1>18. CASE PrepareDevices
  BY <1>18 DEF PrepareDevices, Goto
<1>19. CASE ConfigureDone
  BY <1>19 DEF ConfigureDone, Goto
<1>20. CASE PrepareComplete
  BY <1>20 DEF PrepareComplete, Goto
<1>21. ASSUME NEW d \in Devices, RemoveSiblingDevices(d) PROVE KeepsDriver
  BY <1>21 DEF RemoveSiblingDevices
<1>22. CASE UnprepareNoop
  BY <1>22 DEF UnprepareNoop, Goto
<1>23. CASE UnpreparePartial
  BY <1>23 DEF UnpreparePartial, Goto
<1>24. CASE UnprepareDevices
  BY <1>24 DEF UnprepareDevices, Goto
<1>25. CASE UnconfigureDone
  BY <1>25 DEF UnconfigureDone, Goto
<1>26. CASE DiscoverDone
  BY <1>26 DEF DiscoverDone, Goto
<1>27. CASE UnprepareForget
  BY <1>27 DEF UnprepareForget, Goto
<1>28. ASSUME NEW d \in Devices, DiscoverSiblingAllocatables(d) PROVE KeepsDriver
  BY <1>28 DEF DiscoverSiblingAllocatables
<1>29. CASE Publish
  BY <1>29 DEF Publish, Idle
<1>30. ASSUME NEW c \in Claims, NEW s \in Allocations, PodArrives(c, s)
       PROVE KeepsDriver
  BY <1>30 DEF PodArrives
<1>31. ASSUME NEW c \in Claims, PodStops(c) PROVE KeepsDriver
  BY <1>31 DEF PodStops
<1>32. ASSUME NEW c \in Claims, CallPrepare(c) PROVE KeepsDriver
  BY <1>32 DEF CallPrepare, Call
<1>33. ASSUME NEW c \in Claims, CallUnprepare(c) PROVE KeepsDriver
  BY <1>33 DEF CallUnprepare, Call
<1>34. CASE UNCHANGED vars
  BY <1>34 DEF vars
<1> QED
  BY <1>1, <1>2, <1>3, <1>4, <1>5, <1>6, <1>7, <1>8, <1>9, <1>10, <1>11,
     <1>12, <1>13, <1>14, <1>15, <1>16, <1>17, <1>18, <1>19, <1>20, <1>21,
     <1>22, <1>23, <1>24, <1>25, <1>26, <1>27, <1>28, <1>29, <1>30, <1>31,
     <1>32, <1>33, <1>34 DEF Next, Plugin, Rebind, Prepare, Unprepare,
     Kubelet

\* An entry is dropped by UnprepareForget only.
LEMMA RestoresGpuStep == PassthroughInv /\ [Next]_vars => RestoresGpu
<1> SUFFICES ASSUME PassthroughInv, [Next]_vars PROVE RestoresGpu
  OBVIOUS
<1> USE PassthroughAssumption, DeviceFacts DEF PassthroughInv,
    PassthroughTypeOK, OperationInv, EntryInv, ReleaseInv, VfioDevices,
    RestoresGpu, Rebinds, api, proc, count
<1>1. CASE Start
  BY <1>1 DEF Start
<1>2. CASE BootPublish
  BY <1>2 DEF BootPublish
<1>3. CASE Crash
  BY <1>3 DEF Crash, Idle
<1>4. CASE StepFails
  BY <1>4 DEF StepFails, Fail, Idle
<1>5. CASE UnbindIgnored
  BY <1>5 DEF UnbindIgnored, Goto
<1>6. ASSUME NEW d \in Devices, AlreadyBound(d) PROVE RestoresGpu
  BY <1>6 DEF AlreadyBound, Rebinding, Found, Target
<1>7. ASSUME NEW d \in Devices, RebindRefused(d) PROVE RestoresGpu
  BY <1>7 DEF RebindRefused, Fail, Idle
<1>8. ASSUME NEW d \in Devices, ChangeDriver(d) PROVE RestoresGpu
  BY <1>8 DEF ChangeDriver, Rebinding, Found, Goto
<1>9. CASE UnbindWithoutLock
  BY <1>9 DEF UnbindWithoutLock, Goto
<1>10. CASE Unbind
  BY <1>10 DEF Unbind, Goto
<1>11. CASE Bind
  BY <1>11 DEF Bind, Target, Loop, Goto
<1>12. CASE BindFails
  BY <1>12 DEF BindFails, Fail, Idle
<1>13. CASE UnbindLockRefused
  BY <1>13 DEF UnbindLockRefused, Fail, Idle
<1>14. CASE PrepareCached
  BY <1>14 DEF PrepareCached, Goto
<1>15. CASE PrepareRefused
  BY <1>15 DEF PrepareRefused, Fail, Idle
<1>16. CASE PrepareStarted
  BY <1>16 DEF PrepareStarted, Goto
<1>17. CASE NotAllocatable
  BY <1>17 DEF NotAllocatable, Fail, Idle
<1>18. CASE PrepareDevices
  BY <1>18 DEF PrepareDevices, Goto
<1>19. CASE ConfigureDone
  BY <1>19 DEF ConfigureDone, Goto
<1>20. CASE PrepareComplete
  BY <1>20 DEF PrepareComplete, Goto
<1>21. ASSUME NEW d \in Devices, RemoveSiblingDevices(d) PROVE RestoresGpu
  BY <1>21 DEF RemoveSiblingDevices
<1>22. CASE UnprepareNoop
  BY <1>22 DEF UnprepareNoop, Goto
<1>23. CASE UnpreparePartial
  BY <1>23 DEF UnpreparePartial, Goto
<1>24. CASE UnprepareDevices
  BY <1>24 DEF UnprepareDevices, Goto
<1>25. CASE UnconfigureDone
  BY <1>25 DEF UnconfigureDone, Goto
<1>26. CASE DiscoverDone
  BY <1>26 DEF DiscoverDone, Goto
<1>27. CASE UnprepareForget
  BY <1>27 DEF UnprepareForget, Goto
<1>28. ASSUME NEW d \in Devices, DiscoverSiblingAllocatables(d) PROVE RestoresGpu
  BY <1>28 DEF DiscoverSiblingAllocatables
<1>29. CASE Publish
  BY <1>29 DEF Publish, Idle
<1>30. ASSUME NEW c \in Claims, NEW s \in Allocations, PodArrives(c, s)
       PROVE RestoresGpu
  BY <1>30 DEF PodArrives
<1>31. ASSUME NEW c \in Claims, PodStops(c) PROVE RestoresGpu
  BY <1>31 DEF PodStops
<1>32. ASSUME NEW c \in Claims, CallPrepare(c) PROVE RestoresGpu
  BY <1>32 DEF CallPrepare, Call
<1>33. ASSUME NEW c \in Claims, CallUnprepare(c) PROVE RestoresGpu
  BY <1>33 DEF CallUnprepare, Call
<1>34. CASE UNCHANGED vars
  BY <1>34 DEF vars
<1> QED
  BY <1>1, <1>2, <1>3, <1>4, <1>5, <1>6, <1>7, <1>8, <1>9, <1>10, <1>11,
     <1>12, <1>13, <1>14, <1>15, <1>16, <1>17, <1>18, <1>19, <1>20, <1>21,
     <1>22, <1>23, <1>24, <1>25, <1>26, <1>27, <1>28, <1>29, <1>30, <1>31,
     <1>32, <1>33, <1>34 DEF Next, Plugin, Rebind, Prepare, Unprepare,
     Kubelet

-----------------------------------------------------------------------------
(* The theorems.                                                            *)

(***************************************************************************)
(* The variables keep their types whatever fails: in particular a GPU that *)
(* an aborted rebind left behind is bound to vfio-pci, to nvidia or to     *)
(* nothing.                                                                *)
(***************************************************************************)
THEOREM PassthroughTypeCorrect == Spec => []PassthroughTypeOK
<1>1. PassthroughInv => PassthroughTypeOK
  BY DEF PassthroughInv
<1> QED
  BY <1>1, InitPassthrough, InvStep, PTL DEF Spec

(***************************************************************************)
(* The inductive invariant: at each step of Prepare and Unprepare, what    *)
(* the checkpoint, the drivers and the allocatable devices say of the      *)
(* claim at work and of those that are prepared.                           *)
(***************************************************************************)
THEOREM PassthroughInductive == Spec => []PassthroughInv
  BY InitPassthrough, InvStep, PTL DEF Spec

(***************************************************************************)
(* No GPU is in the hands of two running claims: the overlap check keeps   *)
(* them from sharing a device name, and the removal of siblings from the   *)
(* allocatable devices, also after a restart, from sharing a GPU under two *)
(* names.                                                                  *)
(***************************************************************************)
THEOREM NoGpuInTwoHands == Spec => []NoGpuTwice
<1>1. PassthroughInv => NoGpuTwice
  <2> SUFFICES ASSUME PassthroughInv, NEW c \in Running, NEW o \in Running, c # o
               PROVE {Pci(d) : d \in alloc[c]} \cap {Pci(d) : d \in alloc[o]} = {}
    BY DEF NoGpuTwice
  <2>1. c \in Claims /\ o \in Claims /\ Settled(c) /\ Settled(o)
    BY DEF PassthroughInv, EntryInv, Settled, Running
  <2> QED
    BY <2>1 DEF PassthroughInv, ExclusiveInv, GpusOf
<1> QED
  BY <1>1, PassthroughInductive, PTL

(***************************************************************************)
(* While a claim runs, no Configure and no Unconfigure of another claim    *)
(* changes the driver of its GPUs, and those of a virtual machine are      *)
(* bound to vfio-pci.                                                      *)
(***************************************************************************)
THEOREM RunningClaimsKeepDrivers == Spec => RunningKeepsDriver
<1>1. PassthroughInv /\ [Next]_vars => [KeepsDriver]_vars
  BY KeepsDriverStep
<1>2. [][KeepsDriver]_vars => RunningKeepsDriver
  BY PTL DEF KeepsDriver, RunningKeepsDriver
<1> QED
  BY <1>1, <1>2, InitPassthrough, InvStep, PTL DEF Spec

(***************************************************************************)
(* Unprepare drops the entry of a prepared vfio claim only when its GPUs   *)
(* are back under the nvidia driver and allocatable in both forms, however *)
(* many attempts and restarts it took.                                     *)
(***************************************************************************)
THEOREM ReleasesRestoreGpus == Spec => ReleaseRestoresGpu
<1>1. PassthroughInv /\ [Next]_vars => [RestoresGpu]_vars
  BY RestoresGpuStep
<1>2. [][RestoresGpu]_vars => ReleaseRestoresGpu
  BY PTL DEF RestoresGpu, ReleaseRestoresGpu
<1> QED
  BY <1>1, <1>2, InitPassthrough, InvStep, PTL DEF Spec
-----------------------------------------------------------------------------
(* Passthrough implements ClaimService.                                     *)

\* A step leaves everything the abstract specification talks about.
Stutter == ClaimStatus' = ClaimStatus /\ Running' = Running /\ alloc' = alloc
AbstractStep == Service!Next \/ Stutter

\* A write of an entry is a change of the status of that claim.
LEMMA EntryWritten ==
    ASSUME PassthroughTypeOK, claim \in Claims, NEW e \in {"absent", "started", "completed"},
           cp' = [cp EXCEPT ![claim] = e]
    PROVE  ClaimStatus' = [ClaimStatus EXCEPT ![claim] = StatusOf[e]]
<1> HIDE DEF StatusOf
<1> QED
  BY DEF PassthroughTypeOK, ClaimStatus

\* The scheduler allocates devices to a claim without an entry.
LEMMA PodArrivesRefines ==
    ASSUME PassthroughInv, NEW c \in Claims, NEW s \in Allocations, PodArrives(c, s)
    PROVE  AbstractStep
<1> USE DEF PassthroughInv, PassthroughTypeOK, EntryInv
<1>1. ClaimStatus[c] = "unprepared"
  BY DEF PodArrives, ClaimStatus, StatusOf
<1>2. ClaimStatus' = ClaimStatus /\ Running' = Running
  BY DEF PodArrives, ClaimStatus, Running
<1>3. alloc' \in [Claims -> SUBSET Devices]
  BY PassthroughAssumption DEF PodArrives
<1>4. Service!Assign(c)
  BY <1>1, <1>2, <1>3 DEF Service!Assign, PodArrives
<1> QED
  BY <1>4 DEF AbstractStep, Service!Next

\* Writing PrepareStarted begins the preparation, or begins it again.
LEMMA PrepareStartedRefines == PassthroughInv /\ PrepareStarted => AbstractStep
<1> SUFFICES ASSUME PassthroughInv, PrepareStarted PROVE AbstractStep
  OBVIOUS
<1> USE DEF PassthroughInv, PassthroughTypeOK, OperationInv, PrepareStarted, Goto
<1>1. claim \in Claims /\ ClaimStatus[claim] # "prepared"
  BY DEF ClaimStatus, StatusOf
<1>2. ClaimStatus' = [ClaimStatus EXCEPT ![claim] = "preparing"] /\ Running' = Running
  BY <1>1, EntryWritten DEF StatusOf, Running
<1>3. Service!Begin(claim)
  BY <1>1, <1>2 DEF Service!Begin
<1> QED
  BY <1>1, <1>3 DEF AbstractStep, Service!Next

\* Writing PrepareCompleted finishes it: the check for overlaps still holds.
LEMMA PrepareCompleteRefines == PassthroughInv /\ PrepareComplete => AbstractStep
<1> SUFFICES ASSUME PassthroughInv, PrepareComplete PROVE AbstractStep
  OBVIOUS
<1> USE DEF PassthroughInv, PassthroughTypeOK, OperationInv, EntryInv, PrepareComplete,
    Goto
<1>1. claim \in Claims /\ op = "prepare" /\ ClaimStatus[claim] = "preparing"
  BY DEF ClaimStatus, StatusOf
<1>2. ClaimStatus' = [ClaimStatus EXCEPT ![claim] = "prepared"] /\ Running' = Running
  BY <1>1, EntryWritten DEF StatusOf, Running
<1>3. \A o \in Service!Prepared : alloc[o] \cap alloc[claim] = {}
  <2>1. \A o \in Service!Prepared : o \in Claims \ {claim} /\ cp[o] = "completed"
    BY <1>1 DEF Service!Prepared, ClaimStatus, StatusOf
  <2>2. ~Overlaps(claim)
    BY <1>1 DEF PrepareInv
  <2> QED
    BY <2>1, <2>2 DEF Overlaps
<1>4. Service!Finish(claim)
  BY <1>1, <1>2, <1>3 DEF Service!Finish, Service!Prepared
<1> QED
  BY <1>1, <1>4 DEF AbstractStep, Service!Next

\* Removing the entry withdraws a claim whose containers do not run.
LEMMA UnprepareForgetRefines == PassthroughInv /\ UnprepareForget => AbstractStep
<1> SUFFICES ASSUME PassthroughInv, UnprepareForget PROVE AbstractStep
  OBVIOUS
<1> USE DEF PassthroughInv, PassthroughTypeOK, OperationInv, UnprepareForget, Goto
<1>1. claim \in Claims /\ claim \notin Running
  BY DEF Running
<1>2. ClaimStatus' = [ClaimStatus EXCEPT ![claim] = "unprepared"] /\ Running' = Running
  BY <1>1, EntryWritten DEF StatusOf, Running
<1>3. Service!Withdraw(claim)
  BY <1>1, <1>2 DEF Service!Withdraw
<1> QED
  BY <1>1, <1>3 DEF AbstractStep, Service!Next

\* The answer to Prepare starts containers on a prepared claim; after the one to
\* Unprepare the scheduler has the devices back.
LEMMA PublishRefines == PassthroughInv /\ Publish => AbstractStep
<1> SUFFICES ASSUME PassthroughInv, Publish PROVE AbstractStep
  OBVIOUS
<1> USE DEF PassthroughInv, PassthroughTypeOK, OperationInv, EntryInv, Publish
<1>1. claim \in Claims /\ op \in {"prepare", "unprepare"} /\ ClaimStatus' = ClaimStatus
  BY DEF ClaimStatus
<1>2. CASE op = "prepare"
  <2>1. ClaimStatus[claim] = "prepared" /\ alloc' = alloc
    BY <1>1, <1>2 DEF ClaimStatus, StatusOf
  <2>2. Running' = Running \cup {claim}
    BY <1>1, <1>2 DEF Running
  <2>3. Service!Use(claim)
    BY <1>1, <2>1, <2>2 DEF Service!Use
  <2> QED
    BY <1>1, <2>3 DEF AbstractStep, Service!Next
<1>3. CASE op = "unprepare"
  <2>1. ClaimStatus[claim] = "unprepared"
    BY <1>1, <1>3 DEF ClaimStatus, StatusOf
  <2>2. Running' = Running
    BY <1>1, <1>3 DEF Running
  <2>3. /\ alloc' = [alloc EXCEPT ![claim] = {}]
        /\ alloc' \in [Claims -> SUBSET Devices]
    BY <1>1, <1>3, PassthroughAssumption
  <2>4. Service!Assign(claim)
    BY <1>1, <2>1, <2>2, <2>3 DEF Service!Assign
  <2> QED
    BY <1>1, <2>4 DEF AbstractStep, Service!Next
<1> QED
  BY <1>1, <1>2, <1>3

\* Every step of the plugin, the scripts, the kubelet and the scheduler maps to a
\* step of the claim service or to none.
LEMMA StepRefines == PassthroughInv /\ [Next]_vars => AbstractStep
<1> SUFFICES ASSUME PassthroughInv, [Next]_vars PROVE AbstractStep
  OBVIOUS
<1> USE PassthroughAssumption DEF PassthroughInv, PassthroughTypeOK, OperationInv,
    AbstractStep, Stutter, ClaimStatus, Running, Rebinds, api, proc, count
<1>1. CASE Start
  BY <1>1 DEF Start
<1>2. CASE BootPublish
  BY <1>2 DEF BootPublish
<1>3. CASE Crash
  BY <1>3 DEF Crash, Idle
<1>4. CASE StepFails
  BY <1>4 DEF StepFails, Fail, Idle
<1>5. CASE UnbindIgnored
  BY <1>5 DEF UnbindIgnored, Goto
<1>6. ASSUME NEW d \in Devices, AlreadyBound(d) PROVE AbstractStep
  BY <1>6 DEF AlreadyBound, Rebinding, Found, Target
<1>7. ASSUME NEW d \in Devices, RebindRefused(d) PROVE AbstractStep
  BY <1>7 DEF RebindRefused, Fail, Idle
<1>8. ASSUME NEW d \in Devices, ChangeDriver(d) PROVE AbstractStep
  BY <1>8 DEF ChangeDriver, Rebinding, Found, Goto
<1>9. CASE UnbindWithoutLock
  BY <1>9 DEF UnbindWithoutLock, Goto
<1>10. CASE Unbind
  BY <1>10 DEF Unbind, Goto
<1>11. CASE Bind
  BY <1>11 DEF Bind, Target, Loop, Goto
<1>12. CASE BindFails
  BY <1>12 DEF BindFails, Fail, Idle
<1>13. CASE UnbindLockRefused
  BY <1>13 DEF UnbindLockRefused, Fail, Idle
<1>14. CASE PrepareCached
  BY <1>14 DEF PrepareCached, Goto
<1>15. CASE PrepareRefused
  BY <1>15 DEF PrepareRefused, Fail, Idle
<1>16. CASE PrepareStarted
  BY <1>16, PrepareStartedRefines
<1>17. CASE NotAllocatable
  BY <1>17 DEF NotAllocatable, Fail, Idle
<1>18. CASE PrepareDevices
  BY <1>18 DEF PrepareDevices, Goto
<1>19. CASE ConfigureDone
  BY <1>19 DEF ConfigureDone, Goto
<1>20. CASE PrepareComplete
  BY <1>20, PrepareCompleteRefines
<1>21. ASSUME NEW d \in Devices, RemoveSiblingDevices(d) PROVE AbstractStep
  BY <1>21 DEF RemoveSiblingDevices
<1>22. CASE UnprepareNoop
  BY <1>22 DEF UnprepareNoop, Goto
<1>23. CASE UnpreparePartial
  BY <1>23 DEF UnpreparePartial, Goto
<1>24. CASE UnprepareDevices
  BY <1>24 DEF UnprepareDevices, Goto
<1>25. CASE UnconfigureDone
  BY <1>25 DEF UnconfigureDone, Goto
<1>26. CASE DiscoverDone
  BY <1>26 DEF DiscoverDone, Goto
<1>27. CASE UnprepareForget
  BY <1>27, UnprepareForgetRefines
<1>28. ASSUME NEW d \in Devices, DiscoverSiblingAllocatables(d) PROVE AbstractStep
  BY <1>28 DEF DiscoverSiblingAllocatables
<1>29. CASE Publish
  BY <1>29, PublishRefines
<1>30. ASSUME NEW c \in Claims, NEW s \in Allocations, PodArrives(c, s) PROVE AbstractStep
  BY <1>30, PodArrivesRefines
<1>31. ASSUME NEW c \in Claims, PodStops(c) PROVE AbstractStep
  BY <1>31 DEF PodStops, Service!Next, Service!Stop
<1>32. ASSUME NEW c \in Claims, CallPrepare(c) PROVE AbstractStep
  BY <1>32 DEF CallPrepare, Call
<1>33. ASSUME NEW c \in Claims, CallUnprepare(c) PROVE AbstractStep
  BY <1>33 DEF CallUnprepare, Call
<1>34. CASE UNCHANGED vars
  BY <1>34 DEF vars
<1> QED
  BY <1>1, <1>2, <1>3, <1>4, <1>5, <1>6, <1>7, <1>8, <1>9, <1>10, <1>11,
     <1>12, <1>13, <1>14, <1>15, <1>16, <1>17, <1>18, <1>19, <1>20, <1>21,
     <1>22, <1>23, <1>24, <1>25, <1>26, <1>27, <1>28, <1>29, <1>30, <1>31,
     <1>32, <1>33, <1>34 DEF Next, Plugin, Rebind, Prepare, Unprepare,
     Kubelet

(***************************************************************************)
(* Passthrough implements the claim service: neither a half-way rebind nor *)
(* a crash nor a second allocation of the same device shows at its edge.   *)
(***************************************************************************)
THEOREM PassthroughImplementsClaimService == Spec => ImplementsClaimService
<1>1. Init => Service!Init
  <2> SUFFICES ASSUME Init PROVE Service!Init
    OBVIOUS
  <2>1. \A c \in Claims : ClaimStatus[c] = "unprepared"
    BY DEF Init, ClaimStatus, StatusOf
  <2>2. Running = {} /\ Service!Prepared = {}
    BY <2>1 DEF Init, Running, Service!Prepared
  <2>3. Service!TypeOK
    BY <2>1, <2>2 DEF Init, Service!TypeOK, ClaimStatus
  <2> QED
    BY <2>1, <2>2, <2>3 DEF Service!Init, Service!Exclusive
<1>2. PassthroughInv /\ [Next]_vars => [Service!Next]_(Service!vars)
  BY StepRefines DEF AbstractStep, Stutter, Service!vars
<1> QED
  BY <1>1, <1>2, InitPassthrough, InvStep, PTL DEF Spec, ImplementsClaimService,
     Service!Spec
=============================================================================
