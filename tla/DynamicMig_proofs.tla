------------------------- MODULE DynamicMig_proofs --------------------------
(***************************************************************************)
(* The theorems of DynamicMig, for every set of claims, allocations, MIG   *)
(* profiles and GPU instance ids and every number of failed calls and      *)
(* crashes.  Each conjunct of MigInv has a lemma of its own,               *)
(* <Conjunct>Step, with one case per action.                               *)
(***************************************************************************)
EXTENDS DynamicMig, FiniteSetTheorems, WellFoundedInduction, TLAPS

\* NVML gives no GPU instance the id of one that was destroyed.
NoReuse == ~ReuseIds

\* Admin access, which takes no device away from others, is to the full GPU only.
NoMigAdmin == \A c \in Claims : Admin[c] \cap MigSpecs = {}

-----------------------------------------------------------------------------
(* What the GPU offers.                                                     *)

\* A MIG spec is no full GPU, and has a placement.
LEMMA SpecFacts ==
    /\ MigSpecs \subseteq Devs /\ FullGpu \notin MigSpecs
    /\ \A m \in MigSpecs : /\ PlacementStart(m) \in Nat /\ PlacementSize(m) \in Nat \ {0}
                           /\ Region(m) = Slices(m) /\ PlacementStart(m) \in Slices(m)
<1>1. \A m \in MigSpecs : m \in Profiles \X Nat
  BY PartitionsAssumption DEF MigSpecs, Inspected
<1>2. MigSpecs \subseteq Devs /\ FullGpu \notin MigSpecs
  BY <1>1, PartitionsAssumption DEF Devs
<1>3. ASSUME NEW m \in MigSpecs
      PROVE  PlacementStart(m) \in Nat /\ PlacementSize(m) \in Nat \ {0}
  BY <1>1, PartitionsAssumption DEF PlacementStart, PlacementSize
<1>4. ASSUME NEW m \in MigSpecs PROVE PlacementStart(m) \in Slices(m)
  BY <1>3 DEF Slices
<1> QED
  BY <1>2, <1>3, <1>4 DEF Region

\* Two instances of one spec overlap, and the full GPU overlaps with all.
LEMMA OverlapFacts ==
    /\ \A d, e \in Devs : PlacementsOverlap(d, e) <=> PlacementsOverlap(e, d)
    /\ \A m \in MigSpecs : PlacementsOverlap(m, m) /\ PlacementsOverlap(FullGpu, m)
<1>1. \A d, e \in Devs : PlacementsOverlap(d, e) <=> PlacementsOverlap(e, d)
  BY DEF PlacementsOverlap
<1>2. ASSUME NEW m \in MigSpecs
      PROVE  PlacementsOverlap(m, m) /\ PlacementsOverlap(FullGpu, m)
  <2>1. PlacementStart(m) \in Region(m)
    BY SpecFacts
  <2>2. PlacementStart(m) \in Region(FullGpu)
    BY SpecFacts DEF Region
  <2> QED
    BY <2>1, <2>2 DEF PlacementsOverlap
<1> QED
  BY <1>1, <1>2

\* The constants, as the steps use them.
LEMMA ClaimFacts ==
    /\ None \notin Claims /\ None \notin Devs /\ None \notin Ids
    /\ None \notin GpuInstances
    /\ \A c \in Claims : /\ DevsOf[c] \in SUBSET Devs /\ NonAdmin(c) \subseteq DevsOf[c]
                         /\ MigDevsOf(c) \subseteq MigSpecs /\ MigDevsOf(c) \subseteq DevsOf[c]
                         /\ \A d \in DevsOf[c] : d \in MigDevsOf(c) \/ d = FullGpu
    /\ NoIds \in [MigSpecs -> Ids \cup {None}]
  BY MigAssumption DEF MigDevsOf, NonAdmin, Devs, NoIds

\* The loop deleteMigDevice returns to.
LEMMA CallerFacts ==
    /\ op = "obliterate" => Caller = "obliterate"
    /\ op = "disable" => Caller = "idle"
    /\ op \in {"prepare", "unprepare"} =>
        Caller = IF cp[claim] = "completed" THEN "undo" ELSE "roll"
  BY DEF Caller

\* Only GPU instances are visible, under the names of MIG specs.
LEMMA VisibleFacts ==
    ASSUME MigTypeOK
    PROVE  /\ \A i \in Ids : gi[i] # None =>
                /\ gi[i] \in GpuInstances
                /\ gi[i].dev \in MigSpecs /\ gi[i].ci \in BOOLEAN /\ gi[i].by \in Claims
           /\ Visible \subseteq Ids /\ VisibleDevs \subseteq MigSpecs
  BY DEF MigTypeOK, Visible, VisibleDevs, GpuInstances

\* A change of the compute instance leaves the rest of the GPU alone.
LEMMA SetCiFacts ==
    ASSUME MigTypeOK, NEW i \in Ids, gi[i] # None, NEW b \in BOOLEAN,
           gi' = [gi EXCEPT ![i].ci = b]
    PROVE  /\ gi' \in [Ids -> GpuInstances \cup {None}]
           /\ gi'[i] = [dev |-> gi[i].dev, ci |-> b, by |-> gi[i].by]
           /\ gi'[i] # None
           /\ gi'[i].dev = gi[i].dev /\ gi'[i].ci = b /\ gi'[i].by = gi[i].by
           /\ \A j \in Ids : j # i => gi'[j] = gi[j]
<1>1. gi[i] \in GpuInstances /\ gi \in [Ids -> GpuInstances \cup {None}]
  BY VisibleFacts DEF MigTypeOK
<1>2. gi' = [gi EXCEPT ![i] = [gi[i] EXCEPT !.ci = b]]
  OBVIOUS
<1>3. [gi[i] EXCEPT !.ci = b] = [dev |-> gi[i].dev, ci |-> b, by |-> gi[i].by]
  BY <1>1 DEF GpuInstances
<1>4. [dev |-> gi[i].dev, ci |-> b, by |-> gi[i].by] \in GpuInstances
  BY <1>1 DEF GpuInstances
<1> DEFINE r == [dev |-> gi[i].dev, ci |-> b, by |-> gi[i].by]
<1>5. r \in GpuInstances /\ r.dev = gi[i].dev /\ r.ci = b /\ r.by = gi[i].by
  BY <1>4
<1> HIDE DEF r
<1>6. gi' = [gi EXCEPT ![i] = r]
  BY <1>2, <1>3 DEF r
<1>7. gi'[i] = r /\ gi' \in [Ids -> GpuInstances \cup {None}]
  BY <1>1, <1>5, <1>6
<1>8. \A j \in Ids : j # i => gi'[j] = gi[j]
  BY <1>1, <1>6
<1>9. r # None
  BY <1>5, ClaimFacts
<1> QED
  BY <1>5, <1>7, <1>8, <1>9 DEF r

\* FindMigDevBySpec returns a MIG device of that name if there is one.
LEMMA FindFacts ==
    ASSUME NEW d \in VisibleDevs
    PROVE  FindMigDevBySpec(d) \in Visible /\ gi[FindMigDevBySpec(d)].dev = d
  BY DEF VisibleDevs, FindMigDevBySpec

\* Every step writes values of the right type.
LEMMA TypeStep ==
    MigTypeOK /\ OperationInv /\ LoopInv /\ CreateInv /\ TargetInv /\ [Next]_vars => MigTypeOK'
<1> SUFFICES ASSUME MigTypeOK /\ OperationInv /\ LoopInv /\ CreateInv /\ TargetInv, [Next]_vars
    PROVE MigTypeOK'
  OBVIOUS
<1> USE MigAssumption, ClaimFacts, SpecFacts, CallerFacts DEF MigTypeOK,
    OperationInv, LoopInv, CreateInv, TargetInv, Deletes, Cleans, Creates,
    Completed, checkpoint, gpu, proc, count
<1>1. CASE Start
  BY <1>1, VisibleFacts DEF Start
<1>2. CASE Crash
  BY <1>2 DEF Crash, Idle
<1>3. CASE Fail
  BY <1>3 DEF Fail, Return, Idle
<1>4. ASSUME NEW c \in Claims, PodArrives(c) PROVE MigTypeOK'
  BY <1>4 DEF PodArrives
<1>5. ASSUME NEW c \in Claims, PodStops(c) PROVE MigTypeOK'
  BY <1>5 DEF PodStops
<1>6. ASSUME NEW c \in Claims, ClaimDeleted(c) PROVE MigTypeOK'
  BY <1>6 DEF ClaimDeleted
<1>7. ASSUME NEW c \in Claims, CallPrepare(c) PROVE MigTypeOK'
  BY <1>7 DEF CallPrepare, Call
<1>8. ASSUME NEW c \in Claims, CallUnprepare(c) PROVE MigTypeOK'
  BY <1>8 DEF CallUnprepare, Call
<1>9. CASE DeleteModeOff
  BY <1>9 DEF DeleteModeOff, Goto
<1>10. CASE DeleteNotFound
  BY <1>10 DEF DeleteNotFound, Goto
<1>11. CASE DestroyCi
  <2>1. gi' \in [Ids -> GpuInstances \cup {None}]
    BY <1>11, SetCiFacts DEF DestroyCi
  <2> QED
    BY <1>11, <2>1 DEF DestroyCi, Goto
<1>12. CASE DestroyGi
  BY <1>12 DEF DestroyGi, Goto
<1>13. CASE CountPresent
  BY <1>13 DEF CountPresent, Goto
<1>14. CASE SetModeOff
  BY <1>14 DEF SetModeOff, Goto
<1>15. CASE PrepareCached
  BY <1>15 DEF PrepareCached, Return, Idle
<1>16. CASE PrepareRefused
  BY <1>16 DEF PrepareRefused, Return, Idle
<1>17. CASE PrepareRollback
  BY <1>17 DEF PrepareRollback
<1>18. CASE PrepareStarted
  BY <1>18 DEF PrepareStarted
<1>19. CASE PrepareGpu
  BY <1>19 DEF PrepareGpu
<1>20. CASE CreateEnable
  BY <1>20 DEF CreateEnable
<1>21. CASE CreateCi
  <2>1. gi' \in [Ids -> GpuInstances \cup {None}] /\ gi[tgt].dev \in MigSpecs
    BY <1>21, SetCiFacts, VisibleFacts DEF CreateCi
  <2> QED
    BY <1>21, <2>1 DEF CreateCi
<1>22. CASE PrepareComplete
  BY <1>22 DEF PrepareComplete, Return, Idle
<1>23. ASSUME NEW d \in MigSpecs, CreateRefused(d) PROVE MigTypeOK'
  BY <1>23 DEF CreateRefused, Return, Idle
<1>24. ASSUME NEW d \in MigSpecs, NEW i \in Ids, CreateGi(d, i) PROVE MigTypeOK'
  <2>1. claim \in Claims /\ [dev |-> d, ci |-> FALSE, by |-> claim] \in GpuInstances
    BY <1>24 DEF CreateGi, GpuInstances
  <2>2. gi' \in [Ids -> GpuInstances \cup {None}]
    BY <1>24, <2>1 DEF CreateGi
  <2> QED
    BY <1>24, <2>1, <2>2 DEF CreateGi
<1>25. CASE UnprepareNoop
  BY <1>25 DEF UnprepareNoop, Return, Idle
<1>26. CASE UnprepareBegin
  BY <1>26 DEF UnprepareBegin, UnprepareLoop
<1>27. CASE UnprepareLoopDone
  BY <1>27 DEF UnprepareLoopDone, Goto
<1>28. CASE UnprepareForget
  BY <1>28 DEF UnprepareForget, Return, Idle
<1>29. ASSUME NEW d \in MigSpecs, RollSkip(d) PROVE MigTypeOK'
  BY <1>29 DEF RollSkip
<1>30. ASSUME NEW d \in MigSpecs, RollDelete(d) PROVE MigTypeOK'
  BY <1>30, FindFacts, VisibleFacts DEF RollDelete
<1>31. ASSUME NEW d \in MigSpecs, UndoDelete(d) PROVE MigTypeOK'
  BY <1>31 DEF UndoDelete
<1>32. CASE ObliterateDone
  BY <1>32 DEF ObliterateDone
<1>33. ASSUME NEW d \in MigSpecs, ObliterateNext(d) PROVE MigTypeOK'
  BY <1>33, FindFacts, VisibleFacts DEF ObliterateNext
<1>34. CASE UNCHANGED vars
  BY <1>34 DEF vars
<1> QED
  BY <1>1, <1>2, <1>3, <1>4, <1>5, <1>6, <1>7, <1>8, <1>9, <1>10, <1>11,
     <1>12, <1>13, <1>14, <1>15, <1>16, <1>17, <1>18, <1>19, <1>20, <1>21,
     <1>22, <1>23, <1>24, <1>25, <1>26, <1>27, <1>28, <1>29, <1>30, <1>31,
     <1>32, <1>33, <1>34 DEF Next, Kubelet, Delete, Prepare, Unprepare

\* The kubelet does not change its mind on a claim while a call for it is under way.
LEMMA OperationStep ==
    MigTypeOK /\ OperationInv /\ LoopInv /\ [Next]_vars => OperationInv'
<1> SUFFICES ASSUME MigTypeOK /\ OperationInv /\ LoopInv, [Next]_vars
    PROVE OperationInv'
  OBVIOUS
<1> USE MigAssumption, ClaimFacts, SpecFacts, CallerFacts DEF MigTypeOK,
    OperationInv, LoopInv, Deletes, Cleans, Creates, checkpoint, gpu, proc,
    count
<1>1. CASE Start
  BY <1>1 DEF Start
<1>2. CASE Crash
  BY <1>2 DEF Crash, Idle
<1>3. CASE Fail
  BY <1>3 DEF Fail, Return, Idle
<1>4. ASSUME NEW c \in Claims, PodArrives(c) PROVE OperationInv'
  BY <1>4 DEF PodArrives
<1>5. ASSUME NEW c \in Claims, PodStops(c) PROVE OperationInv'
  BY <1>5 DEF PodStops
<1>6. ASSUME NEW c \in Claims, ClaimDeleted(c) PROVE OperationInv'
  BY <1>6 DEF ClaimDeleted
<1>7. ASSUME NEW c \in Claims, CallPrepare(c) PROVE OperationInv'
  BY <1>7 DEF CallPrepare, Call
<1>8. ASSUME NEW c \in Claims, CallUnprepare(c) PROVE OperationInv'
  BY <1>8 DEF CallUnprepare, Call
<1>9. CASE DeleteModeOff
  BY <1>9 DEF DeleteModeOff, Goto
<1>10. CASE DeleteNotFound
  BY <1>10 DEF DeleteNotFound, Goto
<1>11. CASE DestroyCi
  BY <1>11 DEF DestroyCi, Goto
<1>12. CASE DestroyGi
  BY <1>12 DEF DestroyGi, Goto
<1>13. CASE CountPresent
  BY <1>13 DEF CountPresent, Goto
<1>14. CASE SetModeOff
  BY <1>14 DEF SetModeOff, Goto
<1>15. CASE PrepareCached
  BY <1>15 DEF PrepareCached, Return, Idle
<1>16. CASE PrepareRefused
  BY <1>16 DEF PrepareRefused, Return, Idle
<1>17. CASE PrepareRollback
  BY <1>17 DEF PrepareRollback
<1>18. CASE PrepareStarted
  BY <1>18 DEF PrepareStarted
<1>19. CASE PrepareGpu
  BY <1>19 DEF PrepareGpu
<1>20. CASE CreateEnable
  BY <1>20 DEF CreateEnable
<1>21. CASE CreateCi
  BY <1>21 DEF CreateCi
<1>22. CASE PrepareComplete
  BY <1>22 DEF PrepareComplete, Return, Idle
<1>23. ASSUME NEW d \in MigSpecs, CreateRefused(d) PROVE OperationInv'
  BY <1>23 DEF CreateRefused, Return, Idle
<1>24. ASSUME NEW d \in MigSpecs, NEW i \in Ids, CreateGi(d, i) PROVE OperationInv'
  BY <1>24 DEF CreateGi
<1>25. CASE UnprepareNoop
  BY <1>25 DEF UnprepareNoop, Return, Idle
<1>26. CASE UnprepareBegin
  BY <1>26 DEF UnprepareBegin, UnprepareLoop
<1>27. CASE UnprepareLoopDone
  BY <1>27 DEF UnprepareLoopDone, Goto
<1>28. CASE UnprepareForget
  BY <1>28 DEF UnprepareForget, Return, Idle
<1>29. ASSUME NEW d \in MigSpecs, RollSkip(d) PROVE OperationInv'
  BY <1>29 DEF RollSkip
<1>30. ASSUME NEW d \in MigSpecs, RollDelete(d) PROVE OperationInv'
  BY <1>30 DEF RollDelete
<1>31. ASSUME NEW d \in MigSpecs, UndoDelete(d) PROVE OperationInv'
  BY <1>31 DEF UndoDelete
<1>32. CASE ObliterateDone
  BY <1>32 DEF ObliterateDone
<1>33. ASSUME NEW d \in MigSpecs, ObliterateNext(d) PROVE OperationInv'
  BY <1>33 DEF ObliterateNext
<1>34. CASE UNCHANGED vars
  BY <1>34 DEF vars
<1> QED
  BY <1>1, <1>2, <1>3, <1>4, <1>5, <1>6, <1>7, <1>8, <1>9, <1>10, <1>11,
     <1>12, <1>13, <1>14, <1>15, <1>16, <1>17, <1>18, <1>19, <1>20, <1>21,
     <1>22, <1>23, <1>24, <1>25, <1>26, <1>27, <1>28, <1>29, <1>30, <1>31,
     <1>32, <1>33, <1>34 DEF Next, Kubelet, Delete, Prepare, Unprepare

\* A loop goes over the devices of its claim, of an entry that is still there.
LEMMA LoopStep ==
    MigTypeOK /\ OperationInv /\ LoopInv /\ GpuInv /\ CreateInv /\ TargetInv /\ [Next]_vars => LoopInv'
<1> SUFFICES ASSUME MigTypeOK /\ OperationInv /\ LoopInv /\ GpuInv /\ CreateInv /\ TargetInv, [Next]_vars
    PROVE LoopInv'
  OBVIOUS
<1> USE MigAssumption, ClaimFacts, SpecFacts, CallerFacts DEF MigTypeOK,
    OperationInv, LoopInv, GpuInv, CreateInv, TargetInv, Deletes, Cleans,
    Creates, Completed, UsedByCompleted, Visible, VisibleDevs, ExpectedDevs,
    Overlaps, checkpoint, gpu, proc, count
<1>1. CASE Start
  BY <1>1, VisibleFacts DEF Start
<1>2. CASE Crash
  BY <1>2 DEF Crash, Idle
<1>3. CASE Fail
  BY <1>3 DEF Fail, Return, Idle
<1>4. ASSUME NEW c \in Claims, PodArrives(c) PROVE LoopInv'
  BY <1>4 DEF PodArrives
<1>5. ASSUME NEW c \in Claims, PodStops(c) PROVE LoopInv'
  BY <1>5 DEF PodStops
<1>6. ASSUME NEW c \in Claims, ClaimDeleted(c) PROVE LoopInv'
  BY <1>6 DEF ClaimDeleted
<1>7. ASSUME NEW c \in Claims, CallPrepare(c) PROVE LoopInv'
  BY <1>7 DEF CallPrepare, Call
<1>8. ASSUME NEW c \in Claims, CallUnprepare(c) PROVE LoopInv'
  BY <1>8 DEF CallUnprepare, Call
<1>9. CASE DeleteModeOff
  BY <1>9 DEF DeleteModeOff, Goto
<1>10. CASE DeleteNotFound
  BY <1>10 DEF DeleteNotFound, Goto
<1>11. CASE DestroyCi
  BY <1>11, SetCiFacts, VisibleFacts DEF DestroyCi, Goto
<1>12. CASE DestroyGi
  BY <1>12 DEF DestroyGi, Goto
<1>13. CASE CountPresent
  BY <1>13 DEF CountPresent, Goto
<1>14. CASE SetModeOff
  BY <1>14 DEF SetModeOff, Goto
<1>15. CASE PrepareCached
  BY <1>15 DEF PrepareCached, Return, Idle
<1>16. CASE PrepareRefused
  BY <1>16 DEF PrepareRefused, Return, Idle
<1>17. CASE PrepareRollback
  BY <1>17 DEF PrepareRollback
<1>18. CASE PrepareStarted
  BY <1>18 DEF PrepareStarted
<1>19. CASE PrepareGpu
  BY <1>19 DEF PrepareGpu
<1>20. CASE CreateEnable
  BY <1>20 DEF CreateEnable
<1>21. CASE CreateCi
  BY <1>21, SetCiFacts, VisibleFacts DEF CreateCi
<1>22. CASE PrepareComplete
  BY <1>22 DEF PrepareComplete, Return, Idle
<1>23. ASSUME NEW d \in MigSpecs, CreateRefused(d) PROVE LoopInv'
  BY <1>23 DEF CreateRefused, Return, Idle
<1>24. ASSUME NEW d \in MigSpecs, NEW i \in Ids, CreateGi(d, i) PROVE LoopInv'
  BY <1>24 DEF CreateGi
<1>25. CASE UnprepareNoop
  BY <1>25 DEF UnprepareNoop, Return, Idle
<1>26. CASE UnprepareBegin
  BY <1>26 DEF UnprepareBegin, UnprepareLoop
<1>27. CASE UnprepareLoopDone
  BY <1>27 DEF UnprepareLoopDone, Goto
<1>28. CASE UnprepareForget
  BY <1>28 DEF UnprepareForget, Return, Idle
<1>29. ASSUME NEW d \in MigSpecs, RollSkip(d) PROVE LoopInv'
  BY <1>29 DEF RollSkip
<1>30. ASSUME NEW d \in MigSpecs, RollDelete(d) PROVE LoopInv'
  BY <1>30, FindFacts, VisibleFacts DEF RollDelete
<1>31. ASSUME NEW d \in MigSpecs, UndoDelete(d) PROVE LoopInv'
  BY <1>31 DEF UndoDelete
<1>32. CASE ObliterateDone
  BY <1>32 DEF ObliterateDone
<1>33. ASSUME NEW d \in MigSpecs, ObliterateNext(d) PROVE LoopInv'
  BY <1>33, FindFacts, VisibleFacts DEF ObliterateNext
<1>34. CASE UNCHANGED vars
  BY <1>34 DEF vars
<1> QED
  BY <1>1, <1>2, <1>3, <1>4, <1>5, <1>6, <1>7, <1>8, <1>9, <1>10, <1>11,
     <1>12, <1>13, <1>14, <1>15, <1>16, <1>17, <1>18, <1>19, <1>20, <1>21,
     <1>22, <1>23, <1>24, <1>25, <1>26, <1>27, <1>28, <1>29, <1>30, <1>31,
     <1>32, <1>33, <1>34 DEF Next, Kubelet, Delete, Prepare, Unprepare

\* NVML creates no instance that overlaps another.
LEMMA GpuStep ==
    MigTypeOK /\ OperationInv /\ LoopInv /\ GpuInv /\ CreateInv /\ TargetInv /\ [Next]_vars => GpuInv'
<1> SUFFICES ASSUME MigTypeOK /\ OperationInv /\ LoopInv /\ GpuInv /\ CreateInv /\ TargetInv, [Next]_vars
    PROVE GpuInv'
  OBVIOUS
<1> USE MigAssumption, ClaimFacts, SpecFacts, CallerFacts, OverlapFacts,
    VisibleFacts DEF MigTypeOK, OperationInv, LoopInv, GpuInv, CreateInv,
    TargetInv, Deletes, Cleans, Creates, Completed, UsedByCompleted,
    checkpoint, gpu, proc, count
<1>1. CASE Start
  BY <1>1, VisibleFacts DEF Start
<1>2. CASE Crash
  BY <1>2 DEF Crash, Idle
<1>3. CASE Fail
  BY <1>3 DEF Fail, Return, Idle
<1>4. ASSUME NEW c \in Claims, PodArrives(c) PROVE GpuInv'
  BY <1>4 DEF PodArrives
<1>5. ASSUME NEW c \in Claims, PodStops(c) PROVE GpuInv'
  BY <1>5 DEF PodStops
<1>6. ASSUME NEW c \in Claims, ClaimDeleted(c) PROVE GpuInv'
  BY <1>6 DEF ClaimDeleted
<1>7. ASSUME NEW c \in Claims, CallPrepare(c) PROVE GpuInv'
  BY <1>7 DEF CallPrepare, Call
<1>8. ASSUME NEW c \in Claims, CallUnprepare(c) PROVE GpuInv'
  BY <1>8 DEF CallUnprepare, Call
<1>9. CASE DeleteModeOff
  BY <1>9 DEF DeleteModeOff, Goto
<1>10. CASE DeleteNotFound
  BY <1>10 DEF DeleteNotFound, Goto
<1>11. CASE DestroyCi
  BY <1>11, SetCiFacts, VisibleFacts DEF DestroyCi, Goto
<1>12. CASE DestroyGi
  BY <1>12 DEF DestroyGi, Goto
<1>13. CASE CountPresent
  BY <1>13 DEF CountPresent, Goto
<1>14. CASE SetModeOff
  BY <1>14 DEF SetModeOff, Goto
<1>15. CASE PrepareCached
  BY <1>15 DEF PrepareCached, Return, Idle
<1>16. CASE PrepareRefused
  BY <1>16 DEF PrepareRefused, Return, Idle
<1>17. CASE PrepareRollback
  BY <1>17 DEF PrepareRollback
<1>18. CASE PrepareStarted
  BY <1>18 DEF PrepareStarted
<1>19. CASE PrepareGpu
  BY <1>19 DEF PrepareGpu
<1>20. CASE CreateEnable
  BY <1>20 DEF CreateEnable
<1>21. CASE CreateCi
  BY <1>21, SetCiFacts, VisibleFacts DEF CreateCi
<1>22. CASE PrepareComplete
  BY <1>22 DEF PrepareComplete, Return, Idle
<1>23. ASSUME NEW d \in MigSpecs, CreateRefused(d) PROVE GpuInv'
  BY <1>23 DEF CreateRefused, Return, Idle
<1>24. ASSUME NEW d \in MigSpecs, NEW i \in Ids, CreateGi(d, i) PROVE GpuInv'
  BY <1>24 DEF CreateGi, Blocked, FreeIds
<1>25. CASE UnprepareNoop
  BY <1>25 DEF UnprepareNoop, Return, Idle
<1>26. CASE UnprepareBegin
  BY <1>26 DEF UnprepareBegin, UnprepareLoop
<1>27. CASE UnprepareLoopDone
  BY <1>27 DEF UnprepareLoopDone, Goto
<1>28. CASE UnprepareForget
  BY <1>28 DEF UnprepareForget, Return, Idle
<1>29. ASSUME NEW d \in MigSpecs, RollSkip(d) PROVE GpuInv'
  BY <1>29 DEF RollSkip
<1>30. ASSUME NEW d \in MigSpecs, RollDelete(d) PROVE GpuInv'
  BY <1>30, FindFacts, VisibleFacts DEF RollDelete
<1>31. ASSUME NEW d \in MigSpecs, UndoDelete(d) PROVE GpuInv'
  BY <1>31 DEF UndoDelete
<1>32. CASE ObliterateDone
  BY <1>32 DEF ObliterateDone
<1>33. ASSUME NEW d \in MigSpecs, ObliterateNext(d) PROVE GpuInv'
  BY <1>33, FindFacts, VisibleFacts DEF ObliterateNext
<1>34. CASE UNCHANGED vars
  BY <1>34 DEF vars
<1> QED
  BY <1>1, <1>2, <1>3, <1>4, <1>5, <1>6, <1>7, <1>8, <1>9, <1>10, <1>11,
     <1>12, <1>13, <1>14, <1>15, <1>16, <1>17, <1>18, <1>19, <1>20, <1>21,
     <1>22, <1>23, <1>24, <1>25, <1>26, <1>27, <1>28, <1>29, <1>30, <1>31,
     <1>32, <1>33, <1>34 DEF Next, Kubelet, Delete, Prepare, Unprepare

\* Nobody interferes with the instances of a Prepare under way.
LEMMA CreateStep ==
    MigTypeOK /\ OperationInv /\ LoopInv /\ GpuInv /\ CreateInv /\ TargetInv /\ [Next]_vars => CreateInv'
<1> SUFFICES ASSUME MigTypeOK /\ OperationInv /\ LoopInv /\ GpuInv /\ CreateInv /\ TargetInv, [Next]_vars
    PROVE CreateInv'
  OBVIOUS
<1> USE MigAssumption, ClaimFacts, SpecFacts, CallerFacts DEF MigTypeOK,
    OperationInv, LoopInv, GpuInv, CreateInv, TargetInv, Deletes, Cleans,
    Creates, Completed, UsedByCompleted, checkpoint, gpu, proc, count
<1>1. CASE Start
  BY <1>1, VisibleFacts DEF Start
<1>2. CASE Crash
  BY <1>2 DEF Crash, Idle
<1>3. CASE Fail
  BY <1>3 DEF Fail, Return, Idle
<1>4. ASSUME NEW c \in Claims, PodArrives(c) PROVE CreateInv'
  BY <1>4 DEF PodArrives
<1>5. ASSUME NEW c \in Claims, PodStops(c) PROVE CreateInv'
  BY <1>5 DEF PodStops
<1>6. ASSUME NEW c \in Claims, ClaimDeleted(c) PROVE CreateInv'
  BY <1>6 DEF ClaimDeleted
<1>7. ASSUME NEW c \in Claims, CallPrepare(c) PROVE CreateInv'
  BY <1>7 DEF CallPrepare, Call
<1>8. ASSUME NEW c \in Claims, CallUnprepare(c) PROVE CreateInv'
  BY <1>8 DEF CallUnprepare, Call
<1>9. CASE DeleteModeOff
  BY <1>9 DEF DeleteModeOff, Goto
<1>10. CASE DeleteNotFound
  BY <1>10 DEF DeleteNotFound, Goto
<1>11. CASE DestroyCi
  BY <1>11, SetCiFacts, VisibleFacts DEF DestroyCi, Goto
<1>12. CASE DestroyGi
  BY <1>12 DEF DestroyGi, Goto
<1>13. CASE CountPresent
  BY <1>13 DEF CountPresent, Goto
<1>14. CASE SetModeOff
  BY <1>14 DEF SetModeOff, Goto
<1>15. CASE PrepareCached
  BY <1>15 DEF PrepareCached, Return, Idle
<1>16. CASE PrepareRefused
  BY <1>16 DEF PrepareRefused, Return, Idle
<1>17. CASE PrepareRollback
  BY <1>17 DEF PrepareRollback
<1>18. CASE PrepareStarted
  BY <1>18 DEF PrepareStarted
<1>19. CASE PrepareGpu
  BY <1>19 DEF PrepareGpu
<1>20. CASE CreateEnable
  BY <1>20 DEF CreateEnable
<1>21. CASE CreateCi
  <2> DEFINE e == gi[tgt].dev
  <2>1. /\ gi'[tgt] = [dev |-> e, ci |-> TRUE, by |-> claim]
        /\ \A j \in Ids : j # tgt => gi'[j] = gi[j]
    <3>1. /\ tgt \in Ids /\ gi[tgt] # None /\ gi[tgt].by = claim
          /\ gi' = [gi EXCEPT ![tgt].ci = TRUE]
      BY <1>21 DEF CreateCi
    <3> HIDE DEF MigTypeOK, OperationInv, LoopInv, GpuInv, CreateInv, TargetInv
    <3> QED
      BY <3>1, SetCiFacts
  <2>2. e \in MigSpecs /\ todo' = todo \ {e} /\ claim' = claim /\ pc' = "create"
    BY <1>21, VisibleFacts DEF CreateCi
  <2>3. made'[e] = tgt /\ \A d \in MigSpecs : d # e => made'[d] = made[d]
    BY <1>21, <2>2 DEF CreateCi
  <2>4. ASSUME NEW d \in MigDevsOf(claim) \ todo, d # e
        PROVE  made'[d] \in Ids /\ gi'[made'[d]] = [dev |-> d, ci |-> TRUE, by |-> claim]
    <3>1. /\ made[d] \in Ids /\ made'[d] = made[d]
          /\ gi[made[d]] = [dev |-> d, ci |-> TRUE, by |-> claim]
      BY <1>21, <2>3, <2>4 DEF CreateCi
    <3>2. made[d] # tgt
      BY <1>21, <3>1 DEF CreateCi
    <3> QED
      BY <2>1, <3>1, <3>2
  <2> HIDE DEF e
  <2>5. tgt \in Ids
    BY <1>21 DEF CreateCi
  <2> QED
    BY <2>1, <2>2, <2>3, <2>4, <2>5
<1>22. CASE PrepareComplete
  BY <1>22 DEF PrepareComplete, Return, Idle
<1>23. ASSUME NEW d \in MigSpecs, CreateRefused(d) PROVE CreateInv'
  BY <1>23 DEF CreateRefused, Return, Idle
<1>24. ASSUME NEW d \in MigSpecs, NEW i \in Ids, CreateGi(d, i) PROVE CreateInv'
  <2> DEFINE r == [dev |-> d, ci |-> FALSE, by |-> claim]
  <2>1. r \in GpuInstances /\ r.dev = d /\ r.ci = FALSE /\ r.by = claim
    BY <1>24 DEF CreateGi, GpuInstances
  <2>2. gi'[i] = r /\ gi[i] = None /\ \A j \in Ids : j # i => gi'[j] = gi[j]
    BY <1>24 DEF CreateGi, FreeIds
  <2>3. /\ pc = "create" /\ pc' = "createci" /\ claim' = claim /\ todo' = todo
        /\ made' = made /\ tgt' = i /\ d \in todo
    BY <1>24 DEF CreateGi
  <2>4. ASSUME NEW e \in MigDevsOf(claim) \ todo
        PROVE  made[e] \in Ids /\ gi'[made[e]] = [dev |-> e, ci |-> TRUE, by |-> claim]
    <3>1. /\ made[e] \in Ids
          /\ gi[made[e]] = [dev |-> e, ci |-> TRUE, by |-> claim]
      BY <2>3, <2>4
    <3>2. [dev |-> e, ci |-> TRUE, by |-> claim] \in GpuInstances
      BY <2>1, <2>4 DEF GpuInstances
    <3>3. made[e] # i
      BY <2>2, <3>1, <3>2
    <3> QED
      BY <2>2, <3>1, <3>3
  <2>5. r # None
    BY <2>1
  <2> HIDE DEF r
  <2> QED
    BY <2>1, <2>2, <2>3, <2>4, <2>5
<1>25. CASE UnprepareNoop
  BY <1>25 DEF UnprepareNoop, Return, Idle
<1>26. CASE UnprepareBegin
  BY <1>26 DEF UnprepareBegin, UnprepareLoop
<1>27. CASE UnprepareLoopDone
  BY <1>27 DEF UnprepareLoopDone, Goto
<1>28. CASE UnprepareForget
  BY <1>28 DEF UnprepareForget, Return, Idle
<1>29. ASSUME NEW d \in MigSpecs, RollSkip(d) PROVE CreateInv'
  BY <1>29 DEF RollSkip
<1>30. ASSUME NEW d \in MigSpecs, RollDelete(d) PROVE CreateInv'
  BY <1>30, FindFacts, VisibleFacts DEF RollDelete
<1>31. ASSUME NEW d \in MigSpecs, UndoDelete(d) PROVE CreateInv'
  BY <1>31 DEF UndoDelete
<1>32. CASE ObliterateDone
  BY <1>32 DEF ObliterateDone
<1>33. ASSUME NEW d \in MigSpecs, ObliterateNext(d) PROVE CreateInv'
  BY <1>33, FindFacts, VisibleFacts DEF ObliterateNext
<1>34. CASE UNCHANGED vars
  BY <1>34 DEF vars
<1> QED
  BY <1>1, <1>2, <1>3, <1>4, <1>5, <1>6, <1>7, <1>8, <1>9, <1>10, <1>11,
     <1>12, <1>13, <1>14, <1>15, <1>16, <1>17, <1>18, <1>19, <1>20, <1>21,
     <1>22, <1>23, <1>24, <1>25, <1>26, <1>27, <1>28, <1>29, <1>30, <1>31,
     <1>32, <1>33, <1>34 DEF Next, Kubelet, Delete, Prepare, Unprepare

\* What is about to be deleted was chosen with care.
LEMMA TargetStep ==
    MigTypeOK /\ OperationInv /\ LoopInv /\ GpuInv /\ CreateInv /\ TargetInv /\ [Next]_vars => TargetInv'
<1> SUFFICES ASSUME MigTypeOK /\ OperationInv /\ LoopInv /\ GpuInv /\ CreateInv /\ TargetInv, [Next]_vars
    PROVE TargetInv'
  OBVIOUS
<1> USE MigAssumption, ClaimFacts, SpecFacts, CallerFacts DEF MigTypeOK,
    OperationInv, LoopInv, GpuInv, CreateInv, TargetInv, Deletes, Cleans,
    Creates, Completed, UsedByCompleted, ExpectedDevs, Visible, VisibleDevs,
    checkpoint, gpu, proc, count
<1>1. CASE Start
  BY <1>1, VisibleFacts DEF Start
<1>2. CASE Crash
  BY <1>2 DEF Crash, Idle
<1>3. CASE Fail
  BY <1>3 DEF Fail, Return, Idle
<1>4. ASSUME NEW c \in Claims, PodArrives(c) PROVE TargetInv'
  BY <1>4 DEF PodArrives
<1>5. ASSUME NEW c \in Claims, PodStops(c) PROVE TargetInv'
  BY <1>5 DEF PodStops
<1>6. ASSUME NEW c \in Claims, ClaimDeleted(c) PROVE TargetInv'
  BY <1>6 DEF ClaimDeleted
<1>7. ASSUME NEW c \in Claims, CallPrepare(c) PROVE TargetInv'
  BY <1>7 DEF CallPrepare, Call
<1>8. ASSUME NEW c \in Claims, CallUnprepare(c) PROVE TargetInv'
  BY <1>8 DEF CallUnprepare, Call
<1>9. CASE DeleteModeOff
  BY <1>9 DEF DeleteModeOff, Goto
<1>10. CASE DeleteNotFound
  BY <1>10 DEF DeleteNotFound, Goto
<1>11. CASE DestroyCi
  <2>1. /\ gi'[tgt] # None /\ gi'[tgt].dev = gi[tgt].dev /\ ~gi'[tgt].ci
        /\ tgt \in Ids /\ gi[tgt] # None
    BY <1>11, SetCiFacts DEF DestroyCi
  <2>2. /\ pc = "destroyci" /\ pc' = "destroygi" /\ op' = op /\ claim' = claim
        /\ tgt' = tgt /\ cp' = cp /\ conc' = conc
    BY <1>11 DEF DestroyCi, Goto
  <2> QED
    BY <2>1, <2>2
<1>12. CASE DestroyGi
  BY <1>12 DEF DestroyGi, Goto
<1>13. CASE CountPresent
  BY <1>13 DEF CountPresent, Goto
<1>14. CASE SetModeOff
  BY <1>14 DEF SetModeOff, Goto
<1>15. CASE PrepareCached
  BY <1>15 DEF PrepareCached, Return, Idle
<1>16. CASE PrepareRefused
  BY <1>16 DEF PrepareRefused, Return, Idle
<1>17. CASE PrepareRollback
  BY <1>17 DEF PrepareRollback
<1>18. CASE PrepareStarted
  BY <1>18 DEF PrepareStarted
<1>19. CASE PrepareGpu
  BY <1>19 DEF PrepareGpu
<1>20. CASE CreateEnable
  BY <1>20 DEF CreateEnable
<1>21. CASE CreateCi
  BY <1>21, SetCiFacts, VisibleFacts DEF CreateCi
<1>22. CASE PrepareComplete
  <2>1. \A d \in MigDevsOf(claim) : made[d] \in Ids
    BY <1>22 DEF PrepareComplete
  <2>2. /\ claim \in Claims /\ conc'[claim] = made /\ pc' = "idle"
        /\ \A c \in Claims : c # claim => conc'[c] = conc[c] /\ cp'[c] = cp[c]
    BY <1>22 DEF PrepareComplete, Return
  <2> QED
    BY <2>1, <2>2
<1>23. ASSUME NEW d \in MigSpecs, CreateRefused(d) PROVE TargetInv'
  BY <1>23 DEF CreateRefused, Return, Idle
<1>24. ASSUME NEW d \in MigSpecs, NEW i \in Ids, CreateGi(d, i) PROVE TargetInv'
  BY <1>24 DEF CreateGi
<1>25. CASE UnprepareNoop
  BY <1>25 DEF UnprepareNoop, Return, Idle
<1>26. CASE UnprepareBegin
  BY <1>26 DEF UnprepareBegin, UnprepareLoop
<1>27. CASE UnprepareLoopDone
  BY <1>27 DEF UnprepareLoopDone, Goto
<1>28. CASE UnprepareForget
  BY <1>28 DEF UnprepareForget, Return, Idle
<1>29. ASSUME NEW d \in MigSpecs, RollSkip(d) PROVE TargetInv'
  BY <1>29 DEF RollSkip
<1>30. ASSUME NEW d \in MigSpecs, RollDelete(d) PROVE TargetInv'
  BY <1>30, FindFacts, VisibleFacts DEF RollDelete
<1>31. ASSUME NEW d \in MigSpecs, UndoDelete(d) PROVE TargetInv'
  BY <1>31 DEF UndoDelete
<1>32. CASE ObliterateDone
  BY <1>32 DEF ObliterateDone
<1>33. ASSUME NEW d \in MigSpecs, ObliterateNext(d) PROVE TargetInv'
  BY <1>33, FindFacts, VisibleFacts DEF ObliterateNext
<1>34. CASE UNCHANGED vars
  BY <1>34 DEF vars
<1> QED
  BY <1>1, <1>2, <1>3, <1>4, <1>5, <1>6, <1>7, <1>8, <1>9, <1>10, <1>11,
     <1>12, <1>13, <1>14, <1>15, <1>16, <1>17, <1>18, <1>19, <1>20, <1>21,
     <1>22, <1>23, <1>24, <1>25, <1>26, <1>27, <1>28, <1>29, <1>30, <1>31,
     <1>32, <1>33, <1>34 DEF Next, Kubelet, Delete, Prepare, Unprepare

\* What createMigDevice has left behind for a device the current Prepare is done with.
LEMMA MadeFacts ==
    ASSUME OperationInv, CreateInv, pc \in Creates, NEW d \in MigDevsOf(claim) \ todo
    PROVE  /\ made[d] \in Ids /\ gi[made[d]] # None
           /\ gi[made[d]].dev = d /\ gi[made[d]].ci /\ gi[made[d]].by = claim
<1> DEFINE r == [dev |-> d, ci |-> TRUE, by |-> claim]
<1>1. claim \in Claims
  BY DEF OperationInv, Creates
<1>2. r \in GpuInstances /\ r.dev = d /\ r.ci /\ r.by = claim
  BY <1>1, ClaimFacts DEF GpuInstances
<1>3. made[d] \in Ids /\ gi[made[d]] = r
  BY DEF CreateInv
<1> HIDE DEF r
<1>4. r # None
  BY <1>2, ClaimFacts
<1> QED
  BY <1>2, <1>3, <1>4

\* A claim that passed the overlap check shares no MIG device with a completed one.
LEMMA DisjointFacts ==
    ASSUME NoMigAdmin, MigTypeOK, claim \in Claims, ~Overlaps(claim)
    PROVE  \A c \in Completed : c # claim => MigDevsOf(c) \cap MigDevsOf(claim) = {}
  BY DEF NoMigAdmin, Overlaps, Completed, NonAdmin, MigDevsOf

\* The overlap check still holds when the claim completes.
LEMMA TwiceStep ==
    MigTypeOK /\ OperationInv /\ LoopInv /\ NoDeviceTwice /\ [Next]_vars => NoDeviceTwice'
<1> SUFFICES ASSUME MigTypeOK /\ OperationInv /\ LoopInv /\ NoDeviceTwice, [Next]_vars
    PROVE NoDeviceTwice'
  OBVIOUS
<1> USE MigAssumption, ClaimFacts, SpecFacts, CallerFacts DEF MigTypeOK,
    OperationInv, LoopInv, NoDeviceTwice, Completed, Overlaps, Deletes,
    Cleans, Creates, checkpoint, gpu, proc, count
<1>1. CASE Start
  BY <1>1 DEF Start
<1>2. CASE Crash
  BY <1>2 DEF Crash, Idle
<1>3. CASE Fail
  BY <1>3 DEF Fail, Return, Idle
<1>4. ASSUME NEW c \in Claims, PodArrives(c) PROVE NoDeviceTwice'
  BY <1>4 DEF PodArrives
<1>5. ASSUME NEW c \in Claims, PodStops(c) PROVE NoDeviceTwice'
  BY <1>5 DEF PodStops
<1>6. ASSUME NEW c \in Claims, ClaimDeleted(c) PROVE NoDeviceTwice'
  BY <1>6 DEF ClaimDeleted
<1>7. ASSUME NEW c \in Claims, CallPrepare(c) PROVE NoDeviceTwice'
  BY <1>7 DEF CallPrepare, Call
<1>8. ASSUME NEW c \in Claims, CallUnprepare(c) PROVE NoDeviceTwice'
  BY <1>8 DEF CallUnprepare, Call
<1>9. CASE DeleteModeOff
  BY <1>9 DEF DeleteModeOff, Goto
<1>10. CASE DeleteNotFound
  BY <1>10 DEF DeleteNotFound, Goto
<1>11. CASE DestroyCi
  BY <1>11 DEF DestroyCi, Goto
<1>12. CASE DestroyGi
  BY <1>12 DEF DestroyGi, Goto
<1>13. CASE CountPresent
  BY <1>13 DEF CountPresent, Goto
<1>14. CASE SetModeOff
  BY <1>14 DEF SetModeOff, Goto
<1>15. CASE PrepareCached
  BY <1>15 DEF PrepareCached, Return, Idle
<1>16. CASE PrepareRefused
  BY <1>16 DEF PrepareRefused, Return, Idle
<1>17. CASE PrepareRollback
  BY <1>17 DEF PrepareRollback
<1>18. CASE PrepareStarted
  BY <1>18 DEF PrepareStarted
<1>19. CASE PrepareGpu
  BY <1>19 DEF PrepareGpu
<1>20. CASE CreateEnable
  BY <1>20 DEF CreateEnable
<1>21. CASE CreateCi
  BY <1>21 DEF CreateCi
<1>22. CASE PrepareComplete
  BY <1>22 DEF PrepareComplete, Return, Idle
<1>23. ASSUME NEW d \in MigSpecs, CreateRefused(d) PROVE NoDeviceTwice'
  BY <1>23 DEF CreateRefused, Return, Idle
<1>24. ASSUME NEW d \in MigSpecs, NEW i \in Ids, CreateGi(d, i) PROVE NoDeviceTwice'
  BY <1>24 DEF CreateGi
<1>25. CASE UnprepareNoop
  BY <1>25 DEF UnprepareNoop, Return, Idle
<1>26. CASE UnprepareBegin
  BY <1>26 DEF UnprepareBegin, UnprepareLoop
<1>27. CASE UnprepareLoopDone
  BY <1>27 DEF UnprepareLoopDone, Goto
<1>28. CASE UnprepareForget
  BY <1>28 DEF UnprepareForget, Return, Idle
<1>29. ASSUME NEW d \in MigSpecs, RollSkip(d) PROVE NoDeviceTwice'
  BY <1>29 DEF RollSkip
<1>30. ASSUME NEW d \in MigSpecs, RollDelete(d) PROVE NoDeviceTwice'
  BY <1>30 DEF RollDelete
<1>31. ASSUME NEW d \in MigSpecs, UndoDelete(d) PROVE NoDeviceTwice'
  BY <1>31 DEF UndoDelete
<1>32. CASE ObliterateDone
  BY <1>32 DEF ObliterateDone
<1>33. ASSUME NEW d \in MigSpecs, ObliterateNext(d) PROVE NoDeviceTwice'
  BY <1>33 DEF ObliterateNext
<1>34. CASE UNCHANGED vars
  BY <1>34 DEF vars
<1> QED
  BY <1>1, <1>2, <1>3, <1>4, <1>5, <1>6, <1>7, <1>8, <1>9, <1>10, <1>11,
     <1>12, <1>13, <1>14, <1>15, <1>16, <1>17, <1>18, <1>19, <1>20, <1>21,
     <1>22, <1>23, <1>24, <1>25, <1>26, <1>27, <1>28, <1>29, <1>30, <1>31,
     <1>32, <1>33, <1>34 DEF Next, Kubelet, Delete, Prepare, Unprepare

\* Of the instances on record, only those of the claim under release are deleted.
LEMMA RecordStep ==
    NoReuse /\ MigTypeOK /\ OperationInv /\ LoopInv /\ GpuInv /\ CreateInv /\ TargetInv /\ RecordInv /\ [Next]_vars => RecordInv'
<1> SUFFICES ASSUME NoReuse /\ MigTypeOK /\ OperationInv /\ LoopInv /\ GpuInv /\ CreateInv /\ TargetInv /\ RecordInv, [Next]_vars
    PROVE RecordInv'
  OBVIOUS
<1> USE MigAssumption, ClaimFacts, SpecFacts, CallerFacts DEF NoReuse,
    MigTypeOK, OperationInv, LoopInv, GpuInv, CreateInv, TargetInv, Deletes,
    Cleans, Creates, Completed, UsedByCompleted, RecordInv,
    PreparedDevicesExist, checkpoint, gpu, proc, count
<1>1. CASE Start
  BY <1>1, VisibleFacts DEF Start
<1>2. CASE Crash
  BY <1>2 DEF Crash, Idle
<1>3. CASE Fail
  BY <1>3 DEF Fail, Return, Idle
<1>4. ASSUME NEW c \in Claims, PodArrives(c) PROVE RecordInv'
  BY <1>4 DEF PodArrives
<1>5. ASSUME NEW c \in Claims, PodStops(c) PROVE RecordInv'
  BY <1>5 DEF PodStops
<1>6. ASSUME NEW c \in Claims, ClaimDeleted(c) PROVE RecordInv'
  BY <1>6 DEF ClaimDeleted
<1>7. ASSUME NEW c \in Claims, CallPrepare(c) PROVE RecordInv'
  BY <1>7 DEF CallPrepare, Call
<1>8. ASSUME NEW c \in Claims, CallUnprepare(c) PROVE RecordInv'
  BY <1>8 DEF CallUnprepare, Call
<1>9. CASE DeleteModeOff
  BY <1>9 DEF DeleteModeOff, Goto
<1>10. CASE DeleteNotFound
  BY <1>10 DEF DeleteNotFound, Goto
<1>11. CASE DestroyCi
  BY <1>11, SetCiFacts, VisibleFacts DEF DestroyCi, Goto
<1>12. CASE DestroyGi
  BY <1>12 DEF DestroyGi, Goto
<1>13. CASE CountPresent
  BY <1>13 DEF CountPresent, Goto
<1>14. CASE SetModeOff
  BY <1>14 DEF SetModeOff, Goto
<1>15. CASE PrepareCached
  BY <1>15 DEF PrepareCached, Return, Idle
<1>16. CASE PrepareRefused
  BY <1>16 DEF PrepareRefused, Return, Idle
<1>17. CASE PrepareRollback
  BY <1>17 DEF PrepareRollback
<1>18. CASE PrepareStarted
  BY <1>18 DEF PrepareStarted
<1>19. CASE PrepareGpu
  BY <1>19 DEF PrepareGpu
<1>20. CASE CreateEnable
  BY <1>20 DEF CreateEnable
<1>21. CASE CreateCi
  BY <1>21, SetCiFacts, VisibleFacts DEF CreateCi
<1>22. CASE PrepareComplete
  <2>1. /\ claim \in Claims /\ conc'[claim] = made /\ gi' = gi /\ used' = used
        /\ \A c \in Claims : c # claim =>
            conc'[c] = conc[c] /\ cp'[c] = cp[c] /\ kub'[c] = kub[c]
    BY <1>22 DEF PrepareComplete, Return
  <2>2. ASSUME NEW d \in MigDevsOf(claim)
        PROVE  /\ made[d] \in used /\ gi[made[d]].dev = d /\ gi[made[d]].by = claim
               /\ gi[made[d]] = [dev |-> d, ci |-> TRUE, by |-> claim]
    <3>1. made[d] \in Ids /\ gi[made[d]] = [dev |-> d, ci |-> TRUE, by |-> claim]
      BY <1>22 DEF PrepareComplete
    <3>2. gi[made[d]] # None /\ gi[made[d]].dev = d /\ gi[made[d]].by = claim
      BY <1>22, MadeFacts DEF PrepareComplete
    <3> QED
      BY <3>1, <3>2
  <2>3. ASSUME NEW c \in Completed', NEW d \in MigDevsOf(c), c # claim
        PROVE  /\ c \in Completed /\ conc'[c][d] = conc[c][d]
               /\ kub'[c] = kub[c] /\ cp'[c] = cp[c]
    BY <2>1, <2>3
  <2>4. PreparedDevicesExist'
    BY <2>1, <2>2, <2>3
  <2>5. ASSUME NEW c \in Completed', NEW d \in MigDevsOf(c)
        PROVE  /\ conc'[c][d] \in used'
               /\ gi'[conc'[c][d]] # None =>
                    gi'[conc'[c][d]].dev = d /\ gi'[conc'[c][d]].by = c
    <3>1. CASE c = claim
      BY <2>1, <2>2, <3>1
    <3>2. CASE c # claim
      BY <2>1, <2>3, <3>2
    <3> QED
      BY <3>1, <3>2
  <2> QED
    BY <2>4, <2>5
<1>23. ASSUME NEW d \in MigSpecs, CreateRefused(d) PROVE RecordInv'
  BY <1>23 DEF CreateRefused, Return, Idle
<1>24. ASSUME NEW d \in MigSpecs, NEW i \in Ids, CreateGi(d, i) PROVE RecordInv'
  BY <1>24 DEF CreateGi, FreeIds
<1>25. CASE UnprepareNoop
  BY <1>25 DEF UnprepareNoop, Return, Idle
<1>26. CASE UnprepareBegin
  BY <1>26 DEF UnprepareBegin, UnprepareLoop
<1>27. CASE UnprepareLoopDone
  BY <1>27 DEF UnprepareLoopDone, Goto
<1>28. CASE UnprepareForget
  BY <1>28 DEF UnprepareForget, Return, Idle
<1>29. ASSUME NEW d \in MigSpecs, RollSkip(d) PROVE RecordInv'
  BY <1>29 DEF RollSkip
<1>30. ASSUME NEW d \in MigSpecs, RollDelete(d) PROVE RecordInv'
  BY <1>30, FindFacts, VisibleFacts DEF RollDelete
<1>31. ASSUME NEW d \in MigSpecs, UndoDelete(d) PROVE RecordInv'
  BY <1>31 DEF UndoDelete
<1>32. CASE ObliterateDone
  BY <1>32 DEF ObliterateDone
<1>33. ASSUME NEW d \in MigSpecs, ObliterateNext(d) PROVE RecordInv'
  BY <1>33, FindFacts, VisibleFacts DEF ObliterateNext
<1>34. CASE UNCHANGED vars
  BY <1>34 DEF vars
<1> QED
  BY <1>1, <1>2, <1>3, <1>4, <1>5, <1>6, <1>7, <1>8, <1>9, <1>10, <1>11,
     <1>12, <1>13, <1>14, <1>15, <1>16, <1>17, <1>18, <1>19, <1>20, <1>21,
     <1>22, <1>23, <1>24, <1>25, <1>26, <1>27, <1>28, <1>29, <1>30, <1>31,
     <1>32, <1>33, <1>34 DEF Next, Kubelet, Delete, Prepare, Unprepare

\* An entry is dropped when nothing of the claim is left that no other claim names.
LEMMA TrackStep ==
    NoMigAdmin /\ MigTypeOK /\ OperationInv /\ LoopInv /\ GpuInv /\ CreateInv /\ TargetInv /\ TrackInv /\ [Next]_vars => TrackInv'
<1> SUFFICES ASSUME NoMigAdmin /\ MigTypeOK /\ OperationInv /\ LoopInv /\ GpuInv /\ CreateInv /\ TargetInv /\ TrackInv, [Next]_vars
    PROVE TrackInv'
  OBVIOUS
<1> USE MigAssumption, ClaimFacts, SpecFacts, CallerFacts, OverlapFacts,
    VisibleFacts DEF MigTypeOK, OperationInv, LoopInv, GpuInv, CreateInv,
    TargetInv, Deletes, Cleans, Creates, Completed, UsedByCompleted,
    TrackInv, MigDeviceTracked, Visible, checkpoint, gpu, proc, count
<1>1. CASE Start
  BY <1>1, VisibleFacts DEF Start
<1>2. CASE Crash
  BY <1>2 DEF Crash, Idle
<1>3. CASE Fail
  BY <1>3 DEF Fail, Return, Idle
<1>4. ASSUME NEW c \in Claims, PodArrives(c) PROVE TrackInv'
  BY <1>4 DEF PodArrives
<1>5. ASSUME NEW c \in Claims, PodStops(c) PROVE TrackInv'
  BY <1>5 DEF PodStops
<1>6. ASSUME NEW c \in Claims, ClaimDeleted(c) PROVE TrackInv'
  BY <1>6 DEF ClaimDeleted
<1>7. ASSUME NEW c \in Claims, CallPrepare(c) PROVE TrackInv'
  BY <1>7 DEF CallPrepare, Call
<1>8. ASSUME NEW c \in Claims, CallUnprepare(c) PROVE TrackInv'
  BY <1>8 DEF CallUnprepare, Call
<1>9. CASE DeleteModeOff
  BY <1>9 DEF DeleteModeOff, Goto
<1>10. CASE DeleteNotFound
  BY <1>10 DEF DeleteNotFound, Goto
<1>11. CASE DestroyCi
  BY <1>11, SetCiFacts, VisibleFacts DEF DestroyCi, Goto
<1>12. CASE DestroyGi
  BY <1>12 DEF DestroyGi, Goto
<1>13. CASE CountPresent
  BY <1>13 DEF CountPresent, Goto
<1>14. CASE SetModeOff
  BY <1>14 DEF SetModeOff, Goto
<1>15. CASE PrepareCached
  BY <1>15 DEF PrepareCached, Return, Idle
<1>16. CASE PrepareRefused
  BY <1>16 DEF PrepareRefused, Return, Idle
<1>17. CASE PrepareRollback
  BY <1>17 DEF PrepareRollback
<1>18. CASE PrepareStarted
  BY <1>18 DEF PrepareStarted
<1>19. CASE PrepareGpu
  BY <1>19 DEF PrepareGpu
<1>20. CASE CreateEnable
  BY <1>20 DEF CreateEnable
<1>21. CASE CreateCi
  <2>1. /\ gi'[tgt].dev = gi[tgt].dev /\ tgt \in Ids
        /\ gi[tgt].dev \in MigDevsOf(claim) /\ cp[claim] = "started" /\ claim \in Claims
        /\ \A j \in Ids : j # tgt => gi'[j] = gi[j]
    BY <1>21, SetCiFacts DEF CreateCi
  <2>2. \A c \in Completed : c # claim => MigDevsOf(c) \cap MigDevsOf(claim) = {}
    BY <1>21, DisjointFacts DEF CreateCi
  <2>3. claim \notin Completed
    BY <2>1
  <2>4. cp' = cp /\ conc' = conc /\ pc' = "create"
    BY <1>21 DEF CreateCi
  <2>5. \A i \in Visible' : i = tgt \/ (i \in Visible /\ gi'[i] = gi[i])
    BY <2>1
  <2>6. MigDeviceTracked'
    BY <2>1, <2>4, <2>5
  <2>7. ASSUME NEW c \in Completed', NEW i \in Visible', gi'[i].dev \in MigDevsOf(c)
        PROVE  conc'[c][gi'[i].dev] = i
    <3>1. c \in Completed /\ c # claim
      BY <2>3, <2>4
    <3>2. i # tgt
      BY <2>1, <2>2, <2>7, <3>1
    <3> QED
      BY <2>4, <2>5, <2>7, <3>1, <3>2
  <2> QED
    BY <2>4, <2>6, <2>7
<1>22. CASE PrepareComplete
  <2>1. /\ claim \in Claims /\ conc'[claim] = made /\ gi' = gi /\ op' = "none"
        /\ cp'[claim] = "completed"
        /\ \A c \in Claims : c # claim => conc'[c] = conc[c] /\ cp'[c] = cp[c]
    BY <1>22 DEF PrepareComplete, Return, Idle
  <2>2. ASSUME NEW i \in Visible, gi[i].dev \in MigDevsOf(claim)
        PROVE  made[gi[i].dev] = i
    <3> DEFINE d == gi[i].dev
    <3>1. made[d] \in Ids /\ gi[made[d]] = [dev |-> d, ci |-> TRUE, by |-> claim]
      BY <1>22, <2>2 DEF PrepareComplete
    <3>2. d \in MigSpecs
      BY <2>1, <2>2
    <3>3. gi[made[d]] # None /\ gi[made[d]].dev = d
      BY <1>22, <2>2, MadeFacts DEF PrepareComplete
    <3> HIDE DEF d
    <3>4. i \in Ids /\ gi[i] # None /\ gi[i].dev = d
      BY <2>2 DEF d
    <3>5. made[d] = i
      BY <3>1, <3>2, <3>3, <3>4
    <3> QED
      BY <3>5 DEF d
  <2>3. MigDeviceTracked'
    <3> SUFFICES ASSUME NEW i \in Visible
                 PROVE  \E c \in Claims : cp'[c] # "absent" /\ gi[i].dev \in DevsOf[c]
      BY <2>1
    <3>1. PICK c \in Claims : cp[c] # "absent" /\ gi[i].dev \in DevsOf[c]
      OBVIOUS
    <3>2. cp'[c] # "absent"
      BY <2>1, <3>1
    <3> QED
      BY <3>1, <3>2
  <2>4. ASSUME NEW c \in Completed', NEW i \in Visible', gi'[i].dev \in MigDevsOf(c)
        PROVE  conc'[c][gi'[i].dev] = i
    <3>1. CASE c = claim
      BY <2>1, <2>2, <2>4, <3>1
    <3>2. CASE c # claim
      <4>1. c \in Completed /\ i \in Visible /\ conc'[c] = conc[c]
        BY <2>1, <2>4, <3>2
      <4> QED
        BY <2>1, <2>4, <4>1
    <3> QED
      BY <3>1, <3>2
  <2> QED
    BY <2>1, <2>3, <2>4
<1>23. ASSUME NEW d \in MigSpecs, CreateRefused(d) PROVE TrackInv'
  BY <1>23 DEF CreateRefused, Return, Idle
<1>24. ASSUME NEW d \in MigSpecs, NEW i \in Ids, CreateGi(d, i) PROVE TrackInv'
  BY <1>24 DEF CreateGi, FreeIds
<1>25. CASE UnprepareNoop
  BY <1>25 DEF UnprepareNoop, Return, Idle
<1>26. CASE UnprepareBegin
  BY <1>26 DEF UnprepareBegin, UnprepareLoop
<1>27. CASE UnprepareLoopDone
  BY <1>27 DEF UnprepareLoopDone, Goto
<1>28. CASE UnprepareForget
  <2>1. /\ claim \in Claims /\ gi' = gi /\ op' = "none" /\ todo = {}
        /\ cp'[claim] = "absent"
        /\ \A c \in Claims : c # claim => conc'[c] = conc[c] /\ cp'[c] = cp[c]
    BY <1>28 DEF UnprepareForget, Return, Idle
  <2>2. ASSUME NEW i \in Visible
        PROVE \E c \in Claims : c # claim /\ cp[c] # "absent" /\ gi[i].dev \in DevsOf[c]
    <3>1. CASE gi[i].dev \in MigDevsOf(claim)
      <4>1. cp[claim] = "started" /\ UsedByCompleted(gi[i].dev)
        BY <1>28, <2>1, <3>1 DEF UnprepareForget
      <4> QED
        BY <4>1
    <3>2. CASE gi[i].dev \notin MigDevsOf(claim)
      <4>1. gi[i].dev \in MigSpecs
        OBVIOUS
      <4>2. gi[i].dev \notin DevsOf[claim]
        BY <2>1, <3>2, <4>1
      <4> QED
        BY <4>2
    <3> QED
      BY <3>1, <3>2
  <2> QED
    BY SMTT(30), <2>1, <2>2
<1>29. ASSUME NEW d \in MigSpecs, RollSkip(d) PROVE TrackInv'
  <2>1. UsedByCompleted(d) \/ \A i \in Visible : gi[i].dev # d
    BY <1>29 DEF RollSkip, VisibleDevs
  <2>2. /\ pc = "roll" /\ todo' = todo \ {d} /\ pc' = "roll" /\ gi' = gi /\ cp' = cp
        /\ conc' = conc /\ claim' = claim /\ op' = op /\ tgt' = tgt
    BY <1>29 DEF RollSkip
  <2> QED
    BY <2>1, <2>2
<1>30. ASSUME NEW d \in MigSpecs, RollDelete(d) PROVE TrackInv'
  BY <1>30, FindFacts, VisibleFacts DEF RollDelete
<1>31. ASSUME NEW d \in MigSpecs, UndoDelete(d) PROVE TrackInv'
  BY <1>31 DEF UndoDelete
<1>32. CASE ObliterateDone
  BY <1>32 DEF ObliterateDone
<1>33. ASSUME NEW d \in MigSpecs, ObliterateNext(d) PROVE TrackInv'
  BY <1>33, FindFacts, VisibleFacts DEF ObliterateNext
<1>34. CASE UNCHANGED vars
  BY <1>34 DEF vars
<1> QED
  BY <1>1, <1>2, <1>3, <1>4, <1>5, <1>6, <1>7, <1>8, <1>9, <1>10, <1>11,
     <1>12, <1>13, <1>14, <1>15, <1>16, <1>17, <1>18, <1>19, <1>20, <1>21,
     <1>22, <1>23, <1>24, <1>25, <1>26, <1>27, <1>28, <1>29, <1>30, <1>31,
     <1>32, <1>33, <1>34 DEF Next, Kubelet, Delete, Prepare, Unprepare

-----------------------------------------------------------------------------
(* The counters of the GPU.                                                 *)

\* No memory slice is consumed by two of the devices the counters allow.
LEMMA SliceOnce ==
    ASSUME NEW S \in SUBSET Devs, CountersAllow(S), NEW d \in S, NEW e \in S, d # e,
           NEW i \in PartConsumesCounters(d).mem
    PROVE  i \notin PartConsumesCounters(e).mem /\ i \in PartSharedCounterSet.mem
<1> DEFINE Users == {x \in S : i \in PartConsumesCounters(x).mem}
<1>1. /\ i \in PartSharedCounterSet.mem
      /\ Cardinality({x \in S : i \in PartConsumesCounters(x).mem}) = 1
  BY DEF CountersAllow
<1>2. IsFiniteSet(Users)
  <2>1. Users \in SUBSET Devs
    OBVIOUS
  <2> QED
    BY <2>1, FiniteAssumption, FS_Subset
<1>3. \E x : Users = {x}
  BY <1>1, <1>2, FS_Singleton
<1>4. d \in Users
  OBVIOUS
<1>5. e \notin Users
  BY <1>3, <1>4
<1> QED
  BY <1>1, <1>5

\* The devices the counters allow together do not overlap on the GPU.
LEMMA CountersKeepApart ==
    ASSUME NEW S \in SUBSET Devs, CountersAllow(S), NEW d \in S, NEW e \in S, d # e
    PROVE  ~PlacementsOverlap(d, e)
<1>1. \A m \in MigSpecs : PartConsumesCounters(m).mem = Slices(m) /\ Region(m) = Slices(m)
  BY SpecFacts DEF PartConsumesCounters, AddCountersForMemSlices, Slices
<1>2. PartConsumesCounters(FullGpu).mem = PartSharedCounterSet.mem
  BY DEF PartConsumesCounters, PartSharedCounterSet
<1>3. ASSUME NEW m \in MigSpecs, m \in S, FullGpu \in S PROVE FALSE
  <2>1. PlacementStart(m) \in PartConsumesCounters(m).mem
    BY <1>1, SpecFacts
  <2>2. m # FullGpu
    BY SpecFacts
  <2> QED
    BY <1>2, <1>3, <2>1, <2>2, SliceOnce
<1>4. d \in MigSpecs /\ e \in MigSpecs
  BY <1>3 DEF Devs
<1> QED
  BY <1>1, <1>4, SliceOnce DEF PlacementsOverlap

-----------------------------------------------------------------------------
(* What the counters allow of an unused GPU.                                *)

\* The sum over one device: the fold's recursive function exists on its two sets.
LEMMA SumOfOne ==
    ASSUME NEW d, NEW k, PartConsumesCounters(d).caps[k] \in Nat
    PROVE  MapThenSumSet(LAMBDA x : PartConsumesCounters(x).caps[k], {d}) = PartConsumesCounters(d).caps[k]
<1> DEFINE v == PartConsumesCounters(d).caps[k]
           It(g, s) == IF s = {} THEN 0
                       ELSE LET x == CHOOSE y \in s : TRUE
                            IN  PartConsumesCounters(x).caps[k] + g[s \ {x}]
           it == CHOOSE g : g = [s \in SUBSET {d} |-> It(g, s)]
<1>1. MapThenSumSet(LAMBDA x : PartConsumesCounters(x).caps[k], {d}) = it[{d}]
  BY DEF MapThenSumSet, MapThenFoldSet
<1>2. \A g : It(g, {}) = 0 /\ (g[{}] = 0 => It(g, {d}) = v)
  <2>1. (CHOOSE x \in {d} : TRUE) = d
    OBVIOUS
  <2>2. {d} \ {d} = {}
    OBVIOUS
  <2> QED
    BY <2>1, <2>2
<1> DEFINE h == [s \in SUBSET {d} |-> IF s = {} THEN 0 ELSE v]
<1>3. h = [s \in SUBSET {d} |-> It(h, s)]
  <2>1. \A s \in SUBSET {d} : s = {} \/ s = {d}
    OBVIOUS
  <2>2. h[{}] = 0 /\ h[{d}] = v
    OBVIOUS
  <2>3. \A s \in SUBSET {d} : h[s] = It(h, s)
    <3> HIDE DEF h, It, v
    <3> QED
    BY <1>2, <2>1, <2>2
  <2> HIDE DEF It
  <2> QED
    BY <2>3
<1>4. it = [s \in SUBSET {d} |-> It(it, s)]
  <2> HIDE DEF It, h
  <2> QED
    BY <1>3
<1>5. it[{}] = 0 /\ it[{d}] = It(it, {d})
  <2> HIDE DEF it
  <2>1. it[{}] = It(it, {}) /\ it[{d}] = It(it, {d})
    <3> HIDE DEF It
    <3> QED
      BY <1>4
  <2> QED
    BY <1>2, <2>1
<1> QED
  <2> HIDE DEF it, It
  <2> QED
    BY <1>1, <1>2, <1>5

\* A finite set of numbers that has a member has a greatest one: of those that
\* have none a smallest would have a member to spare.
LEMMA FiniteMax ==
    ASSUME NEW I \in SUBSET Nat, IsFiniteSet(I), I # {}
    PROVE  Max(I) \in I /\ \A i \in I : i <= Max(I)
<1> DEFINE HasMax(T) == \E m \in T : \A i \in T : m >= i
           Bad == {T \in SUBSET I : T # {} /\ ~HasMax(T)}
<1>1. HasMax(I)
  <2>1. SUFFICES ASSUME Bad # {} PROVE FALSE
    OBVIOUS
  <2>2. IsWellFoundedOn(StrictSubsetOrdering(I), SUBSET I)
    BY FS_StrictSubsetOrderingWellFounded, FS_FiniteSubsetsOfFinite
  <2>3. PICK T \in Bad : \A U \in Bad : ~(<<U, T>> \in StrictSubsetOrdering(I))
    <3>1. Bad \subseteq SUBSET I
      OBVIOUS
    <3> HIDE DEF Bad
    <3> QED
      BY <2>1, <2>2, <3>1, WFMin
  <2>4. PICK t \in T : TRUE
    OBVIOUS
  <2>5. T \ {t} \notin Bad
    <3>1. <<T \ {t}, T>> \in StrictSubsetOrdering(I)
      BY <2>4 DEF StrictSubsetOrdering
    <3> QED
      BY <2>3, <3>1
  <2>6. T \in SUBSET Nat /\ ~HasMax(T)
    OBVIOUS
  <2>7. CASE T \ {t} = {}
    <3>1. T = {t} /\ t \in Nat
      BY <2>4, <2>6, <2>7
    <3> QED
      BY <2>6, <3>1
  <2>8. CASE HasMax(T \ {t})
    <3>1. PICK m \in T \ {t} : \A i \in T \ {t} : m >= i
      BY <2>8
    <3>2. m \in Nat /\ t \in Nat /\ m \in T
      BY <2>4, <2>6, <3>1
    <3>3. CASE m >= t
      BY <2>6, <3>1, <3>2, <3>3
    <3>4. CASE t > m
      <4>1. \A i \in T : t >= i
        BY <2>6, <3>1, <3>2, <3>4
      <4> QED
        BY <2>4, <2>6, <4>1
    <3> QED
      BY <3>2, <3>3, <3>4
  <2> QED
    BY <2>5, <2>7, <2>8
<1>2. Max(I) \in I /\ \A i \in I : Max(I) >= i
  BY <1>1 DEF Max
<1> QED
  BY <1>2

\* setMax and the count of memory slices are the greatest values of the specs.
LEMMA CapacityFacts ==
    ASSUME MigSpecs # {}
    PROVE  /\ MemSliceCount \in Nat \ {0}
           /\ \A k \in Dims : MaxCapacities[k] \in Nat
           /\ \A m \in MigSpecs :
                 /\ PlacementStart(m) \in Nat /\ PlacementSize(m) \in Nat \ {0}
                 /\ PlacementSize(m) <= MemSliceCount
                 /\ \A k \in Dims : /\ PartCapacities(m)[k] \in Nat
                                    /\ PartCapacities(m)[k] <= MaxCapacities[k]
<1>1. IsFiniteSet(MigSpecs)
  BY FiniteAssumption, FS_Subset DEF Devs
<1>2. \A m \in MigSpecs : /\ PlacementStart(m) \in Nat /\ PlacementSize(m) \in Nat \ {0}
                          /\ \A k \in Dims : PartCapacities(m)[k] \in Nat
  BY PartitionsAssumption DEF MigSpecs, Inspected, PlacementStart, PlacementSize, PartCapacities
<1>3. ASSUME NEW f \in [MigSpecs -> Nat]
      PROVE  LET I == {f[m] : m \in MigSpecs}
             IN  Max(I) \in I /\ \A m \in MigSpecs : f[m] <= Max(I)
  <2> DEFINE I == {f[m] : m \in MigSpecs}
  <2>1. f \in Surjection(MigSpecs, I)
    BY DEF Surjection
  <2>2. IsFiniteSet(I) /\ I \in SUBSET Nat /\ I # {}
    <3>1. IsFiniteSet(I)
      <4> HIDE DEF I
      <4> QED
        BY <1>1, <2>1, FS_Surjection
    <3> QED
      BY <3>1
  <2>3. Max(I) \in I /\ \A i \in I : i <= Max(I)
    <3> HIDE DEF I
    <3> QED
      BY <2>2, FiniteMax
  <2> QED
    BY <2>3
<1>4. MemSliceCount \in Nat \ {0} /\ \A m \in MigSpecs : PlacementSize(m) <= MemSliceCount
  <2> DEFINE f == [m \in MigSpecs |-> PlacementSize(m)]
  <2>1. f \in [MigSpecs -> Nat] /\ \A m \in MigSpecs : f[m] = PlacementSize(m)
    BY <1>2
  <2>2. MemSliceCount = Max({f[m] : m \in MigSpecs})
    <3>1. {f[m] : m \in MigSpecs} = {PlacementSize(m) : m \in MigSpecs}
      BY <2>1
    <3> QED
      BY <3>1 DEF MemSliceCount
  <2> HIDE DEF f
  <2> QED
    BY <1>2, <1>3, <2>1, <2>2
<1>5. ASSUME NEW k \in Dims
      PROVE  /\ MaxCapacities[k] \in Nat
             /\ \A m \in MigSpecs : PartCapacities(m)[k] <= MaxCapacities[k]
  <2> DEFINE f == [m \in MigSpecs |-> PartCapacities(m)[k]]
  <2>1. f \in [MigSpecs -> Nat] /\ \A m \in MigSpecs : f[m] = PartCapacities(m)[k]
    BY <1>2
  <2>2. MaxCapacities[k] = Max({f[m] : m \in MigSpecs})
    <3>1. {f[m] : m \in MigSpecs} = {PartCapacities(m)[k] : m \in MigSpecs}
      BY <2>1
    <3> QED
      BY <3>1 DEF MaxCapacities, SetMax
  <2> HIDE DEF f
  <2> QED
    BY <1>2, <1>3, <2>1, <2>2
<1> QED
  BY <1>2, <1>4, <1>5

\* No placement reaches beyond the slices of the largest.
PlacementsFit == \A m \in MigSpecs : PlacementStart(m) + PlacementSize(m) <= MemSliceCount

\* Each device alone stays within the counters, a partition and the full GPU
\* together overdraw the slices of the partition.
LEMMA CountersAnnounced ==
    ASSUME MigSpecs # {}, PlacementsFit
    PROVE  /\ \A d \in Devs : CountersAllow({d})
           /\ \A m \in MigSpecs : ~CountersAllow({m, FullGpu})
<1> DEFINE all == PartSharedCounterSet
           needs(d) == PartConsumesCounters(d)
<1>1. all.caps = MaxCapacities /\ all.mem = 0 .. (MemSliceCount - 1)
  BY CapacityFacts DEF PartSharedCounterSet, AddCountersForMemSlices
<1>2. needs(FullGpu) = all
  BY DEF PartConsumesCounters, PartSharedCounterSet
<1>3. ASSUME NEW m \in MigSpecs
      PROVE  /\ m # FullGpu
             /\ \A k \in Dims : needs(m).caps[k] \in Nat /\ needs(m).caps[k] <= all.caps[k]
             /\ needs(m).mem \subseteq all.mem /\ needs(m).mem # {}
  <2>1. m # FullGpu
    BY PartitionsAssumption DEF MigSpecs, Inspected
  <2>2. /\ needs(m).caps = PartCapacities(m)
        /\ needs(m).mem = PlacementStart(m) .. (PlacementStart(m) + PlacementSize(m) - 1)
    BY <2>1 DEF PartConsumesCounters, AddCountersForMemSlices
  <2>3. \A k \in Dims : needs(m).caps[k] \in Nat /\ needs(m).caps[k] <= all.caps[k]
    <3> HIDE DEF needs, all
    <3> QED
      BY <1>1, <2>2, CapacityFacts
  <2>4. needs(m).mem \subseteq all.mem /\ needs(m).mem # {}
    <3>1. /\ PlacementStart(m) \in Nat /\ PlacementSize(m) \in Nat \ {0} /\ MemSliceCount \in Nat
          /\ PlacementStart(m) + PlacementSize(m) <= MemSliceCount
      BY CapacityFacts DEF PlacementsFit
    <3> HIDE DEF needs, all
    <3> QED
      BY <1>1, <2>2, <3>1
  <2> QED
    BY <2>1, <2>3, <2>4
<1>4. ASSUME NEW d \in Devs PROVE CountersAllow({d})
  <2>1. /\ \A k \in Dims : needs(d).caps[k] \in Nat /\ needs(d).caps[k] <= all.caps[k]
        /\ needs(d).mem \subseteq all.mem
    <3>1. CASE d = FullGpu
      <4>1. \A k \in Dims : all.caps[k] \in Nat
        BY <1>1, CapacityFacts
      <4> HIDE DEF needs, all
      <4> QED
        BY <1>2, <3>1, <4>1
    <3>2. CASE d \in MigSpecs
      <4> HIDE DEF needs, all
      <4> QED
        BY <1>3, <3>2
    <3> QED
      BY <3>1, <3>2 DEF Devs
  <2>2. ASSUME NEW k \in Dims
        PROVE  MapThenSumSet(LAMBDA x : PartConsumesCounters(x).caps[k], {d}) <= all.caps[k]
    <3>1. MapThenSumSet(LAMBDA x : PartConsumesCounters(x).caps[k], {d}) = needs(d).caps[k]
      BY <2>1, SumOfOne
    <3> QED
      BY <2>1, <3>1
  <2>3. ASSUME NEW i \in UNION {needs(e).mem : e \in {d}}
        PROVE  i \in all.mem /\ Cardinality({e \in {d} : i \in needs(e).mem}) = 1
    <3>1. i \in needs(d).mem
      OBVIOUS
    <3>2. {e \in {d} : i \in needs(e).mem} = {d}
      BY <3>1
    <3> QED
      BY <2>1, <3>1, <3>2, FS_Singleton
  <2> QED
    BY <2>2, <2>3 DEF CountersAllow
<1>5. ASSUME NEW m \in MigSpecs PROVE ~CountersAllow({m, FullGpu})
  <2>1. PICK i \in needs(m).mem : i \in all.mem
    BY <1>3
  <2>2. {d \in {m, FullGpu} : i \in needs(d).mem} = {m, FullGpu}
    BY <1>2, <2>1
  <2>3. Cardinality({m, FullGpu}) # 1
    <3>1. IsFiniteSet({m, FullGpu})
      <4>1. IsFiniteSet({m}) /\ {m, FullGpu} = {m} \cup {FullGpu}
        BY FS_Singleton
      <4> QED
        BY <4>1, FS_AddElement
    <3>2. ~\E x : {m, FullGpu} = {x}
      BY <1>3
    <3> QED
      BY <3>1, <3>2, FS_Singleton
  <2>4. i \in UNION {needs(d).mem : d \in {m, FullGpu}}
    BY <2>1
  <2> QED
    BY <2>2, <2>3, <2>4 DEF CountersAllow
<1> QED
  BY <1>4, <1>5

-----------------------------------------------------------------------------
(* Live claims.                                                             *)

\* The first part of LiveClaimsFit, about what claims were allocated.
LiveDevicesApart ==
    \A c, o \in Live : c # o =>
        \A d \in NonAdmin(c), e \in NonAdmin(o) : ~PlacementsOverlap(d, e)

\* Only PodArrives makes a claim live, and it goes by the counters.
LEMMA FitStep ==
    MigTypeOK /\ OperationInv /\ LiveDevicesApart /\ [Next]_vars => LiveDevicesApart'
<1> SUFFICES ASSUME MigTypeOK /\ OperationInv /\ LiveDevicesApart, [Next]_vars
    PROVE LiveDevicesApart'
  OBVIOUS
<1> USE ClaimFacts DEF MigTypeOK, OperationInv, LiveDevicesApart, Live,
    checkpoint, gpu, proc, count
<1>1. CASE Start
  BY <1>1 DEF Start
<1>2. CASE Crash
  BY <1>2 DEF Crash, Idle
<1>3. CASE Fail
  BY <1>3 DEF Fail, Return, Idle
<1>4. ASSUME NEW c \in Claims, PodArrives(c) PROVE LiveDevicesApart'
  <2> DEFINE S == Held \cup NonAdmin(c)
  <2>1. S \in SUBSET Devs /\ CountersAllow(S) /\ NonAdmin(c) \cap Held = {}
    BY <1>4 DEF PodArrives, Held, Live
  <2>2. \A a \in Live' : a = c \/ (a \in Live /\ NonAdmin(a) \subseteq Held)
    BY <1>4 DEF PodArrives, Live, Held
  <2>3. ASSUME NEW e \in Held, NEW d \in NonAdmin(c)
        PROVE  ~PlacementsOverlap(d, e) /\ ~PlacementsOverlap(e, d)
    <3>1. d \in S /\ e \in S /\ d # e
      BY <2>1
    <3> HIDE DEF S
    <3> QED
      BY <2>1, <3>1, CountersKeepApart
  <2> HIDE DEF S
  <2> QED
    BY <2>2, <2>3
<1>5. ASSUME NEW c \in Claims, PodStops(c) PROVE LiveDevicesApart'
  BY <1>5 DEF PodStops
<1>6. ASSUME NEW c \in Claims, ClaimDeleted(c) PROVE LiveDevicesApart'
  BY <1>6 DEF ClaimDeleted
<1>7. ASSUME NEW c \in Claims, CallPrepare(c) PROVE LiveDevicesApart'
  BY <1>7 DEF CallPrepare, Call
<1>8. ASSUME NEW c \in Claims, CallUnprepare(c) PROVE LiveDevicesApart'
  BY <1>8 DEF CallUnprepare, Call
<1>9. CASE DeleteModeOff
  BY <1>9 DEF DeleteModeOff, Goto
<1>10. CASE DeleteNotFound
  BY <1>10 DEF DeleteNotFound, Goto
<1>11. CASE DestroyCi
  BY <1>11 DEF DestroyCi, Goto
<1>12. CASE DestroyGi
  BY <1>12 DEF DestroyGi, Goto
<1>13. CASE CountPresent
  BY <1>13 DEF CountPresent, Goto
<1>14. CASE SetModeOff
  BY <1>14 DEF SetModeOff, Goto
<1>15. CASE PrepareCached
  BY <1>15 DEF PrepareCached, Return, Idle
<1>16. CASE PrepareRefused
  BY <1>16 DEF PrepareRefused, Return, Idle
<1>17. CASE PrepareRollback
  BY <1>17 DEF PrepareRollback
<1>18. CASE PrepareStarted
  BY <1>18 DEF PrepareStarted
<1>19. CASE PrepareGpu
  BY <1>19 DEF PrepareGpu
<1>20. CASE CreateEnable
  BY <1>20 DEF CreateEnable
<1>21. CASE CreateCi
  BY <1>21 DEF CreateCi
<1>22. CASE PrepareComplete
  BY <1>22 DEF PrepareComplete, Return, Idle
<1>23. ASSUME NEW d \in MigSpecs, CreateRefused(d) PROVE LiveDevicesApart'
  BY <1>23 DEF CreateRefused, Return, Idle
<1>24. ASSUME NEW d \in MigSpecs, NEW i \in Ids, CreateGi(d, i) PROVE LiveDevicesApart'
  BY <1>24 DEF CreateGi
<1>25. CASE UnprepareNoop
  BY <1>25 DEF UnprepareNoop, Return, Idle
<1>26. CASE UnprepareBegin
  BY <1>26 DEF UnprepareBegin, UnprepareLoop
<1>27. CASE UnprepareLoopDone
  BY <1>27 DEF UnprepareLoopDone, Goto
<1>28. CASE UnprepareForget
  BY <1>28 DEF UnprepareForget, Return, Idle
<1>29. ASSUME NEW d \in MigSpecs, RollSkip(d) PROVE LiveDevicesApart'
  BY <1>29 DEF RollSkip
<1>30. ASSUME NEW d \in MigSpecs, RollDelete(d) PROVE LiveDevicesApart'
  BY <1>30 DEF RollDelete
<1>31. ASSUME NEW d \in MigSpecs, UndoDelete(d) PROVE LiveDevicesApart'
  BY <1>31 DEF UndoDelete
<1>32. CASE ObliterateDone
  BY <1>32 DEF ObliterateDone
<1>33. ASSUME NEW d \in MigSpecs, ObliterateNext(d) PROVE LiveDevicesApart'
  BY <1>33 DEF ObliterateNext
<1>34. CASE UNCHANGED vars
  BY <1>34 DEF vars
<1> QED
  BY <1>1, <1>2, <1>3, <1>4, <1>5, <1>6, <1>7, <1>8, <1>9, <1>10, <1>11,
     <1>12, <1>13, <1>14, <1>15, <1>16, <1>17, <1>18, <1>19, <1>20, <1>21,
     <1>22, <1>23, <1>24, <1>25, <1>26, <1>27, <1>28, <1>29, <1>30, <1>31,
     <1>32, <1>33, <1>34 DEF Next, Kubelet, Delete, Prepare, Unprepare

\* Nothing is created before the plugin starts.
LEMMA InitMig == Init => MigInv
<1> SUFFICES ASSUME Init PROVE MigInv
  OBVIOUS
<1> USE MigAssumption, ClaimFacts DEF Init, Deletes, Cleans, Creates, Completed,
    Visible
<1>1. MigTypeOK
  BY DEF MigTypeOK
<1>2. OperationInv /\ LoopInv /\ GpuInv /\ CreateInv /\ TargetInv
  BY DEF OperationInv, LoopInv, GpuInv, CreateInv, TargetInv
<1>3. NoDeviceTwice /\ RecordInv /\ TrackInv /\ LiveClaimsFit
  BY DEF NoDeviceTwice, RecordInv, PreparedDevicesExist, TrackInv,
     MigDeviceTracked, LiveClaimsFit, Live
<1> QED
  BY <1>1, <1>2, <1>3 DEF MigInv

\* The part of the invariant that needs no assumption on ids or admin access.
CoreInv ==
    /\ MigTypeOK /\ OperationInv /\ LoopInv /\ GpuInv /\ CreateInv /\ TargetInv
    /\ NoDeviceTwice /\ LiveDevicesApart

\* No MIG device and no entry exists at first.
LEMMA InitCore == Init => CoreInv
<1>1. LiveClaimsFit => LiveDevicesApart
  BY DEF LiveClaimsFit, LiveDevicesApart
<1> QED
  BY <1>1, InitMig DEF MigInv, CoreInv

\* Every step preserves the part that needs no assumption on the constants.
LEMMA CoreStep == CoreInv /\ [Next]_vars => CoreInv'
  BY TypeStep, OperationStep, LoopStep, GpuStep, CreateStep, TargetStep,
     TwiceStep, FitStep DEF CoreInv

\* Instances are of devices their claim was allocated, so that LiveDevicesApart
\* speaks of them, too.
LEMMA FitFacts == NoMigAdmin /\ CoreInv => LiveClaimsFit
<1> SUFFICES ASSUME NoMigAdmin, CoreInv PROVE LiveClaimsFit
  OBVIOUS
<1>1. ASSUME NEW i \in Ids, gi[i] # None
      PROVE  gi[i].by \in Claims /\ gi[i].dev \in NonAdmin(gi[i].by)
  <2>1. gi[i].by \in Claims /\ gi[i].dev \in MigDevsOf(gi[i].by)
    BY <1>1, VisibleFacts DEF CoreInv, GpuInv
  <2> QED
    BY <2>1 DEF NoMigAdmin, NonAdmin, MigDevsOf
<1> QED
  BY <1>1 DEF CoreInv, LiveDevicesApart, LiveClaimsFit

-----------------------------------------------------------------------------
(* The theorems.                                                            *)

(***************************************************************************)
(* The variables keep their types: no step follows a reference to a GPU    *)
(* instance id that is not there.                                          *)
(***************************************************************************)
THEOREM MigTypeCorrect == Spec => []MigTypeOK
<1>1. CoreInv => MigTypeOK
  BY DEF CoreInv
<1> QED
  BY <1>1, InitCore, CoreStep, PTL DEF Spec

(***************************************************************************)
(* validateNoOverlappingPreparedDevices keeps two claims from being        *)
(* prepared on one device, whatever rollbacks, failures and crashes came   *)
(* between its check and the completed entry.                              *)
(***************************************************************************)
THEOREM NoDeviceInTwoHands == Spec => []NoDeviceTwice
<1>1. CoreInv => NoDeviceTwice
  BY DEF CoreInv
<1> QED
  BY <1>1, InitCore, CoreStep, PTL DEF Spec

(***************************************************************************)
(* A prepared claim nobody releases has its MIG devices, the ones created  *)
(* for it, provided NVML does not reuse the ids of destroyed GPU           *)
(* instances: then a release that is repeated may destroy another claim's. *)
(***************************************************************************)
THEOREM PreparedClaimsKeepDevices == ASSUME NoReuse PROVE Spec => []PreparedDevicesExist
<1>1. Init => CoreInv /\ RecordInv
  BY InitCore, InitMig DEF MigInv
<1>2. CoreInv /\ RecordInv /\ [Next]_vars => (CoreInv /\ RecordInv)'
  BY NoReuse, CoreStep, RecordStep DEF CoreInv
<1>3. RecordInv => PreparedDevicesExist
  BY DEF RecordInv
<1> QED
  BY <1>1, <1>2, <1>3, PTL DEF Spec

(***************************************************************************)
(* As long as a MIG device of ours exists, the checkpoint has an entry of  *)
(* a claim that names it, provided admin access is to full GPUs only.  Ids *)
(* may be reused.                                                          *)
(***************************************************************************)
THEOREM MigDevicesStayTracked == ASSUME NoMigAdmin PROVE Spec => []MigDeviceTracked
<1>1. Init => CoreInv /\ TrackInv
  BY InitCore, InitMig DEF MigInv
<1>2. CoreInv /\ TrackInv /\ [Next]_vars => (CoreInv /\ TrackInv)'
  BY NoMigAdmin, CoreStep, TrackStep DEF CoreInv
<1>3. TrackInv => MigDeviceTracked
  BY DEF TrackInv
<1> QED
  BY <1>1, <1>2, <1>3, PTL DEF Spec

(***************************************************************************)
(* The counters announced for the partitions, for every table of profiles, *)
(* keep the devices of live claims apart on the GPU, and so do they the    *)
(* GPU instances that were created for them.                               *)
(***************************************************************************)
THEOREM CountersSuffice == ASSUME NoMigAdmin PROVE Spec => []LiveClaimsFit
<1>1. CoreInv => LiveClaimsFit
  BY NoMigAdmin, FitFacts
<1> QED
  BY <1>1, InitCore, CoreStep, PTL DEF Spec

(***************************************************************************)
(* Each device that is announced can be had on a GPU nobody uses, and the  *)
(* full GPU leaves no partition to anyone, for every table of profiles in  *)
(* which the largest placement covers all slices, as the code takes it to. *)
(***************************************************************************)
THEOREM AnnouncedDevicesCanBeHad ==
    ASSUME MigSpecs # {}, PlacementsFit
    PROVE  Spec => []AnnouncedCanBeHad
<1>1. AnnouncedCanBeHad
  BY CountersAnnounced DEF AnnouncedCanBeHad
<1> QED
  BY <1>1, PTL

(***************************************************************************)
(* The whole inductive invariant, under both assumptions.                  *)
(***************************************************************************)
THEOREM MigInductive == ASSUME NoReuse, NoMigAdmin PROVE Spec => []MigInv
<1> DEFINE Inv == CoreInv /\ RecordInv /\ TrackInv
<1>1. Init => Inv
  BY InitCore, InitMig DEF MigInv
<1>2. Inv /\ [Next]_vars => Inv'
  BY NoReuse, NoMigAdmin, CoreStep, RecordStep, TrackStep DEF CoreInv
<1>3. Inv => MigInv
  BY NoMigAdmin, FitFacts DEF CoreInv, MigInv
<1> QED
  BY <1>1, <1>2, <1>3, PTL DEF Spec
-----------------------------------------------------------------------------
(* DynamicMig implements ClaimService.                                      *)

\* A step leaves everything the abstract specification talks about.
Stutter == ClaimStatus' = ClaimStatus /\ InUse' = InUse
AbstractStep == Service!Next \/ Stutter

\* A write of an entry is a change of the status of that claim.
LEMMA EntryWritten ==
    ASSUME MigTypeOK, claim \in Claims, NEW e \in {"absent", "started", "completed"},
           cp' = [cp EXCEPT ![claim] = e]
    PROVE  ClaimStatus' = [ClaimStatus EXCEPT ![claim] = StatusOf[e]]
<1> HIDE DEF StatusOf
<1> QED
  BY DEF MigTypeOK, ClaimStatus

\* A repeated Prepare of a prepared claim starts its containers.
LEMMA PrepareCachedRefines == CoreInv /\ PrepareCached => AbstractStep
<1> SUFFICES ASSUME CoreInv, PrepareCached PROVE AbstractStep
  OBVIOUS
<1> USE DEF CoreInv, MigTypeOK, OperationInv, checkpoint
<1>1. claim \in Claims /\ ClaimStatus[claim] = "prepared"
  BY DEF PrepareCached, ClaimStatus, StatusOf
<1>2. ClaimStatus' = ClaimStatus /\ InUse' = InUse \cup {claim}
  BY <1>1 DEF PrepareCached, Return, ClaimStatus, InUse
<1>3. Service!Use(claim)
  BY <1>1, <1>2 DEF Service!Use, NonAdmin
<1> QED
  BY <1>1, <1>3 DEF AbstractStep, Service!Next

\* Writing PrepareStarted begins the preparation, or begins it again.
LEMMA PrepareStartedRefines == CoreInv /\ PrepareStarted => AbstractStep
<1> SUFFICES ASSUME CoreInv, PrepareStarted PROVE AbstractStep
  OBVIOUS
<1> USE DEF CoreInv, MigTypeOK, OperationInv, LoopInv
<1>1. claim \in Claims /\ ClaimStatus[claim] # "prepared"
  BY DEF PrepareStarted, ClaimStatus, StatusOf
<1>2. ClaimStatus' = [ClaimStatus EXCEPT ![claim] = "preparing"] /\ InUse' = InUse
  BY <1>1, EntryWritten DEF PrepareStarted, StatusOf, InUse
<1>3. Service!Begin(claim)
  BY <1>1, <1>2 DEF Service!Begin, NonAdmin
<1> QED
  BY <1>1, <1>3 DEF AbstractStep, Service!Next

\* Writing PrepareCompleted finishes it: the check for overlaps still holds.
LEMMA PrepareCompleteRefines == CoreInv /\ PrepareComplete => AbstractStep
<1> SUFFICES ASSUME CoreInv, PrepareComplete PROVE AbstractStep
  OBVIOUS
<1> USE DEF CoreInv, MigTypeOK, OperationInv, LoopInv, Creates
<1>1. claim \in Claims /\ op = "prepare" /\ ClaimStatus[claim] = "preparing"
  BY DEF PrepareComplete, ClaimStatus, StatusOf
<1>2. ClaimStatus' = [ClaimStatus EXCEPT ![claim] = "prepared"]
  BY <1>1, EntryWritten DEF PrepareComplete, StatusOf
<1>3. InUse' \in {InUse, InUse \cup {claim}}
  BY <1>1 DEF PrepareComplete, Return, InUse
<1>4. \A o \in Service!Prepared : NonAdmin(o) \cap NonAdmin(claim) = {}
  <2>1. \A o \in Service!Prepared : o \in Completed \ {claim}
    BY <1>1 DEF Service!Prepared, ClaimStatus, StatusOf, Completed
  <2>2. ~Overlaps(claim)
    BY <1>1 DEF PrepareComplete
  <2> QED
    BY <2>1, <2>2 DEF Overlaps
<1>5. Service!Finish(claim)
  BY <1>1, <1>2, <1>3, <1>4 DEF Service!Finish, Service!Prepared, NonAdmin
<1> QED
  BY <1>1, <1>5 DEF AbstractStep, Service!Next

\* Removing the entry withdraws a claim whose containers do not run.
LEMMA UnprepareForgetRefines == CoreInv /\ UnprepareForget => AbstractStep
<1> SUFFICES ASSUME CoreInv, UnprepareForget PROVE AbstractStep
  OBVIOUS
<1> USE DEF CoreInv, MigTypeOK, OperationInv
<1>1. claim \in Claims /\ op = "unprepare" /\ claim \notin InUse
  BY DEF UnprepareForget, InUse
<1>2. ClaimStatus' = [ClaimStatus EXCEPT ![claim] = "unprepared"]
  BY <1>1, EntryWritten DEF UnprepareForget, StatusOf
<1>3. InUse' = InUse
  BY <1>1 DEF UnprepareForget, Return, InUse
<1>4. Service!Withdraw(claim)
  BY <1>1, <1>2, <1>3 DEF Service!Withdraw, NonAdmin
<1> QED
  BY <1>1, <1>4 DEF AbstractStep, Service!Next

\* Every step on the GPU, of the plugin and of the kubelet maps to a step of the
\* claim service or to none.
LEMMA StepRefines == CoreInv /\ [Next]_vars => AbstractStep
<1> SUFFICES ASSUME CoreInv, [Next]_vars PROVE AbstractStep
  OBVIOUS
<1> USE MigAssumption DEF CoreInv, MigTypeOK, OperationInv, AbstractStep, Stutter,
    ClaimStatus, InUse, NonAdmin, checkpoint, gpu, proc, count
<1>1. CASE Start
  BY <1>1 DEF Start
<1>2. CASE Crash
  BY <1>2 DEF Crash, Idle
<1>3. CASE Fail
  BY <1>3 DEF Fail, Return, Idle
<1>4. ASSUME NEW c \in Claims, PodArrives(c) PROVE AbstractStep
  BY <1>4 DEF PodArrives
<1>5. ASSUME NEW c \in Claims, PodStops(c) PROVE AbstractStep
  BY <1>5 DEF PodStops, Service!Next, Service!Stop
<1>6. ASSUME NEW c \in Claims, ClaimDeleted(c) PROVE AbstractStep
  BY <1>6 DEF ClaimDeleted
<1>7. ASSUME NEW c \in Claims, CallPrepare(c) PROVE AbstractStep
  BY <1>7 DEF CallPrepare, Call
<1>8. ASSUME NEW c \in Claims, CallUnprepare(c) PROVE AbstractStep
  BY <1>8 DEF CallUnprepare, Call
<1>9. CASE DeleteModeOff
  BY <1>9 DEF DeleteModeOff
<1>10. CASE DeleteNotFound
  BY <1>10 DEF DeleteNotFound
<1>11. CASE DestroyCi
  BY <1>11 DEF DestroyCi
<1>12. CASE DestroyGi
  BY <1>12 DEF DestroyGi
<1>13. CASE CountPresent
  BY <1>13 DEF CountPresent
<1>14. CASE SetModeOff
  BY <1>14 DEF SetModeOff
<1>15. CASE PrepareCached
  BY <1>15, PrepareCachedRefines
<1>16. CASE PrepareRefused
  BY <1>16 DEF PrepareRefused, Return
<1>17. CASE PrepareRollback
  BY <1>17 DEF PrepareRollback
<1>18. CASE PrepareStarted
  BY <1>18, PrepareStartedRefines
<1>19. CASE PrepareGpu
  BY <1>19 DEF PrepareGpu
<1>20. CASE CreateEnable
  BY <1>20 DEF CreateEnable
<1>21. CASE CreateCi
  BY <1>21 DEF CreateCi
<1>22. CASE PrepareComplete
  BY <1>22, PrepareCompleteRefines
<1>23. ASSUME NEW d \in MigSpecs, CreateRefused(d) PROVE AbstractStep
  BY <1>23 DEF CreateRefused, Return
<1>24. ASSUME NEW d \in MigSpecs, NEW i \in Ids, CreateGi(d, i) PROVE AbstractStep
  BY <1>24 DEF CreateGi
<1>25. CASE UnprepareNoop
  BY <1>25 DEF UnprepareNoop, Return
<1>26. CASE UnprepareBegin
  BY <1>26 DEF UnprepareBegin
<1>27. CASE UnprepareLoopDone
  BY <1>27 DEF UnprepareLoopDone
<1>28. CASE UnprepareForget
  BY <1>28, UnprepareForgetRefines
<1>29. ASSUME NEW d \in MigSpecs, RollSkip(d) PROVE AbstractStep
  BY <1>29 DEF RollSkip
<1>30. ASSUME NEW d \in MigSpecs, RollDelete(d) PROVE AbstractStep
  BY <1>30 DEF RollDelete
<1>31. ASSUME NEW d \in MigSpecs, UndoDelete(d) PROVE AbstractStep
  BY <1>31 DEF UndoDelete
<1>32. CASE ObliterateDone
  BY <1>32 DEF ObliterateDone
<1>33. ASSUME NEW d \in MigSpecs, ObliterateNext(d) PROVE AbstractStep
  BY <1>33 DEF ObliterateNext
<1>34. CASE UNCHANGED vars
  BY <1>34 DEF vars
<1> QED
  BY <1>1, <1>2, <1>3, <1>4, <1>5, <1>6, <1>7, <1>8, <1>9, <1>10, <1>11,
     <1>12, <1>13, <1>14, <1>15, <1>16, <1>17, <1>18, <1>19, <1>20, <1>21,
     <1>22, <1>23, <1>24, <1>25, <1>26, <1>27, <1>28, <1>29, <1>30, <1>31,
     <1>32, <1>33, <1>34 DEF Next, Kubelet, Delete, Prepare, Unprepare

(***************************************************************************)
(* DynamicMig implements the claim service, the rollbacks, deletions and   *)
(* crashes of which the kubelet must not notice included.                  *)
(***************************************************************************)
THEOREM DynamicMigImplementsClaimService == Spec => ImplementsClaimService
<1>1. Init => Service!Init
  <2> SUFFICES ASSUME Init PROVE Service!Init
    OBVIOUS
  <2>1. \A c \in Claims : ClaimStatus[c] = "unprepared"
    BY DEF Init, ClaimStatus, StatusOf
  <2>2. InUse = {} /\ Service!Prepared = {}
    BY <2>1 DEF Init, InUse, Service!Prepared
  <2>3. Service!TypeOK
    BY <2>1, <2>2, MigAssumption DEF Service!TypeOK, ClaimStatus, NonAdmin
  <2> QED
    BY <2>1, <2>2, <2>3 DEF Service!Init, Service!Exclusive
<1>2. CoreInv /\ [Next]_vars => [Service!Next]_(Service!vars)
  BY StepRefines DEF AbstractStep, Stutter, Service!vars, NonAdmin
<1> QED
  BY <1>1, <1>2, InitCore, CoreStep, PTL DEF Spec, ImplementsClaimService, Service!Spec
=============================================================================
