------------------------- MODULE DeviceState_proofs -------------------------
(***************************************************************************)
(* The theorems of DeviceState, for every set of claims, pods and handlers *)
(* and every bound on failures, crashes and reboots.                       *)
(*                                                                         *)
(* The argument: IndInv of DeviceStateInv holds initially (InitInd) and is *)
(* preserved by every step (IndStep); each of its conjuncts has a lemma of *)
(* its own, <Conjunct>Step, with one case per action of Next.  The safety  *)
(* properties follow from it.  Properties that need only some conjuncts    *)
(* are proved from those, without the two assumptions below.               *)
(***************************************************************************)
EXTENDS DeviceStateInv, TLAPS

\* An Unprepare whose caller has given up does not start any more.
Timely == "unprepare" \notin LateOps

\* A checkpoint that records no boot id is met only on a node that does not
\* reboot before the new plugin has started.
NoAdoption == Upgrade => MaxReboots = 0

\* Handlers and the cleaner are different goroutines, and None is none of them.
LEMMA ProcsFacts ==
    /\ Cleaner \in Procs /\ Cleaner \notin Workers
    /\ \A w \in Workers : w \in Procs /\ w # Cleaner
    /\ \A p \in Procs : p # Cleaner => p \in Workers
    /\ None \notin Procs /\ None \notin Claims /\ None \notin Pods
    /\ "prepare" \in Ops /\ "unprepare" \in Ops
  BY ConstantsAssumption DEF Procs, Ops

\* Every label used by an action is one of Steps, and those after Acquire are
\* Locked.
LEMMA StepsFacts ==
    /\ {"idle", "lock", "list", "next", "begin"} \subseteq Steps
    /\ {"label", "wipe", "mkdir", "mark", "spec", "complete"} \subseteq Steps
    /\ {"scan", "rmdir", "delspec", "forget"} \subseteq Steps
    /\ {"begin", "label", "wipe", "mkdir", "mark", "spec", "complete"} \subseteq Locked
    /\ {"scan", "rmdir", "delspec", "forget"} \subseteq Locked
    /\ {"none", "unowned", "owned"} \subseteq DirStates
  BY DEF Steps, Locked, PrepareSteps, UnprepareSteps, DirStates

\* What Prepare, Unprepare and initCheckpoint write to disk keeps its type.
LEMMA DiskTypeStep == TypeOK /\ GoroutinesInv /\ [Next]_vars => DiskTypeOK'
<1> SUFFICES ASSUME TypeOK /\ GoroutinesInv, [Next]_vars PROVE DiskTypeOK'
  OBVIOUS
<1> USE ProcsFacts, StepsFacts DEF TypeOK, DiskTypeOK, ProcTypeOK,
    GoroutinesInv, Active, disk, proc, cleanup, env, count
<1>1. CASE Start
  BY <1>1 DEF Start, KeepCheckpoint
<1>2. CASE Crash
  BY <1>2 DEF Crash, ProcessEnds
<1>3. CASE Reboot
  BY <1>3 DEF Reboot, ProcessEnds
<1>4. ASSUME NEW c \in Claims, Create(c) PROVE DiskTypeOK'
  BY <1>4 DEF Create
<1>5. ASSUME NEW c \in Claims, Delete(c) PROVE DiskTypeOK'
  BY <1>5 DEF Delete
<1>6. ASSUME NEW c \in Claims, PodStops(c) PROVE DiskTypeOK'
  BY <1>6 DEF PodStops
<1>7. ASSUME NEW c \in Claims, NEW q \in Pods, PodArrives(c, q) PROVE DiskTypeOK'
  BY <1>7 DEF PodArrives
<1>8. ASSUME NEW w \in Workers, NEW c \in Claims, CallPrepare(w, c) PROVE DiskTypeOK'
  BY <1>8 DEF CallPrepare, Call
<1>9. ASSUME NEW w \in Workers, NEW c \in Claims, CallUnprepare(w, c) PROVE DiskTypeOK'
  BY <1>9 DEF CallUnprepare, Call
<1>10. ASSUME NEW w \in Workers, Abandon(w) PROVE DiskTypeOK'
  BY <1>10 DEF Abandon
<1>11. CASE CleanupTick
  BY <1>11 DEF CleanupTick
<1>12. CASE CleanupTake
  BY <1>12 DEF CleanupTake, Goto
<1>13. CASE CleanupList
  BY <1>13 DEF CleanupList, Goto
<1>14. CASE CleanupListFails
  BY <1>14 DEF CleanupListFails, Goto
<1>15. CASE CleanupDone
  BY <1>15 DEF CleanupDone, Goto
<1>16. ASSUME NEW c \in Claims, CleanupStale(c) PROVE DiskTypeOK'
  BY <1>16 DEF CleanupStale, Goto
<1>17. ASSUME NEW c \in Claims, CleanupSkip(c) PROVE DiskTypeOK'
  BY <1>17 DEF CleanupSkip
<1>18. ASSUME NEW c \in Claims, CleanupGetFails(c) PROVE DiskTypeOK'
  BY <1>18 DEF CleanupGetFails
<1>19. ASSUME NEW p \in Procs, Acquire(p) PROVE DiskTypeOK'
  BY <1>19 DEF Acquire
<1>20. ASSUME NEW p \in Procs, AcquireFails(p) PROVE DiskTypeOK'
  BY <1>20 DEF AcquireFails, Return, Release, Done, Answered
<1>21. ASSUME NEW p \in Procs, StepFails(p) PROVE DiskTypeOK'
  BY <1>21 DEF StepFails, Return, Release, Done, Answered
<1>22. ASSUME NEW p \in Procs, PrepareCached(p) PROVE DiskTypeOK'
  BY <1>22 DEF PrepareCached, Return, Release, Done, Answered
<1>23. ASSUME NEW p \in Procs, PrepareBegin(p) PROVE DiskTypeOK'
  BY <1>23 DEF PrepareBegin, Goto
<1>24. ASSUME NEW p \in Procs, PrepareLabel(p) PROVE DiskTypeOK'
  BY <1>24 DEF PrepareLabel, Goto
<1>25. ASSUME NEW p \in Procs, PrepareLabelCancelled(p) PROVE DiskTypeOK'
  BY <1>25 DEF PrepareLabelCancelled, Return, Release, Done, Answered
<1>26. ASSUME NEW p \in Procs, PrepareWipe(p) PROVE DiskTypeOK'
  BY <1>26 DEF PrepareWipe, SetDir
<1>27. ASSUME NEW p \in Procs, PrepareWiped(p) PROVE DiskTypeOK'
  BY <1>27 DEF PrepareWiped, SetDir, Goto
<1>28. ASSUME NEW p \in Procs, PrepareMkdir(p) PROVE DiskTypeOK'
  BY <1>28 DEF PrepareMkdir, SetDir, Goto
<1>29. ASSUME NEW p \in Procs, PrepareMark(p) PROVE DiskTypeOK'
  BY <1>29 DEF PrepareMark, SetDir, Goto
<1>30. ASSUME NEW p \in Procs, PrepareSpec(p) PROVE DiskTypeOK'
  BY <1>30 DEF PrepareSpec, Goto
<1>31. ASSUME NEW p \in Procs, PrepareComplete(p) PROVE DiskTypeOK'
  BY <1>31 DEF PrepareComplete, Return, Release, Done, Answered
<1>32. ASSUME NEW p \in Procs, UnprepareNoop(p) PROVE DiskTypeOK'
  BY <1>32 DEF UnprepareNoop, Return, Release, Done, Answered
<1>33. ASSUME NEW p \in Procs, UnprepareBegin(p) PROVE DiskTypeOK'
  BY <1>33 DEF UnprepareBegin, NextAfterEntryRead, Goto
<1>34. ASSUME NEW p \in Procs, NEW q \in Pods, UnprepareScan(p, q) PROVE DiskTypeOK'
  BY <1>34 DEF UnprepareScan, SetDir, Goto
<1>35. ASSUME NEW p \in Procs, UnprepareScanned(p) PROVE DiskTypeOK'
  BY <1>35 DEF UnprepareScanned, Goto
<1>36. ASSUME NEW p \in Procs, UnprepareRmdir(p) PROVE DiskTypeOK'
  BY <1>36 DEF UnprepareRmdir, SetDir, Goto
<1>37. ASSUME NEW p \in Procs, UnprepareSpec(p) PROVE DiskTypeOK'
  BY <1>37 DEF UnprepareSpec, Goto
<1>38. ASSUME NEW p \in Procs, UnprepareForget(p) PROVE DiskTypeOK'
  BY <1>38 DEF UnprepareForget, Return, Release, Done, Answered
<1>39. CASE UNCHANGED vars
  BY <1>39 DEF vars
<1> QED
  BY <1>1, <1>2, <1>3, <1>4, <1>5, <1>6, <1>7, <1>8, <1>9, <1>10, <1>11,
     <1>12, <1>13, <1>14, <1>15, <1>16, <1>17, <1>18, <1>19, <1>20, <1>21,
     <1>22, <1>23, <1>24, <1>25, <1>26, <1>27, <1>28, <1>29, <1>30, <1>31,
     <1>32, <1>33, <1>34, <1>35, <1>36, <1>37, <1>38, <1>39 DEF Next,
     Kubelet, CleanupStep, PrepareStep, UnprepareStep

\* The state of the goroutines keeps its type.
LEMMA ProcTypeStep == TypeOK /\ [Next]_vars => ProcTypeOK'
<1> SUFFICES ASSUME TypeOK, [Next]_vars PROVE ProcTypeOK'
  OBVIOUS
<1> USE ProcsFacts, StepsFacts DEF TypeOK, ProcTypeOK, EnvTypeOK, disk,
    proc, cleanup, env, count
<1>1. CASE Start
  BY <1>1 DEF Start, KeepCheckpoint
<1>2. CASE Crash
  BY <1>2 DEF Crash, ProcessEnds
<1>3. CASE Reboot
  BY <1>3 DEF Reboot, ProcessEnds
<1>4. ASSUME NEW c \in Claims, Create(c) PROVE ProcTypeOK'
  BY <1>4 DEF Create
<1>5. ASSUME NEW c \in Claims, Delete(c) PROVE ProcTypeOK'
  BY <1>5 DEF Delete
<1>6. ASSUME NEW c \in Claims, PodStops(c) PROVE ProcTypeOK'
  BY <1>6 DEF PodStops
<1>7. ASSUME NEW c \in Claims, NEW q \in Pods, PodArrives(c, q) PROVE ProcTypeOK'
  BY <1>7 DEF PodArrives
<1>8. ASSUME NEW w \in Workers, NEW c \in Claims, CallPrepare(w, c) PROVE ProcTypeOK'
  BY <1>8 DEF CallPrepare, Call
<1>9. ASSUME NEW w \in Workers, NEW c \in Claims, CallUnprepare(w, c) PROVE ProcTypeOK'
  BY <1>9 DEF CallUnprepare, Call
<1>10. ASSUME NEW w \in Workers, Abandon(w) PROVE ProcTypeOK'
  BY <1>10 DEF Abandon
<1>11. CASE CleanupTick
  BY <1>11 DEF CleanupTick
<1>12. CASE CleanupTake
  BY <1>12 DEF CleanupTake, Goto
<1>13. CASE CleanupList
  BY <1>13 DEF CleanupList, Goto
<1>14. CASE CleanupListFails
  BY <1>14 DEF CleanupListFails, Goto
<1>15. CASE CleanupDone
  BY <1>15 DEF CleanupDone, Goto
<1>16. ASSUME NEW c \in Claims, CleanupStale(c) PROVE ProcTypeOK'
  BY <1>16 DEF CleanupStale, Goto
<1>17. ASSUME NEW c \in Claims, CleanupSkip(c) PROVE ProcTypeOK'
  BY <1>17 DEF CleanupSkip
<1>18. ASSUME NEW c \in Claims, CleanupGetFails(c) PROVE ProcTypeOK'
  BY <1>18 DEF CleanupGetFails
<1>19. ASSUME NEW p \in Procs, Acquire(p) PROVE ProcTypeOK'
  BY <1>19 DEF Acquire
<1>20. ASSUME NEW p \in Procs, AcquireFails(p) PROVE ProcTypeOK'
  BY <1>20 DEF AcquireFails, Return, Release, Done, Answered
<1>21. ASSUME NEW p \in Procs, StepFails(p) PROVE ProcTypeOK'
  BY <1>21 DEF StepFails, Return, Release, Done, Answered
<1>22. ASSUME NEW p \in Procs, PrepareCached(p) PROVE ProcTypeOK'
  BY <1>22 DEF PrepareCached, Return, Release, Done, Answered
<1>23. ASSUME NEW p \in Procs, PrepareBegin(p) PROVE ProcTypeOK'
  BY <1>23 DEF PrepareBegin, Goto
<1>24. ASSUME NEW p \in Procs, PrepareLabel(p) PROVE ProcTypeOK'
  BY <1>24 DEF PrepareLabel, Goto
<1>25. ASSUME NEW p \in Procs, PrepareLabelCancelled(p) PROVE ProcTypeOK'
  BY <1>25 DEF PrepareLabelCancelled, Return, Release, Done, Answered
<1>26. ASSUME NEW p \in Procs, PrepareWipe(p) PROVE ProcTypeOK'
  BY <1>26 DEF PrepareWipe, SetDir
<1>27. ASSUME NEW p \in Procs, PrepareWiped(p) PROVE ProcTypeOK'
  BY <1>27 DEF PrepareWiped, SetDir, Goto
<1>28. ASSUME NEW p \in Procs, PrepareMkdir(p) PROVE ProcTypeOK'
  BY <1>28 DEF PrepareMkdir, SetDir, Goto
<1>29. ASSUME NEW p \in Procs, PrepareMark(p) PROVE ProcTypeOK'
  BY <1>29 DEF PrepareMark, SetDir, Goto
<1>30. ASSUME NEW p \in Procs, PrepareSpec(p) PROVE ProcTypeOK'
  BY <1>30 DEF PrepareSpec, Goto
<1>31. ASSUME NEW p \in Procs, PrepareComplete(p) PROVE ProcTypeOK'
  BY <1>31 DEF PrepareComplete, Return, Release, Done, Answered
<1>32. ASSUME NEW p \in Procs, UnprepareNoop(p) PROVE ProcTypeOK'
  BY <1>32 DEF UnprepareNoop, Return, Release, Done, Answered
<1>33. ASSUME NEW p \in Procs, UnprepareBegin(p) PROVE ProcTypeOK'
  BY <1>33 DEF UnprepareBegin, NextAfterEntryRead, Goto
<1>34. ASSUME NEW p \in Procs, NEW q \in Pods, UnprepareScan(p, q) PROVE ProcTypeOK'
  BY <1>34 DEF UnprepareScan, SetDir, Goto
<1>35. ASSUME NEW p \in Procs, UnprepareScanned(p) PROVE ProcTypeOK'
  BY <1>35 DEF UnprepareScanned, Goto
<1>36. ASSUME NEW p \in Procs, UnprepareRmdir(p) PROVE ProcTypeOK'
  BY <1>36 DEF UnprepareRmdir, SetDir, Goto
<1>37. ASSUME NEW p \in Procs, UnprepareSpec(p) PROVE ProcTypeOK'
  BY <1>37 DEF UnprepareSpec, Goto
<1>38. ASSUME NEW p \in Procs, UnprepareForget(p) PROVE ProcTypeOK'
  BY <1>38 DEF UnprepareForget, Return, Release, Done, Answered
<1>39. CASE UNCHANGED vars
  BY <1>39 DEF vars
<1> QED
  BY <1>1, <1>2, <1>3, <1>4, <1>5, <1>6, <1>7, <1>8, <1>9, <1>10, <1>11,
     <1>12, <1>13, <1>14, <1>15, <1>16, <1>17, <1>18, <1>19, <1>20, <1>21,
     <1>22, <1>23, <1>24, <1>25, <1>26, <1>27, <1>28, <1>29, <1>30, <1>31,
     <1>32, <1>33, <1>34, <1>35, <1>36, <1>37, <1>38, <1>39 DEF Next,
     Kubelet, CleanupStep, PrepareStep, UnprepareStep

\* The kubelet's and the API server's state keeps its type.
LEMMA EnvTypeStep == TypeOK /\ [Next]_vars => EnvTypeOK'
<1> SUFFICES ASSUME TypeOK, [Next]_vars PROVE EnvTypeOK'
  OBVIOUS
<1> USE ProcsFacts DEF TypeOK, ProcTypeOK, EnvTypeOK, disk, proc, cleanup,
    env, count
<1>1. CASE Start
  BY <1>1 DEF Start, KeepCheckpoint
<1>2. CASE Crash
  BY <1>2 DEF Crash, ProcessEnds
<1>3. CASE Reboot
  BY <1>3 DEF Reboot, ProcessEnds
<1>4. ASSUME NEW c \in Claims, Create(c) PROVE EnvTypeOK'
  BY <1>4 DEF Create
<1>5. ASSUME NEW c \in Claims, Delete(c) PROVE EnvTypeOK'
  BY <1>5 DEF Delete
<1>6. ASSUME NEW c \in Claims, PodStops(c) PROVE EnvTypeOK'
  BY <1>6 DEF PodStops
<1>7. ASSUME NEW c \in Claims, NEW q \in Pods, PodArrives(c, q) PROVE EnvTypeOK'
  BY <1>7 DEF PodArrives
<1>8. ASSUME NEW w \in Workers, NEW c \in Claims, CallPrepare(w, c) PROVE EnvTypeOK'
  BY <1>8 DEF CallPrepare, Call
<1>9. ASSUME NEW w \in Workers, NEW c \in Claims, CallUnprepare(w, c) PROVE EnvTypeOK'
  BY <1>9 DEF CallUnprepare, Call
<1>10. ASSUME NEW w \in Workers, Abandon(w) PROVE EnvTypeOK'
  BY <1>10 DEF Abandon
<1>11. CASE CleanupTick
  BY <1>11 DEF CleanupTick
<1>12. CASE CleanupTake
  BY <1>12 DEF CleanupTake, Goto
<1>13. CASE CleanupList
  BY <1>13 DEF CleanupList, Goto
<1>14. CASE CleanupListFails
  BY <1>14 DEF CleanupListFails, Goto
<1>15. CASE CleanupDone
  BY <1>15 DEF CleanupDone, Goto
<1>16. ASSUME NEW c \in Claims, CleanupStale(c) PROVE EnvTypeOK'
  BY <1>16 DEF CleanupStale, Goto
<1>17. ASSUME NEW c \in Claims, CleanupSkip(c) PROVE EnvTypeOK'
  BY <1>17 DEF CleanupSkip
<1>18. ASSUME NEW c \in Claims, CleanupGetFails(c) PROVE EnvTypeOK'
  BY <1>18 DEF CleanupGetFails
<1>19. ASSUME NEW p \in Procs, Acquire(p) PROVE EnvTypeOK'
  BY <1>19 DEF Acquire
<1>20. ASSUME NEW p \in Procs, AcquireFails(p) PROVE EnvTypeOK'
  BY <1>20 DEF AcquireFails, Return, Release, Done, Answered
<1>21. ASSUME NEW p \in Procs, StepFails(p) PROVE EnvTypeOK'
  BY <1>21 DEF StepFails, Return, Release, Done, Answered
<1>22. ASSUME NEW p \in Procs, PrepareCached(p) PROVE EnvTypeOK'
  BY <1>22 DEF PrepareCached, Return, Release, Done, Answered
<1>23. ASSUME NEW p \in Procs, PrepareBegin(p) PROVE EnvTypeOK'
  BY <1>23 DEF PrepareBegin, Goto
<1>24. ASSUME NEW p \in Procs, PrepareLabel(p) PROVE EnvTypeOK'
  BY <1>24 DEF PrepareLabel, Goto
<1>25. ASSUME NEW p \in Procs, PrepareLabelCancelled(p) PROVE EnvTypeOK'
  BY <1>25 DEF PrepareLabelCancelled, Return, Release, Done, Answered
<1>26. ASSUME NEW p \in Procs, PrepareWipe(p) PROVE EnvTypeOK'
  BY <1>26 DEF PrepareWipe, SetDir
<1>27. ASSUME NEW p \in Procs, PrepareWiped(p) PROVE EnvTypeOK'
  BY <1>27 DEF PrepareWiped, SetDir, Goto
<1>28. ASSUME NEW p \in Procs, PrepareMkdir(p) PROVE EnvTypeOK'
  BY <1>28 DEF PrepareMkdir, SetDir, Goto
<1>29. ASSUME NEW p \in Procs, PrepareMark(p) PROVE EnvTypeOK'
  BY <1>29 DEF PrepareMark, SetDir, Goto
<1>30. ASSUME NEW p \in Procs, PrepareSpec(p) PROVE EnvTypeOK'
  BY <1>30 DEF PrepareSpec, Goto
<1>31. ASSUME NEW p \in Procs, PrepareComplete(p) PROVE EnvTypeOK'
  BY <1>31 DEF PrepareComplete, Return, Release, Done, Answered
<1>32. ASSUME NEW p \in Procs, UnprepareNoop(p) PROVE EnvTypeOK'
  BY <1>32 DEF UnprepareNoop, Return, Release, Done, Answered
<1>33. ASSUME NEW p \in Procs, UnprepareBegin(p) PROVE EnvTypeOK'
  BY <1>33 DEF UnprepareBegin, NextAfterEntryRead, Goto
<1>34. ASSUME NEW p \in Procs, NEW q \in Pods, UnprepareScan(p, q) PROVE EnvTypeOK'
  BY <1>34 DEF UnprepareScan, SetDir, Goto
<1>35. ASSUME NEW p \in Procs, UnprepareScanned(p) PROVE EnvTypeOK'
  BY <1>35 DEF UnprepareScanned, Goto
<1>36. ASSUME NEW p \in Procs, UnprepareRmdir(p) PROVE EnvTypeOK'
  BY <1>36 DEF UnprepareRmdir, SetDir, Goto
<1>37. ASSUME NEW p \in Procs, UnprepareSpec(p) PROVE EnvTypeOK'
  BY <1>37 DEF UnprepareSpec, Goto
<1>38. ASSUME NEW p \in Procs, UnprepareForget(p) PROVE EnvTypeOK'
  BY <1>38 DEF UnprepareForget, Return, Release, Done, Answered
<1>39. CASE UNCHANGED vars
  BY <1>39 DEF vars
<1> QED
  BY <1>1, <1>2, <1>3, <1>4, <1>5, <1>6, <1>7, <1>8, <1>9, <1>10, <1>11,
     <1>12, <1>13, <1>14, <1>15, <1>16, <1>17, <1>18, <1>19, <1>20, <1>21,
     <1>22, <1>23, <1>24, <1>25, <1>26, <1>27, <1>28, <1>29, <1>30, <1>31,
     <1>32, <1>33, <1>34, <1>35, <1>36, <1>37, <1>38, <1>39 DEF Next,
     Kubelet, CleanupStep, PrepareStep, UnprepareStep

\* At most one goroutine is past Acquire, on a claim, within one operation.
LEMMA GoroutinesStep == TypeOK /\ GoroutinesInv /\ [Next]_vars => GoroutinesInv'
<1> SUFFICES ASSUME TypeOK /\ GoroutinesInv, [Next]_vars PROVE GoroutinesInv'
  OBVIOUS
<1> USE ProcsFacts DEF TypeOK, ProcTypeOK, EnvTypeOK, GoroutinesInv, Active,
    Locked, PrepareSteps, UnprepareSteps, disk, proc, cleanup, env, count
<1>1. CASE Start
  BY <1>1 DEF Start, KeepCheckpoint
<1>2. CASE Crash
  BY <1>2 DEF Crash, ProcessEnds
<1>3. CASE Reboot
  BY <1>3 DEF Reboot, ProcessEnds
<1>4. ASSUME NEW c \in Claims, Create(c) PROVE GoroutinesInv'
  BY <1>4 DEF Create
<1>5. ASSUME NEW c \in Claims, Delete(c) PROVE GoroutinesInv'
  BY <1>5 DEF Delete
<1>6. ASSUME NEW c \in Claims, PodStops(c) PROVE GoroutinesInv'
  BY <1>6 DEF PodStops
<1>7. ASSUME NEW c \in Claims, NEW q \in Pods, PodArrives(c, q) PROVE GoroutinesInv'
  BY <1>7 DEF PodArrives
<1>8. ASSUME NEW w \in Workers, NEW c \in Claims, CallPrepare(w, c) PROVE GoroutinesInv'
  BY <1>8 DEF CallPrepare, Call
<1>9. ASSUME NEW w \in Workers, NEW c \in Claims, CallUnprepare(w, c) PROVE GoroutinesInv'
  BY <1>9 DEF CallUnprepare, Call
<1>10. ASSUME NEW w \in Workers, Abandon(w) PROVE GoroutinesInv'
  BY <1>10 DEF Abandon
<1>11. CASE CleanupTick
  BY <1>11 DEF CleanupTick
<1>12. CASE CleanupTake
  BY <1>12 DEF CleanupTake, Goto
<1>13. CASE CleanupList
  BY <1>13 DEF CleanupList, Goto
<1>14. CASE CleanupListFails
  BY <1>14 DEF CleanupListFails, Goto
<1>15. CASE CleanupDone
  BY <1>15 DEF CleanupDone, Goto
<1>16. ASSUME NEW c \in Claims, CleanupStale(c) PROVE GoroutinesInv'
  BY <1>16 DEF CleanupStale, Goto
<1>17. ASSUME NEW c \in Claims, CleanupSkip(c) PROVE GoroutinesInv'
  BY <1>17 DEF CleanupSkip
<1>18. ASSUME NEW c \in Claims, CleanupGetFails(c) PROVE GoroutinesInv'
  BY <1>18 DEF CleanupGetFails
<1>19. ASSUME NEW p \in Procs, Acquire(p) PROVE GoroutinesInv'
  BY <1>19 DEF Acquire
<1>20. ASSUME NEW p \in Procs, AcquireFails(p) PROVE GoroutinesInv'
  BY <1>20 DEF AcquireFails, Return, Release, Done, Answered
<1>21. ASSUME NEW p \in Procs, StepFails(p) PROVE GoroutinesInv'
  BY <1>21 DEF StepFails, Return, Release, Done, Answered
<1>22. ASSUME NEW p \in Procs, PrepareCached(p) PROVE GoroutinesInv'
  BY <1>22 DEF PrepareCached, Return, Release, Done, Answered
<1>23. ASSUME NEW p \in Procs, PrepareBegin(p) PROVE GoroutinesInv'
  BY <1>23 DEF PrepareBegin, Goto
<1>24. ASSUME NEW p \in Procs, PrepareLabel(p) PROVE GoroutinesInv'
  BY <1>24 DEF PrepareLabel, Goto
<1>25. ASSUME NEW p \in Procs, PrepareLabelCancelled(p) PROVE GoroutinesInv'
  BY <1>25 DEF PrepareLabelCancelled, Return, Release, Done, Answered
<1>26. ASSUME NEW p \in Procs, PrepareWipe(p) PROVE GoroutinesInv'
  BY <1>26 DEF PrepareWipe, SetDir
<1>27. ASSUME NEW p \in Procs, PrepareWiped(p) PROVE GoroutinesInv'
  BY <1>27 DEF PrepareWiped, SetDir, Goto
<1>28. ASSUME NEW p \in Procs, PrepareMkdir(p) PROVE GoroutinesInv'
  BY <1>28 DEF PrepareMkdir, SetDir, Goto
<1>29. ASSUME NEW p \in Procs, PrepareMark(p) PROVE GoroutinesInv'
  BY <1>29 DEF PrepareMark, SetDir, Goto
<1>30. ASSUME NEW p \in Procs, PrepareSpec(p) PROVE GoroutinesInv'
  BY <1>30 DEF PrepareSpec, Goto
<1>31. ASSUME NEW p \in Procs, PrepareComplete(p) PROVE GoroutinesInv'
  BY <1>31 DEF PrepareComplete, Return, Release, Done, Answered
<1>32. ASSUME NEW p \in Procs, UnprepareNoop(p) PROVE GoroutinesInv'
  BY <1>32 DEF UnprepareNoop, Return, Release, Done, Answered
<1>33. ASSUME NEW p \in Procs, UnprepareBegin(p) PROVE GoroutinesInv'
  BY <1>33 DEF UnprepareBegin, NextAfterEntryRead, Goto
<1>34. ASSUME NEW p \in Procs, NEW q \in Pods, UnprepareScan(p, q) PROVE GoroutinesInv'
  BY <1>34 DEF UnprepareScan, SetDir, Goto
<1>35. ASSUME NEW p \in Procs, UnprepareScanned(p) PROVE GoroutinesInv'
  BY <1>35 DEF UnprepareScanned, Goto
<1>36. ASSUME NEW p \in Procs, UnprepareRmdir(p) PROVE GoroutinesInv'
  BY <1>36 DEF UnprepareRmdir, SetDir, Goto
<1>37. ASSUME NEW p \in Procs, UnprepareSpec(p) PROVE GoroutinesInv'
  BY <1>37 DEF UnprepareSpec, Goto
<1>38. ASSUME NEW p \in Procs, UnprepareForget(p) PROVE GoroutinesInv'
  BY <1>38 DEF UnprepareForget, Return, Release, Done, Answered
<1>39. CASE UNCHANGED vars
  BY <1>39 DEF vars
<1> QED
  BY <1>1, <1>2, <1>3, <1>4, <1>5, <1>6, <1>7, <1>8, <1>9, <1>10, <1>11,
     <1>12, <1>13, <1>14, <1>15, <1>16, <1>17, <1>18, <1>19, <1>20, <1>21,
     <1>22, <1>23, <1>24, <1>25, <1>26, <1>27, <1>28, <1>29, <1>30, <1>31,
     <1>32, <1>33, <1>34, <1>35, <1>36, <1>37, <1>38, <1>39 DEF Next,
     Kubelet, CleanupStep, PrepareStep, UnprepareStep

\* Under the lock nobody else changes what a goroutine found or wrote on disk.
LEMMA DiskStep == TypeOK /\ GoroutinesInv /\ DiskInv /\ [Next]_vars => DiskInv'
<1> SUFFICES ASSUME TypeOK /\ GoroutinesInv /\ DiskInv, [Next]_vars PROVE DiskInv'
  OBVIOUS
<1> USE ProcsFacts DEF TypeOK, DiskTypeOK, ProcTypeOK, EnvTypeOK,
    GoroutinesInv, DiskInv, Active, Locked, PrepareSteps, UnprepareSteps,
    disk, proc, cleanup, env, count
<1>1. CASE Start
  BY <1>1 DEF Start, KeepCheckpoint
<1>2. CASE Crash
  BY <1>2 DEF Crash, ProcessEnds
<1>3. CASE Reboot
  BY <1>3 DEF Reboot, ProcessEnds
<1>4. ASSUME NEW c \in Claims, Create(c) PROVE DiskInv'
  BY <1>4 DEF Create
<1>5. ASSUME NEW c \in Claims, Delete(c) PROVE DiskInv'
  BY <1>5 DEF Delete
<1>6. ASSUME NEW c \in Claims, PodStops(c) PROVE DiskInv'
  BY <1>6 DEF PodStops
<1>7. ASSUME NEW c \in Claims, NEW q \in Pods, PodArrives(c, q) PROVE DiskInv'
  BY <1>7 DEF PodArrives
<1>8. ASSUME NEW w \in Workers, NEW c \in Claims, CallPrepare(w, c) PROVE DiskInv'
  BY <1>8 DEF CallPrepare, Call
<1>9. ASSUME NEW w \in Workers, NEW c \in Claims, CallUnprepare(w, c) PROVE DiskInv'
  BY <1>9 DEF CallUnprepare, Call
<1>10. ASSUME NEW w \in Workers, Abandon(w) PROVE DiskInv'
  BY <1>10 DEF Abandon
<1>11. CASE CleanupTick
  BY <1>11 DEF CleanupTick
<1>12. CASE CleanupTake
  BY <1>12 DEF CleanupTake, Goto
<1>13. CASE CleanupList
  BY <1>13 DEF CleanupList, Goto
<1>14. CASE CleanupListFails
  BY <1>14 DEF CleanupListFails, Goto
<1>15. CASE CleanupDone
  BY <1>15 DEF CleanupDone, Goto
<1>16. ASSUME NEW c \in Claims, CleanupStale(c) PROVE DiskInv'
  BY <1>16 DEF CleanupStale, Goto
<1>17. ASSUME NEW c \in Claims, CleanupSkip(c) PROVE DiskInv'
  BY <1>17 DEF CleanupSkip
<1>18. ASSUME NEW c \in Claims, CleanupGetFails(c) PROVE DiskInv'
  BY <1>18 DEF CleanupGetFails
<1>19. ASSUME NEW p \in Procs, Acquire(p) PROVE DiskInv'
  BY <1>19 DEF Acquire
<1>20. ASSUME NEW p \in Procs, AcquireFails(p) PROVE DiskInv'
  BY <1>20 DEF AcquireFails, Return, Release, Done, Answered
<1>21. ASSUME NEW p \in Procs, StepFails(p) PROVE DiskInv'
  BY <1>21 DEF StepFails, Return, Release, Done, Answered
<1>22. ASSUME NEW p \in Procs, PrepareCached(p) PROVE DiskInv'
  BY <1>22 DEF PrepareCached, Return, Release, Done, Answered
<1>23. ASSUME NEW p \in Procs, PrepareBegin(p) PROVE DiskInv'
  BY <1>23 DEF PrepareBegin, Goto
<1>24. ASSUME NEW p \in Procs, PrepareLabel(p) PROVE DiskInv'
  BY <1>24 DEF PrepareLabel, Goto
<1>25. ASSUME NEW p \in Procs, PrepareLabelCancelled(p) PROVE DiskInv'
  BY <1>25 DEF PrepareLabelCancelled, Return, Release, Done, Answered
<1>26. ASSUME NEW p \in Procs, PrepareWipe(p) PROVE DiskInv'
  BY <1>26 DEF PrepareWipe, SetDir
<1>27. ASSUME NEW p \in Procs, PrepareWiped(p) PROVE DiskInv'
  BY <1>27 DEF PrepareWiped, SetDir, Goto
<1>28. ASSUME NEW p \in Procs, PrepareMkdir(p) PROVE DiskInv'
  BY <1>28 DEF PrepareMkdir, SetDir, Goto
<1>29. ASSUME NEW p \in Procs, PrepareMark(p) PROVE DiskInv'
  BY <1>29 DEF PrepareMark, SetDir, Goto
<1>30. ASSUME NEW p \in Procs, PrepareSpec(p) PROVE DiskInv'
  BY <1>30 DEF PrepareSpec, Goto
<1>31. ASSUME NEW p \in Procs, PrepareComplete(p) PROVE DiskInv'
  BY <1>31 DEF PrepareComplete, Return, Release, Done, Answered
<1>32. ASSUME NEW p \in Procs, UnprepareNoop(p) PROVE DiskInv'
  BY <1>32 DEF UnprepareNoop, Return, Release, Done, Answered
<1>33. ASSUME NEW p \in Procs, UnprepareBegin(p) PROVE DiskInv'
  BY <1>33 DEF UnprepareBegin, NextAfterEntryRead, Goto
<1>34. ASSUME NEW p \in Procs, NEW q \in Pods, UnprepareScan(p, q) PROVE DiskInv'
  BY <1>34 DEF UnprepareScan, SetDir, Goto
<1>35. ASSUME NEW p \in Procs, UnprepareScanned(p) PROVE DiskInv'
  BY <1>35 DEF UnprepareScanned, Goto
<1>36. ASSUME NEW p \in Procs, UnprepareRmdir(p) PROVE DiskInv'
  BY <1>36 DEF UnprepareRmdir, SetDir, Goto
<1>37. ASSUME NEW p \in Procs, UnprepareSpec(p) PROVE DiskInv'
  BY <1>37 DEF UnprepareSpec, Goto
<1>38. ASSUME NEW p \in Procs, UnprepareForget(p) PROVE DiskInv'
  BY <1>38 DEF UnprepareForget, Return, Release, Done, Answered
<1>39. CASE UNCHANGED vars
  BY <1>39 DEF vars
<1> QED
  BY <1>1, <1>2, <1>3, <1>4, <1>5, <1>6, <1>7, <1>8, <1>9, <1>10, <1>11,
     <1>12, <1>13, <1>14, <1>15, <1>16, <1>17, <1>18, <1>19, <1>20, <1>21,
     <1>22, <1>23, <1>24, <1>25, <1>26, <1>27, <1>28, <1>29, <1>30, <1>31,
     <1>32, <1>33, <1>34, <1>35, <1>36, <1>37, <1>38, <1>39 DEF Next,
     Kubelet, CleanupStep, PrepareStep, UnprepareStep

\* The boot id of the checkpoint is never ahead of the kernel's, and equals it
\* once initCheckpoint has run.
LEMMA BootStep == TypeOK /\ GoroutinesInv /\ BootInv /\ [Next]_vars => BootInv'
<1> SUFFICES ASSUME TypeOK /\ GoroutinesInv /\ BootInv, [Next]_vars PROVE BootInv'
  OBVIOUS
<1> USE ProcsFacts, ConstantsAssumption DEF TypeOK, DiskTypeOK,
    GoroutinesInv, BootInv, NoFile, NoBootID, disk
<1>1. CASE Start
  BY <1>1 DEF Start, KeepCheckpoint
<1>2. CASE Crash
  BY <1>2 DEF Crash, ProcessEnds
<1>3. CASE Reboot
  BY <1>3 DEF Reboot, ProcessEnds
<1>4. ASSUME NEW c \in Claims, Create(c) PROVE BootInv'
  BY <1>4 DEF Create
<1>5. ASSUME NEW c \in Claims, Delete(c) PROVE BootInv'
  BY <1>5 DEF Delete
<1>6. ASSUME NEW c \in Claims, PodStops(c) PROVE BootInv'
  BY <1>6 DEF PodStops
<1>7. ASSUME NEW c \in Claims, NEW q \in Pods, PodArrives(c, q) PROVE BootInv'
  BY <1>7 DEF PodArrives
<1>8. ASSUME NEW w \in Workers, NEW c \in Claims, CallPrepare(w, c) PROVE BootInv'
  BY <1>8 DEF CallPrepare, Call
<1>9. ASSUME NEW w \in Workers, NEW c \in Claims, CallUnprepare(w, c) PROVE BootInv'
  BY <1>9 DEF CallUnprepare, Call
<1>10. ASSUME NEW w \in Workers, Abandon(w) PROVE BootInv'
  BY <1>10 DEF Abandon
<1>11. CASE CleanupTick
  BY <1>11 DEF CleanupTick
<1>12. CASE CleanupTake
  BY <1>12 DEF CleanupTake, Goto
<1>13. CASE CleanupList
  BY <1>13 DEF CleanupList, Goto
<1>14. CASE CleanupListFails
  BY <1>14 DEF CleanupListFails, Goto
<1>15. CASE CleanupDone
  BY <1>15 DEF CleanupDone, Goto
<1>16. ASSUME NEW c \in Claims, CleanupStale(c) PROVE BootInv'
  BY <1>16 DEF CleanupStale, Goto
<1>17. ASSUME NEW c \in Claims, CleanupSkip(c) PROVE BootInv'
  BY <1>17 DEF CleanupSkip
<1>18. ASSUME NEW c \in Claims, CleanupGetFails(c) PROVE BootInv'
  BY <1>18 DEF CleanupGetFails
<1>19. ASSUME NEW p \in Procs, Acquire(p) PROVE BootInv'
  BY <1>19 DEF Acquire
<1>20. ASSUME NEW p \in Procs, AcquireFails(p) PROVE BootInv'
  BY <1>20 DEF AcquireFails, Return, Release, Done, Answered
<1>21. ASSUME NEW p \in Procs, StepFails(p) PROVE BootInv'
  BY <1>21 DEF StepFails, Return, Release, Done, Answered
<1>22. ASSUME NEW p \in Procs, PrepareCached(p) PROVE BootInv'
  BY <1>22 DEF PrepareCached, Return, Release, Done, Answered
<1>23. ASSUME NEW p \in Procs, PrepareBegin(p) PROVE BootInv'
  BY <1>23 DEF PrepareBegin, Goto
<1>24. ASSUME NEW p \in Procs, PrepareLabel(p) PROVE BootInv'
  BY <1>24 DEF PrepareLabel, Goto
<1>25. ASSUME NEW p \in Procs, PrepareLabelCancelled(p) PROVE BootInv'
  BY <1>25 DEF PrepareLabelCancelled, Return, Release, Done, Answered
<1>26. ASSUME NEW p \in Procs, PrepareWipe(p) PROVE BootInv'
  BY <1>26 DEF PrepareWipe, SetDir
<1>27. ASSUME NEW p \in Procs, PrepareWiped(p) PROVE BootInv'
  BY <1>27 DEF PrepareWiped, SetDir, Goto
<1>28. ASSUME NEW p \in Procs, PrepareMkdir(p) PROVE BootInv'
  BY <1>28 DEF PrepareMkdir, SetDir, Goto
<1>29. ASSUME NEW p \in Procs, PrepareMark(p) PROVE BootInv'
  BY <1>29 DEF PrepareMark, SetDir, Goto
<1>30. ASSUME NEW p \in Procs, PrepareSpec(p) PROVE BootInv'
  BY <1>30 DEF PrepareSpec, Goto
<1>31. ASSUME NEW p \in Procs, PrepareComplete(p) PROVE BootInv'
  BY <1>31 DEF PrepareComplete, Return, Release, Done, Answered
<1>32. ASSUME NEW p \in Procs, UnprepareNoop(p) PROVE BootInv'
  BY <1>32 DEF UnprepareNoop, Return, Release, Done, Answered
<1>33. ASSUME NEW p \in Procs, UnprepareBegin(p) PROVE BootInv'
  BY <1>33 DEF UnprepareBegin, NextAfterEntryRead, Goto
<1>34. ASSUME NEW p \in Procs, NEW q \in Pods, UnprepareScan(p, q) PROVE BootInv'
  BY <1>34 DEF UnprepareScan, SetDir, Goto
<1>35. ASSUME NEW p \in Procs, UnprepareScanned(p) PROVE BootInv'
  BY <1>35 DEF UnprepareScanned, Goto
<1>36. ASSUME NEW p \in Procs, UnprepareRmdir(p) PROVE BootInv'
  BY <1>36 DEF UnprepareRmdir, SetDir, Goto
<1>37. ASSUME NEW p \in Procs, UnprepareSpec(p) PROVE BootInv'
  BY <1>37 DEF UnprepareSpec, Goto
<1>38. ASSUME NEW p \in Procs, UnprepareForget(p) PROVE BootInv'
  BY <1>38 DEF UnprepareForget, Return, Release, Done, Answered
<1>39. CASE UNCHANGED vars
  BY <1>39 DEF vars
<1> QED
  BY <1>1, <1>2, <1>3, <1>4, <1>5, <1>6, <1>7, <1>8, <1>9, <1>10, <1>11,
     <1>12, <1>13, <1>14, <1>15, <1>16, <1>17, <1>18, <1>19, <1>20, <1>21,
     <1>22, <1>23, <1>24, <1>25, <1>26, <1>27, <1>28, <1>29, <1>30, <1>31,
     <1>32, <1>33, <1>34, <1>35, <1>36, <1>37, <1>38, <1>39 DEF Next,
     Kubelet, CleanupStep, PrepareStep, UnprepareStep

\* A claim the cleaner found stale stays deleted: UIDs are not used again.
LEMMA ApiStep == TypeOK /\ GoroutinesInv /\ DiskInv /\ ApiInv /\ [Next]_vars => ApiInv'
<1> SUFFICES ASSUME TypeOK /\ GoroutinesInv /\ DiskInv /\ ApiInv, [Next]_vars PROVE ApiInv'
  OBVIOUS
<1> USE ProcsFacts DEF TypeOK, DiskTypeOK, ProcTypeOK, EnvTypeOK,
    GoroutinesInv, DiskInv, ApiInv, CleanupOnlyStale, Lookup, Stale, Active,
    Locked, PrepareSteps, UnprepareSteps, disk, proc, cleanup, env, count
<1>1. CASE Start
  BY <1>1 DEF Start, KeepCheckpoint
<1>2. CASE Crash
  BY <1>2 DEF Crash, ProcessEnds
<1>3. CASE Reboot
  BY <1>3 DEF Reboot, ProcessEnds
<1>4. ASSUME NEW c \in Claims, Create(c) PROVE ApiInv'
  BY <1>4 DEF Create
<1>5. ASSUME NEW c \in Claims, Delete(c) PROVE ApiInv'
  BY <1>5 DEF Delete
<1>6. ASSUME NEW c \in Claims, PodStops(c) PROVE ApiInv'
  BY <1>6 DEF PodStops
<1>7. ASSUME NEW c \in Claims, NEW q \in Pods, PodArrives(c, q) PROVE ApiInv'
  BY <1>7 DEF PodArrives
<1>8. ASSUME NEW w \in Workers, NEW c \in Claims, CallPrepare(w, c) PROVE ApiInv'
  BY <1>8 DEF CallPrepare, Call
<1>9. ASSUME NEW w \in Workers, NEW c \in Claims, CallUnprepare(w, c) PROVE ApiInv'
  BY <1>9 DEF CallUnprepare, Call
<1>10. ASSUME NEW w \in Workers, Abandon(w) PROVE ApiInv'
  BY <1>10 DEF Abandon
<1>11. CASE CleanupTick
  BY <1>11 DEF CleanupTick
<1>12. CASE CleanupTake
  BY <1>12 DEF CleanupTake, Goto
<1>13. CASE CleanupList
  BY <1>13 DEF CleanupList, Goto
<1>14. CASE CleanupListFails
  BY <1>14 DEF CleanupListFails, Goto
<1>15. CASE CleanupDone
  BY <1>15 DEF CleanupDone, Goto
<1>16. ASSUME NEW c \in Claims, CleanupStale(c) PROVE ApiInv'
  BY <1>16 DEF CleanupStale, Goto
<1>17. ASSUME NEW c \in Claims, CleanupSkip(c) PROVE ApiInv'
  BY <1>17 DEF CleanupSkip
<1>18. ASSUME NEW c \in Claims, CleanupGetFails(c) PROVE ApiInv'
  BY <1>18 DEF CleanupGetFails
<1>19. ASSUME NEW p \in Procs, Acquire(p) PROVE ApiInv'
  BY <1>19 DEF Acquire
<1>20. ASSUME NEW p \in Procs, AcquireFails(p) PROVE ApiInv'
  BY <1>20 DEF AcquireFails, Return, Release, Done, Answered
<1>21. ASSUME NEW p \in Procs, StepFails(p) PROVE ApiInv'
  BY <1>21 DEF StepFails, Return, Release, Done, Answered
<1>22. ASSUME NEW p \in Procs, PrepareCached(p) PROVE ApiInv'
  BY <1>22 DEF PrepareCached, Return, Release, Done, Answered
<1>23. ASSUME NEW p \in Procs, PrepareBegin(p) PROVE ApiInv'
  BY <1>23 DEF PrepareBegin, Goto
<1>24. ASSUME NEW p \in Procs, PrepareLabel(p) PROVE ApiInv'
  BY <1>24 DEF PrepareLabel, Goto
<1>25. ASSUME NEW p \in Procs, PrepareLabelCancelled(p) PROVE ApiInv'
  BY <1>25 DEF PrepareLabelCancelled, Return, Release, Done, Answered
<1>26. ASSUME NEW p \in Procs, PrepareWipe(p) PROVE ApiInv'
  BY <1>26 DEF PrepareWipe, SetDir
<1>27. ASSUME NEW p \in Procs, PrepareWiped(p) PROVE ApiInv'
  BY <1>27 DEF PrepareWiped, SetDir, Goto
<1>28. ASSUME NEW p \in Procs, PrepareMkdir(p) PROVE ApiInv'
  BY <1>28 DEF PrepareMkdir, SetDir, Goto
<1>29. ASSUME NEW p \in Procs, PrepareMark(p) PROVE ApiInv'
  BY <1>29 DEF PrepareMark, SetDir, Goto
<1>30. ASSUME NEW p \in Procs, PrepareSpec(p) PROVE ApiInv'
  BY <1>30 DEF PrepareSpec, Goto
<1>31. ASSUME NEW p \in Procs, PrepareComplete(p) PROVE ApiInv'
  BY <1>31 DEF PrepareComplete, Return, Release, Done, Answered
<1>32. ASSUME NEW p \in Procs, UnprepareNoop(p) PROVE ApiInv'
  BY <1>32 DEF UnprepareNoop, Return, Release, Done, Answered
<1>33. ASSUME NEW p \in Procs, UnprepareBegin(p) PROVE ApiInv'
  BY <1>33 DEF UnprepareBegin, NextAfterEntryRead, Goto
<1>34. ASSUME NEW p \in Procs, NEW q \in Pods, UnprepareScan(p, q) PROVE ApiInv'
  BY <1>34 DEF UnprepareScan, SetDir, Goto
<1>35. ASSUME NEW p \in Procs, UnprepareScanned(p) PROVE ApiInv'
  BY <1>35 DEF UnprepareScanned, Goto
<1>36. ASSUME NEW p \in Procs, UnprepareRmdir(p) PROVE ApiInv'
  BY <1>36 DEF UnprepareRmdir, SetDir, Goto
<1>37. ASSUME NEW p \in Procs, UnprepareSpec(p) PROVE ApiInv'
  BY <1>37 DEF UnprepareSpec, Goto
<1>38. ASSUME NEW p \in Procs, UnprepareForget(p) PROVE ApiInv'
  BY <1>38 DEF UnprepareForget, Return, Release, Done, Answered
<1>39. CASE UNCHANGED vars
  BY <1>39 DEF vars
<1> QED
  BY <1>1, <1>2, <1>3, <1>4, <1>5, <1>6, <1>7, <1>8, <1>9, <1>10, <1>11,
     <1>12, <1>13, <1>14, <1>15, <1>16, <1>17, <1>18, <1>19, <1>20, <1>21,
     <1>22, <1>23, <1>24, <1>25, <1>26, <1>27, <1>28, <1>29, <1>30, <1>31,
     <1>32, <1>33, <1>34, <1>35, <1>36, <1>37, <1>38, <1>39 DEF Next,
     Kubelet, CleanupStep, PrepareStep, UnprepareStep

\* A handler prepares for the pod that reserves the claim and undoes only what
\* the kubelet releases, if no abandoned Unprepare starts late.
LEMMA KubeletStep == Timely /\ TypeOK /\ GoroutinesInv /\ KubeletInv /\ [Next]_vars => KubeletInv'
<1> SUFFICES ASSUME Timely /\ TypeOK /\ GoroutinesInv /\ KubeletInv, [Next]_vars PROVE KubeletInv'
  OBVIOUS
<1> USE ProcsFacts DEF Timely, TypeOK, DiskTypeOK, ProcTypeOK, EnvTypeOK,
    GoroutinesInv, KubeletInv, Calling, Active, Locked, PrepareSteps,
    UnprepareSteps, disk, proc, cleanup, env, count
<1>1. CASE Start
  BY <1>1 DEF Start, KeepCheckpoint
<1>2. CASE Crash
  BY <1>2 DEF Crash, ProcessEnds
<1>3. CASE Reboot
  BY <1>3 DEF Reboot, ProcessEnds
<1>4. ASSUME NEW c \in Claims, Create(c) PROVE KubeletInv'
  BY <1>4 DEF Create
<1>5. ASSUME NEW c \in Claims, Delete(c) PROVE KubeletInv'
  BY <1>5 DEF Delete
<1>6. ASSUME NEW c \in Claims, PodStops(c) PROVE KubeletInv'
  BY <1>6 DEF PodStops
<1>7. ASSUME NEW c \in Claims, NEW q \in Pods, PodArrives(c, q) PROVE KubeletInv'
  BY <1>7 DEF PodArrives
<1>8. ASSUME NEW w \in Workers, NEW c \in Claims, CallPrepare(w, c) PROVE KubeletInv'
  BY <1>8 DEF CallPrepare, Call
<1>9. ASSUME NEW w \in Workers, NEW c \in Claims, CallUnprepare(w, c) PROVE KubeletInv'
  BY <1>9 DEF CallUnprepare, Call
<1>10. ASSUME NEW w \in Workers, Abandon(w) PROVE KubeletInv'
  BY <1>10 DEF Abandon
<1>11. CASE CleanupTick
  BY <1>11 DEF CleanupTick
<1>12. CASE CleanupTake
  BY <1>12 DEF CleanupTake, Goto
<1>13. CASE CleanupList
  BY <1>13 DEF CleanupList, Goto
<1>14. CASE CleanupListFails
  BY <1>14 DEF CleanupListFails, Goto
<1>15. CASE CleanupDone
  BY <1>15 DEF CleanupDone, Goto
<1>16. ASSUME NEW c \in Claims, CleanupStale(c) PROVE KubeletInv'
  BY <1>16 DEF CleanupStale, Goto
<1>17. ASSUME NEW c \in Claims, CleanupSkip(c) PROVE KubeletInv'
  BY <1>17 DEF CleanupSkip
<1>18. ASSUME NEW c \in Claims, CleanupGetFails(c) PROVE KubeletInv'
  BY <1>18 DEF CleanupGetFails
<1>19. ASSUME NEW p \in Procs, Acquire(p) PROVE KubeletInv'
  BY <1>19 DEF Acquire
<1>20. ASSUME NEW p \in Procs, AcquireFails(p) PROVE KubeletInv'
  BY <1>20 DEF AcquireFails, Return, Release, Done, Answered
<1>21. ASSUME NEW p \in Procs, StepFails(p) PROVE KubeletInv'
  BY <1>21 DEF StepFails, Return, Release, Done, Answered
<1>22. ASSUME NEW p \in Procs, PrepareCached(p) PROVE KubeletInv'
  BY <1>22 DEF PrepareCached, Return, Release, Done, Answered
<1>23. ASSUME NEW p \in Procs, PrepareBegin(p) PROVE KubeletInv'
  BY <1>23 DEF PrepareBegin, Goto
<1>24. ASSUME NEW p \in Procs, PrepareLabel(p) PROVE KubeletInv'
  BY <1>24 DEF PrepareLabel, Goto
<1>25. ASSUME NEW p \in Procs, PrepareLabelCancelled(p) PROVE KubeletInv'
  BY <1>25 DEF PrepareLabelCancelled, Return, Release, Done, Answered
<1>26. ASSUME NEW p \in Procs, PrepareWipe(p) PROVE KubeletInv'
  BY <1>26 DEF PrepareWipe, SetDir
<1>27. ASSUME NEW p \in Procs, PrepareWiped(p) PROVE KubeletInv'
  BY <1>27 DEF PrepareWiped, SetDir, Goto
<1>28. ASSUME NEW p \in Procs, PrepareMkdir(p) PROVE KubeletInv'
  BY <1>28 DEF PrepareMkdir, SetDir, Goto
<1>29. ASSUME NEW p \in Procs, PrepareMark(p) PROVE KubeletInv'
  BY <1>29 DEF PrepareMark, SetDir, Goto
<1>30. ASSUME NEW p \in Procs, PrepareSpec(p) PROVE KubeletInv'
  BY <1>30 DEF PrepareSpec, Goto
<1>31. ASSUME NEW p \in Procs, PrepareComplete(p) PROVE KubeletInv'
  BY <1>31 DEF PrepareComplete, Return, Release, Done, Answered
<1>32. ASSUME NEW p \in Procs, UnprepareNoop(p) PROVE KubeletInv'
  BY <1>32 DEF UnprepareNoop, Return, Release, Done, Answered
<1>33. ASSUME NEW p \in Procs, UnprepareBegin(p) PROVE KubeletInv'
  BY <1>33 DEF UnprepareBegin, NextAfterEntryRead, Goto
<1>34. ASSUME NEW p \in Procs, NEW q \in Pods, UnprepareScan(p, q) PROVE KubeletInv'
  BY <1>34 DEF UnprepareScan, SetDir, Goto
<1>35. ASSUME NEW p \in Procs, UnprepareScanned(p) PROVE KubeletInv'
  BY <1>35 DEF UnprepareScanned, Goto
<1>36. ASSUME NEW p \in Procs, UnprepareRmdir(p) PROVE KubeletInv'
  BY <1>36 DEF UnprepareRmdir, SetDir, Goto
<1>37. ASSUME NEW p \in Procs, UnprepareSpec(p) PROVE KubeletInv'
  BY <1>37 DEF UnprepareSpec, Goto
<1>38. ASSUME NEW p \in Procs, UnprepareForget(p) PROVE KubeletInv'
  BY <1>38 DEF UnprepareForget, Return, Release, Done, Answered
<1>39. CASE UNCHANGED vars
  BY <1>39 DEF vars
<1> QED
  BY <1>1, <1>2, <1>3, <1>4, <1>5, <1>6, <1>7, <1>8, <1>9, <1>10, <1>11,
     <1>12, <1>13, <1>14, <1>15, <1>16, <1>17, <1>18, <1>19, <1>20, <1>21,
     <1>22, <1>23, <1>24, <1>25, <1>26, <1>27, <1>28, <1>29, <1>30, <1>31,
     <1>32, <1>33, <1>34, <1>35, <1>36, <1>37, <1>38, <1>39 DEF Next,
     Kubelet, CleanupStep, PrepareStep, UnprepareStep

\* Nothing takes the files of a completed claim away while it may be used.
LEMMA CompletedStep == NoAdoption /\ IndInv /\ [Next]_vars => CompletedInv'
<1> SUFFICES ASSUME NoAdoption /\ IndInv, [Next]_vars PROVE CompletedInv'
  OBVIOUS
<1> USE ProcsFacts, ConstantsAssumption DEF NoAdoption, IndInv, TypeOK,
    DiskTypeOK, ProcTypeOK, EnvTypeOK, GoroutinesInv, DiskInv, KubeletInv,
    ApiInv, BootInv, CompletedInv, CleanupOnlyStale, Current, Usable,
    NoFile, NoBootID, AlreadyPrepared, Active, Locked, PrepareSteps,
    UnprepareSteps, disk, proc, cleanup, env, count
<1>1. CASE Start
  BY <1>1 DEF Start, KeepCheckpoint
<1>2. CASE Crash
  BY <1>2 DEF Crash, ProcessEnds
<1>3. CASE Reboot
  BY <1>3 DEF Reboot, ProcessEnds
<1>4. ASSUME NEW c \in Claims, Create(c) PROVE CompletedInv'
  BY <1>4 DEF Create
<1>5. ASSUME NEW c \in Claims, Delete(c) PROVE CompletedInv'
  BY <1>5 DEF Delete
<1>6. ASSUME NEW c \in Claims, PodStops(c) PROVE CompletedInv'
  BY <1>6 DEF PodStops
<1>7. ASSUME NEW c \in Claims, NEW q \in Pods, PodArrives(c, q) PROVE CompletedInv'
  BY <1>7 DEF PodArrives
<1>8. ASSUME NEW w \in Workers, NEW c \in Claims, CallPrepare(w, c) PROVE CompletedInv'
  BY <1>8 DEF CallPrepare, Call
<1>9. ASSUME NEW w \in Workers, NEW c \in Claims, CallUnprepare(w, c) PROVE CompletedInv'
  BY <1>9 DEF CallUnprepare, Call
<1>10. ASSUME NEW w \in Workers, Abandon(w) PROVE CompletedInv'
  BY <1>10 DEF Abandon
<1>11. CASE CleanupTick
  BY <1>11 DEF CleanupTick
<1>12. CASE CleanupTake
  BY <1>12 DEF CleanupTake, Goto
<1>13. CASE CleanupList
  BY <1>13 DEF CleanupList, Goto
<1>14. CASE CleanupListFails
  BY <1>14 DEF CleanupListFails, Goto
<1>15. CASE CleanupDone
  BY <1>15 DEF CleanupDone, Goto
<1>16. ASSUME NEW c \in Claims, CleanupStale(c) PROVE CompletedInv'
  BY <1>16 DEF CleanupStale, Goto
<1>17. ASSUME NEW c \in Claims, CleanupSkip(c) PROVE CompletedInv'
  BY <1>17 DEF CleanupSkip
<1>18. ASSUME NEW c \in Claims, CleanupGetFails(c) PROVE CompletedInv'
  BY <1>18 DEF CleanupGetFails
<1>19. ASSUME NEW p \in Procs, Acquire(p) PROVE CompletedInv'
  BY <1>19 DEF Acquire
<1>20. ASSUME NEW p \in Procs, AcquireFails(p) PROVE CompletedInv'
  BY <1>20 DEF AcquireFails, Return, Release, Done, Answered
<1>21. ASSUME NEW p \in Procs, StepFails(p) PROVE CompletedInv'
  BY <1>21 DEF StepFails, Return, Release, Done, Answered
<1>22. ASSUME NEW p \in Procs, PrepareCached(p) PROVE CompletedInv'
  BY <1>22 DEF PrepareCached, Return, Release, Done, Answered
<1>23. ASSUME NEW p \in Procs, PrepareBegin(p) PROVE CompletedInv'
  BY <1>23 DEF PrepareBegin, Goto
<1>24. ASSUME NEW p \in Procs, PrepareLabel(p) PROVE CompletedInv'
  BY <1>24 DEF PrepareLabel, Goto
<1>25. ASSUME NEW p \in Procs, PrepareLabelCancelled(p) PROVE CompletedInv'
  BY <1>25 DEF PrepareLabelCancelled, Return, Release, Done, Answered
<1>26. ASSUME NEW p \in Procs, PrepareWipe(p) PROVE CompletedInv'
  BY <1>26 DEF PrepareWipe, SetDir
<1>27. ASSUME NEW p \in Procs, PrepareWiped(p) PROVE CompletedInv'
  BY <1>27 DEF PrepareWiped, SetDir, Goto
<1>28. ASSUME NEW p \in Procs, PrepareMkdir(p) PROVE CompletedInv'
  BY <1>28 DEF PrepareMkdir, SetDir, Goto
<1>29. ASSUME NEW p \in Procs, PrepareMark(p) PROVE CompletedInv'
  BY <1>29 DEF PrepareMark, SetDir, Goto
<1>30. ASSUME NEW p \in Procs, PrepareSpec(p) PROVE CompletedInv'
  BY <1>30 DEF PrepareSpec, Goto
<1>31. ASSUME NEW p \in Procs, PrepareComplete(p) PROVE CompletedInv'
  BY <1>31 DEF PrepareComplete, Return, Release, Done, Answered
<1>32. ASSUME NEW p \in Procs, UnprepareNoop(p) PROVE CompletedInv'
  BY <1>32 DEF UnprepareNoop, Return, Release, Done, Answered
<1>33. ASSUME NEW p \in Procs, UnprepareBegin(p) PROVE CompletedInv'
  BY <1>33 DEF UnprepareBegin, NextAfterEntryRead, Goto
<1>34. ASSUME NEW p \in Procs, NEW q \in Pods, UnprepareScan(p, q) PROVE CompletedInv'
  BY <1>34 DEF UnprepareScan, SetDir, Goto
<1>35. ASSUME NEW p \in Procs, UnprepareScanned(p) PROVE CompletedInv'
  BY <1>35 DEF UnprepareScanned, Goto
<1>36. ASSUME NEW p \in Procs, UnprepareRmdir(p) PROVE CompletedInv'
  BY <1>36 DEF UnprepareRmdir, SetDir, Goto
<1>37. ASSUME NEW p \in Procs, UnprepareSpec(p) PROVE CompletedInv'
  BY <1>37 DEF UnprepareSpec, Goto
<1>38. ASSUME NEW p \in Procs, UnprepareForget(p) PROVE CompletedInv'
  BY <1>38 DEF UnprepareForget, Return, Release, Done, Answered
<1>39. CASE UNCHANGED vars
  BY <1>39 DEF vars
<1> QED
  BY <1>1, <1>2, <1>3, <1>4, <1>5, <1>6, <1>7, <1>8, <1>9, <1>10, <1>11,
     <1>12, <1>13, <1>14, <1>15, <1>16, <1>17, <1>18, <1>19, <1>20, <1>21,
     <1>22, <1>23, <1>24, <1>25, <1>26, <1>27, <1>28, <1>29, <1>30, <1>31,
     <1>32, <1>33, <1>34, <1>35, <1>36, <1>37, <1>38, <1>39 DEF Next,
     Kubelet, CleanupStep, PrepareStep, UnprepareStep

\* Init, on a fresh and on an upgraded node, is well typed.
LEMMA InitType == Init => TypeOK
<1> SUFFICES ASSUME Init PROVE TypeOK
  OBVIOUS
<1> USE ProcsFacts, StepsFacts DEF Init
<1>1. DiskTypeOK
  BY DEF DiskTypeOK, NoFile, NoBootID
<1>2. ProcTypeOK
  BY DEF ProcTypeOK
<1>3. EnvTypeOK
  BY DEF EnvTypeOK
<1> QED
  BY <1>1, <1>2, <1>3 DEF TypeOK

\* Init establishes the inductive invariant.
LEMMA InitInd == Init => IndInv
<1> SUFFICES ASSUME Init PROVE IndInv
  OBVIOUS
<1>1. TypeOK
  BY InitType
<1>2. GoroutinesInv
  BY ProcsFacts DEF Init, GoroutinesInv, Active, Locked, PrepareSteps, UnprepareSteps
<1>3. DiskInv
  BY ProcsFacts DEF Init, DiskInv, PrepareSteps, UnprepareSteps
<1>4. KubeletInv
  BY ProcsFacts DEF Init, KubeletInv, Active, Locked, PrepareSteps, UnprepareSteps
<1>5. ApiInv
  BY ProcsFacts DEF Init, ApiInv, CleanupOnlyStale, Active, Locked,
     PrepareSteps, UnprepareSteps
<1>6. BootInv
  BY DEF Init, BootInv, NoFile, NoBootID
<1>7. CompletedInv
  BY DEF Init, CompletedInv, Usable, Current, NoFile, NoBootID
<1> QED
  BY <1>1, <1>2, <1>3, <1>4, <1>5, <1>6, <1>7 DEF IndInv

(***************************************************************************)
(* The state of the driver keeps its types: whatever goroutines, failures, *)
(* crashes and reboots do, and for every set of claims, pods and workers.  *)
(***************************************************************************)
THEOREM TypeCorrect == Spec => []TypeOK
<1>1. Init => TypeOK /\ GoroutinesInv
  BY InitInd DEF IndInv
<1>2. TypeOK /\ GoroutinesInv /\ [Next]_vars => (TypeOK /\ GoroutinesInv)'
  BY DiskTypeStep, ProcTypeStep, EnvTypeStep, GoroutinesStep DEF TypeOK
<1> QED
  BY <1>1, <1>2, PTL DEF Spec

\* Every step preserves the inductive invariant.
LEMMA IndStep ==
    ASSUME Timely, NoAdoption PROVE IndInv /\ [Next]_vars => IndInv'
<1> SUFFICES ASSUME IndInv, [Next]_vars PROVE IndInv'
  OBVIOUS
<1>1. TypeOK'
  BY DiskTypeStep, ProcTypeStep, EnvTypeStep DEF IndInv, TypeOK
<1>2. GoroutinesInv' /\ DiskInv' /\ BootInv' /\ ApiInv'
  BY GoroutinesStep, DiskStep, BootStep, ApiStep DEF IndInv
<1>3. KubeletInv'
  BY Timely, KubeletStep DEF IndInv
<1>4. CompletedInv'
  BY NoAdoption, CompletedStep
<1> QED
  BY <1>1, <1>2, <1>3, <1>4 DEF IndInv

(***************************************************************************)
(* The inductive invariant of the claim life cycle holds throughout, for   *)
(* every number of claims, crashes, reboots and failures, under the two    *)
(* assumptions Timely and NoAdoption: what the checkpoint, the CDI specs   *)
(* and the reservations on disk say of each claim at every step of every   *)
(* goroutine.                                                              *)
(***************************************************************************)
THEOREM Inductive == ASSUME Timely, NoAdoption PROVE Spec => []IndInv
<1>1. IndInv /\ [Next]_vars => IndInv'
  BY Timely, NoAdoption, IndStep
<1> QED
  BY InitInd, <1>1, PTL DEF Spec

(***************************************************************************)
(* Containers that run on a claim the API server knows find it prepared:   *)
(* provided no abandoned Unprepare starts late (Timely) and no checkpoint  *)
(* without a boot id meets a reboot (NoAdoption).  Neither can be dropped: *)
(* TLC has a counterexample without each.                                  *)
(***************************************************************************)
THEOREM RunningClaimsStayUsable ==
    ASSUME Timely, NoAdoption PROVE Spec => []RunningClaimUsable
<1>1. IndInv => RunningClaimUsable
  BY DEF IndInv, CompletedInv, RunningClaimUsable, Usable
<1> QED
  BY Timely, NoAdoption, Inductive, <1>1, PTL

(***************************************************************************)
(* The cleanup manager unprepares deleted claims only, whatever happened   *)
(* between its read of the checkpoint, its Get and its unprepare callback. *)
(***************************************************************************)
THEOREM CleanupSparesLiveClaims == Spec => []CleanupOnlyStale
<1> DEFINE Inv == TypeOK /\ GoroutinesInv /\ DiskInv /\ ApiInv
<1>1. Init => Inv
  BY InitInd DEF IndInv
<1>2. Inv /\ [Next]_vars => Inv'
  BY DiskTypeStep, ProcTypeStep, EnvTypeStep, GoroutinesStep, DiskStep,
     ApiStep DEF TypeOK
<1>3. Inv => CleanupOnlyStale
  BY DEF ApiInv
<1> QED
  BY <1>1, <1>2, <1>3, PTL DEF Spec

-----------------------------------------------------------------------------
(* Cache directories stay tracked, on a node that does not reboot.          *)

\* Behind OwnedDirIsTracked: what Unprepare has established before it forgets
\* the claim, and that a node without a checkpoint has no directory of ours.
TrackedInv ==
    /\ OwnedDirIsTracked
    /\ \A p \in Procs : pc[p] \in {"delspec", "forget"} =>
        \A q \in Pods : dir[claim[p]][q] # "owned"
    /\ \A c \in Claims : cpBoot = NoFile => cp[c] = "absent"
    /\ boot = 1

\* Without reboots, no step leaves an owned directory without an entry.
LEMMA TrackedStep ==
    MaxReboots = 0 /\ TypeOK /\ GoroutinesInv /\ DiskInv /\ BootInv /\ TrackedInv /\ [Next]_vars
      => TrackedInv'
<1> SUFFICES ASSUME MaxReboots = 0 /\ TypeOK /\ GoroutinesInv /\ DiskInv /\ BootInv /\ TrackedInv,
                    [Next]_vars
             PROVE  TrackedInv'
  OBVIOUS
<1> USE ProcsFacts DEF TypeOK, DiskTypeOK, ProcTypeOK, EnvTypeOK,
    GoroutinesInv, DiskInv, BootInv, TrackedInv, OwnedDirIsTracked, NoFile,
    NoBootID, Active, Locked, PrepareSteps, UnprepareSteps, disk, proc,
    cleanup, env, count
<1>1. CASE Start
  BY <1>1 DEF Start, KeepCheckpoint
<1>2. CASE Crash
  BY <1>2 DEF Crash, ProcessEnds
<1>3. CASE Reboot
  BY <1>3 DEF Reboot, ProcessEnds
<1>4. ASSUME NEW c \in Claims, Create(c) PROVE TrackedInv'
  BY <1>4 DEF Create
<1>5. ASSUME NEW c \in Claims, Delete(c) PROVE TrackedInv'
  BY <1>5 DEF Delete
<1>6. ASSUME NEW c \in Claims, PodStops(c) PROVE TrackedInv'
  BY <1>6 DEF PodStops
<1>7. ASSUME NEW c \in Claims, NEW q \in Pods, PodArrives(c, q) PROVE TrackedInv'
  BY <1>7 DEF PodArrives
<1>8. ASSUME NEW w \in Workers, NEW c \in Claims, CallPrepare(w, c) PROVE TrackedInv'
  BY <1>8 DEF CallPrepare, Call
<1>9. ASSUME NEW w \in Workers, NEW c \in Claims, CallUnprepare(w, c) PROVE TrackedInv'
  BY <1>9 DEF CallUnprepare, Call
<1>10. ASSUME NEW w \in Workers, Abandon(w) PROVE TrackedInv'
  BY <1>10 DEF Abandon
<1>11. CASE CleanupTick
  BY <1>11 DEF CleanupTick
<1>12. CASE CleanupTake
  BY <1>12 DEF CleanupTake, Goto
<1>13. CASE CleanupList
  BY <1>13 DEF CleanupList, Goto
<1>14. CASE CleanupListFails
  BY <1>14 DEF CleanupListFails, Goto
<1>15. CASE CleanupDone
  BY <1>15 DEF CleanupDone, Goto
<1>16. ASSUME NEW c \in Claims, CleanupStale(c) PROVE TrackedInv'
  BY <1>16 DEF CleanupStale, Goto
<1>17. ASSUME NEW c \in Claims, CleanupSkip(c) PROVE TrackedInv'
  BY <1>17 DEF CleanupSkip
<1>18. ASSUME NEW c \in Claims, CleanupGetFails(c) PROVE TrackedInv'
  BY <1>18 DEF CleanupGetFails
<1>19. ASSUME NEW p \in Procs, Acquire(p) PROVE TrackedInv'
  BY <1>19 DEF Acquire
<1>20. ASSUME NEW p \in Procs, AcquireFails(p) PROVE TrackedInv'
  BY <1>20 DEF AcquireFails, Return, Release, Done, Answered
<1>21. ASSUME NEW p \in Procs, StepFails(p) PROVE TrackedInv'
  BY <1>21 DEF StepFails, Return, Release, Done, Answered
<1>22. ASSUME NEW p \in Procs, PrepareCached(p) PROVE TrackedInv'
  BY <1>22 DEF PrepareCached, Return, Release, Done, Answered
<1>23. ASSUME NEW p \in Procs, PrepareBegin(p) PROVE TrackedInv'
  BY <1>23 DEF PrepareBegin, Goto
<1>24. ASSUME NEW p \in Procs, PrepareLabel(p) PROVE TrackedInv'
  BY <1>24 DEF PrepareLabel, Goto
<1>25. ASSUME NEW p \in Procs, PrepareLabelCancelled(p) PROVE TrackedInv'
  BY <1>25 DEF PrepareLabelCancelled, Return, Release, Done, Answered
<1>26. ASSUME NEW p \in Procs, PrepareWipe(p) PROVE TrackedInv'
  BY <1>26 DEF PrepareWipe, SetDir
<1>27. ASSUME NEW p \in Procs, PrepareWiped(p) PROVE TrackedInv'
  BY <1>27 DEF PrepareWiped, SetDir, Goto
<1>28. ASSUME NEW p \in Procs, PrepareMkdir(p) PROVE TrackedInv'
  BY <1>28 DEF PrepareMkdir, SetDir, Goto
<1>29. ASSUME NEW p \in Procs, PrepareMark(p) PROVE TrackedInv'
  BY <1>29 DEF PrepareMark, SetDir, Goto
<1>30. ASSUME NEW p \in Procs, PrepareSpec(p) PROVE TrackedInv'
  BY <1>30 DEF PrepareSpec, Goto
<1>31. ASSUME NEW p \in Procs, PrepareComplete(p) PROVE TrackedInv'
  BY <1>31 DEF PrepareComplete, Return, Release, Done, Answered
<1>32. ASSUME NEW p \in Procs, UnprepareNoop(p) PROVE TrackedInv'
  BY <1>32 DEF UnprepareNoop, Return, Release, Done, Answered
<1>33. ASSUME NEW p \in Procs, UnprepareBegin(p) PROVE TrackedInv'
  BY <1>33 DEF UnprepareBegin, NextAfterEntryRead, Goto
<1>34. ASSUME NEW p \in Procs, NEW q \in Pods, UnprepareScan(p, q) PROVE TrackedInv'
  BY <1>34 DEF UnprepareScan, SetDir, Goto
<1>35. ASSUME NEW p \in Procs, UnprepareScanned(p) PROVE TrackedInv'
  BY <1>35 DEF UnprepareScanned, Goto
<1>36. ASSUME NEW p \in Procs, UnprepareRmdir(p) PROVE TrackedInv'
  BY <1>36 DEF UnprepareRmdir, SetDir, Goto
<1>37. ASSUME NEW p \in Procs, UnprepareSpec(p) PROVE TrackedInv'
  BY <1>37 DEF UnprepareSpec, Goto
<1>38. ASSUME NEW p \in Procs, UnprepareForget(p) PROVE TrackedInv'
  BY <1>38 DEF UnprepareForget, Return, Release, Done, Answered
<1>39. CASE UNCHANGED vars
  BY <1>39 DEF vars
<1> QED
  BY <1>1, <1>2, <1>3, <1>4, <1>5, <1>6, <1>7, <1>8, <1>9, <1>10, <1>11,
     <1>12, <1>13, <1>14, <1>15, <1>16, <1>17, <1>18, <1>19, <1>20, <1>21,
     <1>22, <1>23, <1>24, <1>25, <1>26, <1>27, <1>28, <1>29, <1>30, <1>31,
     <1>32, <1>33, <1>34, <1>35, <1>36, <1>37, <1>38, <1>39 DEF Next,
     Kubelet, CleanupStep, PrepareStep, UnprepareStep

(***************************************************************************)
(* A cache directory with the claim's marker never outlives the claim's    *)
(* checkpoint entry: wherever Prepare or Unprepare stopped, a later        *)
(* Unprepare finds it.  The node must not reboot: then the checkpoint is   *)
(* discarded and the directories are not.                                  *)
(***************************************************************************)
THEOREM OwnedDirsStayTracked ==
    ASSUME MaxReboots = 0 PROVE Spec => []OwnedDirIsTracked
<1> DEFINE Inv == TypeOK /\ GoroutinesInv /\ DiskInv /\ BootInv /\ TrackedInv
<1>1. Init => Inv
  <2> SUFFICES ASSUME Init PROVE TrackedInv
    BY InitInd DEF IndInv
  <2> QED
    BY DEF Init, TrackedInv, OwnedDirIsTracked, NoFile, NoBootID
<1>2. Inv /\ [Next]_vars => Inv'
  BY MaxReboots = 0, DiskTypeStep, ProcTypeStep, EnvTypeStep,
     GoroutinesStep, DiskStep, BootStep, TrackedStep DEF TypeOK
<1>3. Inv => OwnedDirIsTracked
  BY DEF TrackedInv
<1> QED
  BY <1>1, <1>2, <1>3, PTL DEF Spec

-----------------------------------------------------------------------------
(* Who changes a checkpoint entry.                                          *)

\* The step that EntryChangesUnderLock allows.
EntryStep ==
    \A c \in Claims : cp'[c] # cp[c] =>
        \/ pulock # None /\ claim[pulock] = c
        \/ ~up /\ up' /\ cpBoot # boot

\* A step that changes an entry is one EntryChangesUnderLock allows.
LEMMA EntryStepAllowed == TypeOK /\ GoroutinesInv /\ [Next]_vars => EntryStep
<1> SUFFICES ASSUME TypeOK /\ GoroutinesInv, [Next]_vars PROVE EntryStep
  OBVIOUS
<1> USE ProcsFacts DEF TypeOK, DiskTypeOK, ProcTypeOK, EnvTypeOK,
    GoroutinesInv, EntryStep, Active, Locked, PrepareSteps, UnprepareSteps,
    disk, proc, cleanup, env, count
<1>1. CASE Start
  BY <1>1 DEF Start, KeepCheckpoint
<1>2. CASE Crash
  BY <1>2 DEF Crash, ProcessEnds
<1>3. CASE Reboot
  BY <1>3 DEF Reboot, ProcessEnds
<1>4. ASSUME NEW c \in Claims, Create(c) PROVE EntryStep
  BY <1>4 DEF Create
<1>5. ASSUME NEW c \in Claims, Delete(c) PROVE EntryStep
  BY <1>5 DEF Delete
<1>6. ASSUME NEW c \in Claims, PodStops(c) PROVE EntryStep
  BY <1>6 DEF PodStops
<1>7. ASSUME NEW c \in Claims, NEW q \in Pods, PodArrives(c, q) PROVE EntryStep
  BY <1>7 DEF PodArrives
<1>8. ASSUME NEW w \in Workers, NEW c \in Claims, CallPrepare(w, c) PROVE EntryStep
  BY <1>8 DEF CallPrepare, Call
<1>9. ASSUME NEW w \in Workers, NEW c \in Claims, CallUnprepare(w, c) PROVE EntryStep
  BY <1>9 DEF CallUnprepare, Call
<1>10. ASSUME NEW w \in Workers, Abandon(w) PROVE EntryStep
  BY <1>10 DEF Abandon
<1>11. CASE CleanupTick
  BY <1>11 DEF CleanupTick
<1>12. CASE CleanupTake
  BY <1>12 DEF CleanupTake, Goto
<1>13. CASE CleanupList
  BY <1>13 DEF CleanupList, Goto
<1>14. CASE CleanupListFails
  BY <1>14 DEF CleanupListFails, Goto
<1>15. CASE CleanupDone
  BY <1>15 DEF CleanupDone, Goto
<1>16. ASSUME NEW c \in Claims, CleanupStale(c) PROVE EntryStep
  BY <1>16 DEF CleanupStale, Goto
<1>17. ASSUME NEW c \in Claims, CleanupSkip(c) PROVE EntryStep
  BY <1>17 DEF CleanupSkip
<1>18. ASSUME NEW c \in Claims, CleanupGetFails(c) PROVE EntryStep
  BY <1>18 DEF CleanupGetFails
<1>19. ASSUME NEW p \in Procs, Acquire(p) PROVE EntryStep
  BY <1>19 DEF Acquire
<1>20. ASSUME NEW p \in Procs, AcquireFails(p) PROVE EntryStep
  BY <1>20 DEF AcquireFails, Return, Release, Done, Answered
<1>21. ASSUME NEW p \in Procs, StepFails(p) PROVE EntryStep
  BY <1>21 DEF StepFails, Return, Release, Done, Answered
<1>22. ASSUME NEW p \in Procs, PrepareCached(p) PROVE EntryStep
  BY <1>22 DEF PrepareCached, Return, Release, Done, Answered
<1>23. ASSUME NEW p \in Procs, PrepareBegin(p) PROVE EntryStep
  BY <1>23 DEF PrepareBegin, Goto
<1>24. ASSUME NEW p \in Procs, PrepareLabel(p) PROVE EntryStep
  BY <1>24 DEF PrepareLabel, Goto
<1>25. ASSUME NEW p \in Procs, PrepareLabelCancelled(p) PROVE EntryStep
  BY <1>25 DEF PrepareLabelCancelled, Return, Release, Done, Answered
<1>26. ASSUME NEW p \in Procs, PrepareWipe(p) PROVE EntryStep
  BY <1>26 DEF PrepareWipe, SetDir
<1>27. ASSUME NEW p \in Procs, PrepareWiped(p) PROVE EntryStep
  BY <1>27 DEF PrepareWiped, SetDir, Goto
<1>28. ASSUME NEW p \in Procs, PrepareMkdir(p) PROVE EntryStep
  BY <1>28 DEF PrepareMkdir, SetDir, Goto
<1>29. ASSUME NEW p \in Procs, PrepareMark(p) PROVE EntryStep
  BY <1>29 DEF PrepareMark, SetDir, Goto
<1>30. ASSUME NEW p \in Procs, PrepareSpec(p) PROVE EntryStep
  BY <1>30 DEF PrepareSpec, Goto
<1>31. ASSUME NEW p \in Procs, PrepareComplete(p) PROVE EntryStep
  BY <1>31 DEF PrepareComplete, Return, Release, Done, Answered
<1>32. ASSUME NEW p \in Procs, UnprepareNoop(p) PROVE EntryStep
  BY <1>32 DEF UnprepareNoop, Return, Release, Done, Answered
<1>33. ASSUME NEW p \in Procs, UnprepareBegin(p) PROVE EntryStep
  BY <1>33 DEF UnprepareBegin, NextAfterEntryRead, Goto
<1>34. ASSUME NEW p \in Procs, NEW q \in Pods, UnprepareScan(p, q) PROVE EntryStep
  BY <1>34 DEF UnprepareScan, SetDir, Goto
<1>35. ASSUME NEW p \in Procs, UnprepareScanned(p) PROVE EntryStep
  BY <1>35 DEF UnprepareScanned, Goto
<1>36. ASSUME NEW p \in Procs, UnprepareRmdir(p) PROVE EntryStep
  BY <1>36 DEF UnprepareRmdir, SetDir, Goto
<1>37. ASSUME NEW p \in Procs, UnprepareSpec(p) PROVE EntryStep
  BY <1>37 DEF UnprepareSpec, Goto
<1>38. ASSUME NEW p \in Procs, UnprepareForget(p) PROVE EntryStep
  BY <1>38 DEF UnprepareForget, Return, Release, Done, Answered
<1>39. CASE UNCHANGED vars
  BY <1>39 DEF vars
<1> QED
  BY <1>1, <1>2, <1>3, <1>4, <1>5, <1>6, <1>7, <1>8, <1>9, <1>10, <1>11,
     <1>12, <1>13, <1>14, <1>15, <1>16, <1>17, <1>18, <1>19, <1>20, <1>21,
     <1>22, <1>23, <1>24, <1>25, <1>26, <1>27, <1>28, <1>29, <1>30, <1>31,
     <1>32, <1>33, <1>34, <1>35, <1>36, <1>37, <1>38, <1>39 DEF Next,
     Kubelet, CleanupStep, PrepareStep, UnprepareStep

(***************************************************************************)
(* Every checkpoint entry is written by the goroutine that holds the       *)
(* prepare/unprepare lock on behalf of that claim; the one exception is    *)
(* initCheckpoint, and then the checkpoint is of another boot.             *)
(***************************************************************************)
THEOREM EntriesChangeUnderLock == Spec => EntryChangesUnderLock
<1> DEFINE Inv == TypeOK /\ GoroutinesInv
<1>1. Init => Inv
  BY InitInd DEF IndInv
<1>2. Inv /\ [Next]_vars => Inv'
  BY DiskTypeStep, ProcTypeStep, EnvTypeStep, GoroutinesStep DEF TypeOK
<1>3. Inv /\ [Next]_vars => [EntryStep]_vars
  BY EntryStepAllowed
<1>4. [][EntryStep]_vars => EntryChangesUnderLock
  BY PTL DEF EntryStep, EntryChangesUnderLock
<1> QED
  BY <1>1, <1>2, <1>3, <1>4, PTL DEF Spec
=============================================================================
