------------------------ MODULE DeviceHealth_proofs -------------------------
(***************************************************************************)
(* The theorems of DeviceHealth, for every set of devices and GPUs and     *)
(* every number of events and failed publishes.  Each conjunct of          *)
(* HealthInv has a lemma of its own, <Conjunct>Step, with one case per     *)
(* action of Next.                                                         *)
(***************************************************************************)
EXTENDS DeviceHealth, SequenceTheorems, FiniteSetTheorems, TLAPS

\* An NVML event names the instances under which its device, and no other, was
\* entered into the placement map.
Identified == \A d, o \in Devs : Key(o) = Placement(d) <=> o = d

-----------------------------------------------------------------------------
(* Sequences as queues.                                                     *)

\* A send puts one element at the end of a queue and keeps the others.
LEMMA SendFacts ==
    ASSUME NEW S, NEW q \in Seq(S), NEW x \in S
    PROVE  /\ Append(q, x) \in Seq(S)
           /\ Len(Append(q, x)) = Len(q) + 1
           /\ ToSet(Append(q, x)) = ToSet(q) \cup {x}
<1>1. /\ Append(q, x) \in Seq(S) /\ Len(Append(q, x)) = Len(q) + 1
      /\ \A i \in 1..Len(q) : Append(q, x)[i] = q[i]
      /\ Append(q, x)[Len(q) + 1] = x
      /\ Len(q) \in Nat
  BY AppendProperties, LenProperties
<1>2. DOMAIN q = 1..Len(q) /\ DOMAIN Append(q, x) = 1..(Len(q) + 1)
  BY <1>1, LenProperties
<1>3. ToSet(Append(q, x)) = {Append(q, x)[i] : i \in 1..(Len(q) + 1)}
  BY <1>2 DEF ToSet
<1>4. 1..(Len(q) + 1) = (1..Len(q)) \cup {Len(q) + 1}
  BY <1>1
<1>5. ToSet(q) = {q[i] : i \in 1..Len(q)}
  BY <1>2 DEF ToSet
<1> QED
  BY <1>1, <1>3, <1>4, <1>5

\* A receive takes the first element of a queue and keeps the others.
LEMMA ReceiveFacts ==
    ASSUME NEW S, NEW q \in Seq(S), q # <<>>
    PROVE  /\ Head(q) \in S /\ Tail(q) \in Seq(S)
           /\ Len(Tail(q)) = Len(q) - 1
           /\ Len(q) \in Nat
           /\ \A x \in ToSet(q) : x = Head(q) \/ x \in ToSet(Tail(q))
<1>1. /\ Head(q) \in S /\ Tail(q) \in Seq(S) /\ Len(Tail(q)) = Len(q) - 1
      /\ \A i \in 1..Len(Tail(q)) : Tail(q)[i] = q[i + 1]
      /\ Len(q) \in Nat
  BY HeadTailProperties, LenProperties
<1>2. DOMAIN q = 1..Len(q) /\ DOMAIN Tail(q) = 1..(Len(q) - 1)
  BY <1>1, LenProperties
<1>3. Head(q) = q[1]
  OBVIOUS
<1>4. ASSUME NEW x \in ToSet(q), x # Head(q) PROVE x \in ToSet(Tail(q))
  <2>1. PICK i \in 1..Len(q) : x = q[i]
    BY <1>2 DEF ToSet
  <2>2. i # 1
    BY <2>1, <1>3, <1>4
  <2>3. i - 1 \in 1..(Len(q) - 1) /\ (i - 1) + 1 = i
    BY <2>1, <2>2, <1>1
  <2>4. x = Tail(q)[i - 1]
    BY <2>1, <2>3, <1>1
  <2> QED
    BY <2>3, <2>4, <1>2 DEF ToSet
<1> QED
  BY <1>1, <1>4

\* A set of devices written to a new channel: all of them are in it, and the
\* capacity suffices.
LEMMA AllSent ==
    ASSUME NEW D \in SUBSET Devs
    PROVE  /\ SetToSeq(D) \in Seq(Devs)
           /\ Len(SetToSeq(D)) <= Capacity
           /\ ToSet(SetToSeq(D)) = D
<1> DEFINE n == Cardinality(D)
<1>1. IsFiniteSet(D) /\ n \in Nat /\ n <= Capacity /\ ExistsBijection(1..n, D)
  BY HealthAssumption, FS_Subset, FS_CardinalityType DEF Capacity
<1>2. PICK f : f \in Bijection(1..n, D)
  BY <1>1 DEF ExistsBijection
<1>3. f \in [1..n -> D] /\ IsInjective(f)
  BY <1>2 DEF Bijection, Injection, IsInjective
<1>4. SetToSeq(D) \in [1..n -> D] /\ IsInjective(SetToSeq(D))
  BY <1>3 DEF SetToSeq
<1> DEFINE s == SetToSeq(D)
<1> HIDE DEF n, s
<1>5. s \in Seq(Devs) /\ Len(s) = n
  BY <1>1, <1>4 DEF s
<1>6. s \in Injection(1..n, D)
  BY <1>4 DEF s, Injection, IsInjective
<1>7. s \in Surjection(1..n, D)
  <2>1. IsFiniteSet(1..n) /\ Cardinality(1..n) = n
    BY <1>1, FS_Interval
  <2> QED
    BY <2>1, <1>1, <1>6, FS_Injection DEF n
<1>8. ToSet(s) = D
  <2>1. DOMAIN s = 1..n
    BY <1>4 DEF s
  <2>2. \A x \in D : \E i \in 1..n : s[i] = x
    BY <1>7 DEF Surjection
  <2> QED
    BY <2>1, <2>2, <1>4 DEF ToSet, s
<1> QED
  BY <1>1, <1>5, <1>8 DEF s

-----------------------------------------------------------------------------
(* The invariant.                                                           *)

\* The capacity of the channel is a number.
LEMMA CapacityNat == Capacity \in Nat
  BY HealthAssumption, FS_CardinalityType DEF Capacity

\* No goroutine writes past the channel's capacity, nor leaves its steps.
LEMMA HealthTypeStep == HealthTypeOK /\ ShutdownInv /\ [Next]_vars => HealthTypeOK'
<1> SUFFICES ASSUME HealthTypeOK /\ ShutdownInv, [Next]_vars PROVE HealthTypeOK'
  OBVIOUS
<1> USE HealthAssumption, CapacityNat DEF HealthTypeOK, ShutdownInv,
    hardware, monitor, channel, consumer, driver
<1>1. CASE MonLoop
  BY <1>1 DEF MonLoop
<1>2. CASE MonTimeout
  BY <1>2 DEF MonTimeout
<1>3. CASE MonIgnore
  BY <1>3, ReceiveFacts DEF MonIgnore
<1>4. CASE MonLost
  BY <1>4, ReceiveFacts DEF MonLost
<1>5. CASE MonSend
  BY <1>5, SendFacts DEF MonSend
<1>6. ASSUME NEW d \in Devs, MonEvent(d) PROVE HealthTypeOK'
  BY <1>6, ReceiveFacts DEF MonEvent
<1>7. ASSUME NEW d \in Devs, MonMark(d) PROVE HealthTypeOK'
  BY <1>7, SendFacts DEF MonMark
<1>8. CASE ConSkip
  BY <1>8, ReceiveFacts DEF ConSkip, IsHealthy
<1>9. CASE ConMark
  BY <1>9, ReceiveFacts DEF ConMark, IsHealthy
<1>10. CASE ConPublish
  BY <1>10 DEF ConPublish
<1>11. CASE ConStop
  BY <1>11 DEF ConStop
<1>12. ASSUME NEW bad \in SUBSET Gpus, StartMonitor(bad) PROVE HealthTypeOK'
  <2> DEFINE D == {d \in Devs : GpuOf[d] \in bad}
  <2>1. D \in SUBSET Devs
    OBVIOUS
  <2>2. SetToSeq(D) \in Seq(Devs) /\ Len(SetToSeq(D)) <= Capacity
    BY <2>1, AllSent
  <2> QED
    BY <1>12, <2>2 DEF StartMonitor
<1>13. CASE MainPublish
  BY <1>13 DEF MainPublish
<1>14. CASE MainShutdown
  BY <1>14 DEF MainShutdown
<1>15. CASE MainClose
  BY <1>15 DEF MainClose
<1>16. CASE MainExit
  BY <1>16 DEF MainExit
<1>17. CASE Signal
  BY <1>17 DEF Signal
<1>18. ASSUME NEW d \in Devs, CriticalXid(d) PROVE HealthTypeOK'
  BY <1>18, SendFacts DEF CriticalXid, Report
<1>19. ASSUME NEW e \in {"skip", "lost"}, OtherEvent(e) PROVE HealthTypeOK'
  BY <1>19, SendFacts DEF OtherEvent, Report
<1>20. CASE UNCHANGED vars
  BY <1>20 DEF vars
<1> QED
  BY <1>1, <1>2, <1>3, <1>4, <1>5, <1>6, <1>7, <1>8, <1>9, <1>10, <1>11,
     <1>12, <1>13, <1>14, <1>15, <1>16, <1>17, <1>18, <1>19, <1>20 DEF Next,
     MonStep, ConStep, MainStep

\* The channel is closed, and the process ends, in the order of Shutdown.
LEMMA ShutdownStep == HealthTypeOK /\ ShutdownInv /\ [Next]_vars => ShutdownInv'
<1> SUFFICES ASSUME HealthTypeOK /\ ShutdownInv, [Next]_vars PROVE ShutdownInv'
  OBVIOUS
<1> USE HealthAssumption DEF HealthTypeOK, ShutdownInv,
    hardware, monitor, channel, consumer, driver
<1>1. CASE MonLoop
  BY <1>1 DEF MonLoop
<1>2. CASE MonTimeout
  BY <1>2 DEF MonTimeout
<1>3. CASE MonIgnore
  BY <1>3 DEF MonIgnore
<1>4. CASE MonLost
  BY <1>4 DEF MonLost
<1>5. CASE MonSend
  BY <1>5 DEF MonSend
<1>6. ASSUME NEW d \in Devs, MonEvent(d) PROVE ShutdownInv'
  BY <1>6 DEF MonEvent, Lookup
<1>7. ASSUME NEW d \in Devs, MonMark(d) PROVE ShutdownInv'
  BY <1>7 DEF MonMark
<1>8. CASE ConSkip
  BY <1>8 DEF ConSkip, IsHealthy
<1>9. CASE ConMark
  BY <1>9 DEF ConMark, IsHealthy
<1>10. CASE ConPublish
  BY <1>10 DEF ConPublish
<1>11. CASE ConStop
  BY <1>11 DEF ConStop
<1>12. ASSUME NEW bad \in SUBSET Gpus, StartMonitor(bad) PROVE ShutdownInv'
  BY <1>12 DEF StartMonitor
<1>13. CASE MainPublish
  BY <1>13 DEF MainPublish
<1>14. CASE MainShutdown
  BY <1>14 DEF MainShutdown
<1>15. CASE MainClose
  BY <1>15 DEF MainClose
<1>16. CASE MainExit
  BY <1>16 DEF MainExit
<1>17. CASE Signal
  BY <1>17 DEF Signal
<1>18. ASSUME NEW d \in Devs, CriticalXid(d) PROVE ShutdownInv'
  BY <1>18 DEF CriticalXid, Report
<1>19. ASSUME NEW e \in {"skip", "lost"}, OtherEvent(e) PROVE ShutdownInv'
  BY <1>19 DEF OtherEvent, Report
<1>20. CASE UNCHANGED vars
  BY <1>20 DEF vars
<1> QED
  BY <1>1, <1>2, <1>3, <1>4, <1>5, <1>6, <1>7, <1>8, <1>9, <1>10, <1>11,
     <1>12, <1>13, <1>14, <1>15, <1>16, <1>17, <1>18, <1>19, <1>20 DEF Next,
     MonStep, ConStep, MainStep

\* Health changes only where the next slice is put together.
LEMMA WithdrawalStep == HealthTypeOK /\ ShutdownInv /\ WithdrawalInv /\ [Next]_vars => WithdrawalInv'
<1> SUFFICES ASSUME HealthTypeOK /\ ShutdownInv /\ WithdrawalInv, [Next]_vars PROVE WithdrawalInv'
  OBVIOUS
<1> USE HealthAssumption DEF HealthTypeOK, ShutdownInv, WithdrawalInv, UnhealthyWithdrawn,
    hardware, monitor, channel, consumer, driver
<1>1. CASE MonLoop
  BY <1>1 DEF MonLoop
<1>2. CASE MonTimeout
  BY <1>2 DEF MonTimeout
<1>3. CASE MonIgnore
  BY <1>3 DEF MonIgnore
<1>4. CASE MonLost
  BY <1>4 DEF MonLost
<1>5. CASE MonSend
  BY <1>5 DEF MonSend
<1>6. ASSUME NEW d \in Devs, MonEvent(d) PROVE WithdrawalInv'
  BY <1>6 DEF MonEvent
<1>7. ASSUME NEW d \in Devs, MonMark(d) PROVE WithdrawalInv'
  BY <1>7 DEF MonMark
<1>8. CASE ConSkip
  BY <1>8 DEF ConSkip, IsHealthy
<1>9. CASE ConMark
  BY <1>9, ReceiveFacts DEF ConMark, IsHealthy
<1>10. CASE ConPublish
  BY <1>10 DEF ConPublish
<1>11. CASE ConStop
  BY <1>11 DEF ConStop
<1>12. ASSUME NEW bad \in SUBSET Gpus, StartMonitor(bad) PROVE WithdrawalInv'
  BY <1>12 DEF StartMonitor
<1>13. CASE MainPublish
  BY <1>13 DEF MainPublish
<1>14. CASE MainShutdown
  BY <1>14 DEF MainShutdown
<1>15. CASE MainClose
  BY <1>15 DEF MainClose
<1>16. CASE MainExit
  BY <1>16 DEF MainExit
<1>17. CASE Signal
  BY <1>17 DEF Signal
<1>18. ASSUME NEW d \in Devs, CriticalXid(d) PROVE WithdrawalInv'
  BY <1>18 DEF CriticalXid, Report
<1>19. ASSUME NEW e \in {"skip", "lost"}, OtherEvent(e) PROVE WithdrawalInv'
  BY <1>19 DEF OtherEvent, Report
<1>20. CASE UNCHANGED vars
  BY <1>20 DEF vars
<1> QED
  BY <1>1, <1>2, <1>3, <1>4, <1>5, <1>6, <1>7, <1>8, <1>9, <1>10, <1>11,
     <1>12, <1>13, <1>14, <1>15, <1>16, <1>17, <1>18, <1>19, <1>20 DEF Next,
     MonStep, ConStep, MainStep

\* An event leaves one place of its way only for the next, and the event of device d
\* is looked up as d.
LEMMA DeliveryStep == Identified /\ HealthTypeOK /\ ShutdownInv /\ DeliveryInv /\ [Next]_vars => DeliveryInv'
<1> SUFFICES ASSUME Identified /\ HealthTypeOK /\ ShutdownInv /\ DeliveryInv, [Next]_vars PROVE DeliveryInv'
  OBVIOUS
<1> USE HealthAssumption DEF Identified, HealthTypeOK, ShutdownInv, DeliveryInv, NoCriticalErrorLost,
    hardware, monitor, channel, consumer, driver
<1>1. CASE MonLoop
  BY <1>1 DEF MonLoop
<1>2. CASE MonTimeout
  BY <1>2 DEF MonTimeout
<1>3. CASE MonIgnore
  <2>1. \A x \in ToSet(pending) : x = Head(pending) \/ x \in ToSet(Tail(pending))
    BY <1>3, ReceiveFacts DEF MonIgnore
  <2>2. Head(pending) \notin Devs
    BY <1>3 DEF MonIgnore, Lookup
  <2> QED
    BY <1>3, <2>1, <2>2 DEF MonIgnore
<1>4. CASE MonLost
  <2>1. \A x \in ToSet(pending) : x = Head(pending) \/ x \in ToSet(Tail(pending))
    BY <1>4, ReceiveFacts DEF MonLost
  <2> QED
    BY <1>4, <2>1 DEF MonLost
<1>5. CASE MonSend
  <2>1. ToSet(unhealthy') = ToSet(unhealthy) \cup {monDev}
    BY <1>5, SendFacts DEF MonSend
  <2> QED
    BY <1>5, <2>1 DEF MonSend
<1>6. ASSUME NEW d \in Devs, MonEvent(d) PROVE DeliveryInv'
  <2>1. \A x \in ToSet(pending) : x = Head(pending) \/ x \in ToSet(Tail(pending))
    BY <1>6, ReceiveFacts DEF MonEvent
  <2>2. Head(pending) = d
    BY <1>6 DEF MonEvent, Lookup
  <2> QED
    BY <1>6, <2>1, <2>2 DEF MonEvent
<1>7. ASSUME NEW d \in Devs, MonMark(d) PROVE DeliveryInv'
  <2>1. ToSet(unhealthy) \subseteq ToSet(unhealthy')
    BY <1>7, SendFacts DEF MonMark
  <2> QED
    BY <1>7, <2>1 DEF MonMark
<1>8. CASE ConSkip
  <2>1. \A x \in ToSet(unhealthy) : x = Head(unhealthy) \/ x \in ToSet(Tail(unhealthy))
    BY <1>8, ReceiveFacts DEF ConSkip
  <2>2. health[Head(unhealthy)] = "Unhealthy"
    BY <1>8, ReceiveFacts DEF ConSkip, IsHealthy
  <2> QED
    BY <1>8, <2>1, <2>2 DEF ConSkip
<1>9. CASE ConMark
  <2>1. \A x \in ToSet(unhealthy) : x = Head(unhealthy) \/ x \in ToSet(Tail(unhealthy))
    BY <1>9, ReceiveFacts DEF ConMark
  <2>2. Head(unhealthy) \in Devs
    BY <1>9, ReceiveFacts DEF ConMark
  <2>3. /\ health'[Head(unhealthy)] = "Unhealthy"
        /\ \A d \in Devs : health[d] = "Unhealthy" => health'[d] = "Unhealthy"
    BY <1>9, <2>2 DEF ConMark
  <2> QED
    BY <1>9, <2>1, <2>3 DEF ConMark
<1>10. CASE ConPublish
  BY <1>10 DEF ConPublish
<1>11. CASE ConStop
  BY <1>11 DEF ConStop
<1>12. ASSUME NEW bad \in SUBSET Gpus, StartMonitor(bad) PROVE DeliveryInv'
  <2> DEFINE D == {d \in Devs : GpuOf[d] \in bad}
  <2>1. D \in SUBSET Devs
    OBVIOUS
  <2>2. ToSet(unhealthy') = D
    BY <1>12, <2>1, AllSent DEF StartMonitor
  <2>3. \A d \in Devs : GpuOf[d] \notin registered' => d \in D
    BY <1>12 DEF StartMonitor
  <2>4. critical' = {}
    BY <1>12 DEF StartMonitor
  <2> QED
    BY <2>2, <2>3, <2>4
<1>13. CASE MainPublish
  BY <1>13 DEF MainPublish
<1>14. CASE MainShutdown
  BY <1>14 DEF MainShutdown
<1>15. CASE MainClose
  BY <1>15 DEF MainClose
<1>16. CASE MainExit
  BY <1>16 DEF MainExit
<1>17. CASE Signal
  BY <1>17 DEF Signal
<1>18. ASSUME NEW d \in Devs, CriticalXid(d) PROVE DeliveryInv'
  <2>1. CASE GpuOf[d] \notin registered
    BY <1>18, <2>1 DEF CriticalXid, Report
  <2>2. CASE GpuOf[d] \in registered
    <3>1. ToSet(pending') = ToSet(pending) \cup {d}
      BY <1>18, <2>2, SendFacts DEF CriticalXid, Report
    <3> QED
      BY <1>18, <3>1 DEF CriticalXid, Report
  <2> QED
    BY <2>1, <2>2
<1>19. ASSUME NEW e \in {"skip", "lost"}, OtherEvent(e) PROVE DeliveryInv'
  <2>1. ToSet(pending) \subseteq ToSet(pending')
    BY <1>19, SendFacts DEF OtherEvent, Report
  <2> QED
    BY <1>19, <2>1 DEF OtherEvent, Report
<1>20. CASE UNCHANGED vars
  BY <1>20 DEF vars
<1> QED
  BY <1>1, <1>2, <1>3, <1>4, <1>5, <1>6, <1>7, <1>8, <1>9, <1>10, <1>11,
     <1>12, <1>13, <1>14, <1>15, <1>16, <1>17, <1>18, <1>19, <1>20 DEF Next,
     MonStep, ConStep, MainStep

\* Nothing has been reported, queued or withdrawn at first.
LEMMA InitHealth == Init => HealthInv
<1> SUFFICES ASSUME Init PROVE HealthInv
  OBVIOUS
<1> USE HealthAssumption, CapacityNat DEF Init
<1>1. <<>> \in Seq(Devs) /\ <<>> \in Seq(Devs \cup {"skip", "lost"}) /\ Len(<<>>) = 0
  BY EmptySeq
<1>2. /\ pending \in Seq(Devs \cup {"skip", "lost"}) /\ Len(pending) <= events
      /\ unhealthy \in Seq(Devs) /\ Len(unhealthy) <= Capacity
  BY <1>1
<1>3. ShutdownInv /\ WithdrawalInv /\ DeliveryInv
  BY DEF ShutdownInv, WithdrawalInv, UnhealthyWithdrawn, DeliveryInv,
     NoCriticalErrorLost
<1>4. /\ registered \in SUBSET Gpus /\ critical \in SUBSET Devs
      /\ events \in 0..MaxEvents /\ faults \in 0..MaxFaults
      /\ monDev \in Devs \cup {None} /\ todo \in SUBSET Devs
      /\ conSlice \in SUBSET Devs /\ slice \in SUBSET Devs
      /\ health \in [Devs -> {"Healthy", "Unhealthy"}]
  OBVIOUS
<1>5. HealthTypeOK
  BY <1>2, <1>4, Zenon DEF HealthTypeOK
<1> QED
  BY <1>3, <1>5 DEF HealthInv

-----------------------------------------------------------------------------
(* The theorems.                                                            *)

(***************************************************************************)
(* The channel never holds more than one notification per device, whatever *)
(* the monitor sends: the blocking send and the dropping one both keep the *)
(* bound of make(chan, len(allocatable)), and registerEventsForDevices,    *)
(* which sends before anyone receives, fits.                               *)
(***************************************************************************)
THEOREM HealthTypeCorrect == Spec => []HealthTypeOK
<1>1. Init => HealthTypeOK /\ ShutdownInv
  BY InitHealth DEF HealthInv
<1>2. HealthTypeOK /\ ShutdownInv /\ [Next]_vars => (HealthTypeOK /\ ShutdownInv)'
  BY HealthTypeStep, ShutdownStep
<1> QED
  BY <1>1, <1>2, PTL DEF Spec

(***************************************************************************)
(* Stop closes the channel only after the monitor goroutine has ended, so  *)
(* that no send can panic, in every interleaving of the three goroutines   *)
(* with the signal.                                                        *)
(***************************************************************************)
THEOREM ClosesAfterMonitor == Spec => []ClosedOnlyAfterMonitor
<1>1. Init => HealthTypeOK /\ ShutdownInv
  BY InitHealth DEF HealthInv
<1>2. HealthTypeOK /\ ShutdownInv /\ [Next]_vars => (HealthTypeOK /\ ShutdownInv)'
  BY HealthTypeStep, ShutdownStep
<1>3. ShutdownInv => ClosedOnlyAfterMonitor
  BY DEF ShutdownInv, ClosedOnlyAfterMonitor
<1> QED
  BY <1>1, <1>2, <1>3, PTL DEF Spec

(***************************************************************************)
(* An unhealthy device stays advertised only while deviceHealthEvents is   *)
(* about to publish, after a publish that failed, or when the first        *)
(* publishResources overtook the consumer.                                 *)
(***************************************************************************)
THEOREM WithdrawsUnhealthy == Spec => []UnhealthyWithdrawn
<1> DEFINE Inv == HealthTypeOK /\ ShutdownInv /\ WithdrawalInv
<1>1. Init => Inv
  BY InitHealth DEF HealthInv
<1>2. Inv /\ [Next]_vars => Inv'
  BY HealthTypeStep, ShutdownStep, WithdrawalStep
<1>3. Inv => UnhealthyWithdrawn
  BY DEF WithdrawalInv
<1> QED
  BY <1>1, <1>2, <1>3, PTL DEF Spec

(***************************************************************************)
(* The whole inductive invariant.  Identified is what the placement map    *)
(* gets wrong for a MIG device whose GPU and compute instance ids differ.  *)
(***************************************************************************)
THEOREM HealthInductive == ASSUME Identified PROVE Spec => []HealthInv
<1>1. HealthInv /\ [Next]_vars => HealthInv'
  BY Identified, HealthTypeStep, ShutdownStep, WithdrawalStep, DeliveryStep
     DEF HealthInv
<1> QED
  BY <1>1, InitHealth, PTL DEF Spec

(***************************************************************************)
(* Until the plugin is told to stop, no critical error is lost between     *)
(* NVML and the health status of its device, provided events are looked up *)
(* under the ids they carry.                                               *)
(***************************************************************************)
THEOREM LosesNoCriticalError == ASSUME Identified PROVE Spec => []NoCriticalErrorLost
<1>1. HealthInv => NoCriticalErrorLost
  BY DEF HealthInv, DeliveryInv
<1> QED
  BY Identified, <1>1, HealthInductive, PTL
=============================================================================
