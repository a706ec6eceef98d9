---------------------------- MODULE DeviceHealth ----------------------------
(***************************************************************************)
(* Device health (feature gate NVMLDeviceHealthCheck): the goroutine of    *)
(* nvmlDeviceHealthMonitor turns NVML events into notifications on a       *)
(* buffered channel, the goroutine driver.deviceHealthEvents marks devices *)
(* unhealthy and republishes the ResourceSlice without them, and the main  *)
(* goroutine starts both, publishes all devices and, on a signal, stops    *)
(* them in order.                                                          *)
(*                                                                         *)
(* Abstractions.  An event is the device it comes from, "skip" (another    *)
(* event type or an XID on the ignore list) or "lost" (GPU is lost, or the *)
(* event's device cannot be identified).  PublishResources replaces the    *)
(* slice at once.                                                          *)
(***************************************************************************)
EXTENDS Integers, Sequences, SequencesExt, FiniteSets

CONSTANTS
    Devs,       \* allocatable devices
    Gpus,       \* physical GPUs
    GpuOf,      \* the GPU of each device
    Gi, Ci,     \* GPU and compute instance of each device, Full for a GPU
    None,
    MaxEvents,  \* bound on NVML events
    MaxFaults   \* bound on failed publishes

Full == -1   \* FullGPUInstanceID

ASSUME HealthAssumption ==
    /\ IsFiniteSet(Devs)
    /\ GpuOf \in [Devs -> Gpus]
    /\ Gi \in [Devs -> Nat \cup {Full}] /\ Ci \in [Devs -> Nat \cup {Full}]
    /\ None \notin Devs /\ "skip" \notin Devs /\ "lost" \notin Devs
    /\ MaxEvents \in Nat /\ MaxFaults \in Nat

VARIABLES
    \* Hardware and NVML.
    registered, \* GPUs whose events are delivered
    critical,  \* devices that reported a critical error
    pending,   \* events NVML has yet to return
    events,    \* number of events so far
    \* The monitor goroutine.
    mon, monDev,
    todo,      \* devices markAllDevicesUnhealthy has yet to send
    \* The channel.
    unhealthy, closed,
    \* The consumer goroutine.
    con, conSlice,
    \* The driver.
    main, done, health, slice,
    last,      \* whose publish was the last, "error" if it failed
    faults

hardware == <<registered, critical, pending, events>>
monitor == <<mon, monDev, todo>>
channel == <<unhealthy, closed>>
consumer == <<con, conSlice>>
driver == <<main, done, health, slice, last, faults>>
vars == <<hardware, monitor, channel, consumer, driver>>

\* make(chan *AllocatableDevice, len(allocatable))
Capacity == Cardinality(Devs)

HealthTypeOK ==
    /\ registered \in SUBSET Gpus /\ critical \in SUBSET Devs
    /\ pending \in Seq(Devs \cup {"skip", "lost"}) /\ Len(pending) <= events
    /\ events \in 0..MaxEvents
    /\ mon \in {"off", "run", "wait", "send", "markall", "stopped"}
    /\ monDev \in Devs \cup {None}
    /\ todo \in SUBSET Devs
    /\ unhealthy \in Seq(Devs) /\ Len(unhealthy) <= Capacity
    /\ closed \in BOOLEAN /\ done \in BOOLEAN
    /\ con \in {"off", "recv", "publish", "stopped"}
    /\ conSlice \in SUBSET Devs /\ slice \in SUBSET Devs
    /\ main \in {"start", "publish", "serve", "stop", "wait", "exited"}
    /\ health \in [Devs -> {"Healthy", "Unhealthy"}]
    /\ last \in {"none", "main", "consumer", "error"}
    /\ faults \in 0..MaxFaults

Init ==
    /\ registered = {} /\ critical = {} /\ pending = <<>> /\ events = 0
    /\ mon = "off" /\ monDev = None /\ todo = {}
    /\ unhealthy = <<>> /\ closed = FALSE
    /\ con = "off" /\ conSlice = {}
    /\ main = "start" /\ done = FALSE
    /\ health = [d \in Devs |-> "Healthy"]
    /\ slice = {} /\ last = "none"
    /\ faults = 0

-----------------------------------------------------------------------------
(* Which device an event is about.                                          *)

\* The instances an NVML event of device d names.
Placement(d) == <<GpuOf[d], Gi[d], Ci[d]>>

\* getDevicePlacementMap: the key of a MIG device has its GPU instance id in
\* the place of the compute instance id, too.
Key(d) == <<GpuOf[d], Gi[d], Gi[d]>>

\* devicePlacementMap.get
Lookup(k) == {d \in Devs : Key(d) = k}

-----------------------------------------------------------------------------
(* Hardware and NVML                                                        *)

\* NVML delivers the events of registered GPUs to a process that waits for them.
Report(e) ==
    /\ events < MaxEvents
    /\ mon # "off" /\ main # "exited"
    /\ events' = events + 1
    /\ pending' = IF e \in Devs /\ GpuOf[e] \notin registered THEN pending
                  ELSE Append(pending, e)
    /\ UNCHANGED <<registered, monitor, channel, consumer, driver>>

CriticalXid(d) ==
    /\ critical' = critical \cup {d}
    /\ Report(d)

OtherEvent(e) == UNCHANGED critical /\ Report(e)

-----------------------------------------------------------------------------
(* nvmlDeviceHealthMonitor                                                  *)

\* Start and registerEventsForDevices: the devices of the GPUs `bad', whose
\* events cannot be registered, are sent at once; the channel has room for all.
StartMonitor(bad) ==
    /\ main = "start"
    /\ registered' = Gpus \ bad
    /\ unhealthy' = SetToSeq({d \in Devs : GpuOf[d] \in bad})
    /\ mon' = "run" /\ con' = "recv" /\ main' = "publish"
    /\ UNCHANGED <<critical, pending, events, monDev, todo, closed,
                   conSlice, done, health, slice, last, faults>>

\* Fault: the context is not looked at.
MonLoopForever ==
    /\ mon = "run"
    /\ mon' = "wait"
    /\ UNCHANGED <<hardware, monDev, todo, channel, consumer, driver>>

MonLoop ==
    /\ mon = "run"
    /\ mon' = IF done THEN "stopped" ELSE "wait"
    /\ UNCHANGED <<hardware, monDev, todo, channel, consumer, driver>>

MonTimeout ==
    /\ mon = "wait" /\ pending = <<>>
    /\ mon' = "run"
    /\ UNCHANGED <<hardware, monDev, todo, channel, consumer, driver>>

\* An event of a device that is not in the map is ignored.
MonIgnore ==
    /\ mon = "wait" /\ pending # <<>>
    /\ LET e == Head(pending)
       IN e = "skip" \/ (e \in Devs /\ Lookup(Placement(e)) = {})
    /\ pending' = Tail(pending)
    /\ mon' = "run"
    /\ UNCHANGED <<registered, critical, events, monDev, todo, channel, consumer, driver>>

MonEvent(d) ==
    /\ mon = "wait" /\ pending # <<>>
    /\ Head(pending) \in Devs /\ d \in Lookup(Placement(Head(pending)))
    /\ pending' = Tail(pending)
    /\ mon' = "send" /\ monDev' = d
    /\ UNCHANGED <<registered, critical, events, todo, channel, consumer, driver>>

MonLost ==
    /\ mon = "wait" /\ pending # <<>> /\ Head(pending) = "lost"
    /\ pending' = Tail(pending)
    /\ mon' = "markall" /\ todo' = Devs
    /\ UNCHANGED <<registered, critical, events, monDev, channel, consumer, driver>>

\* Fault: the notification is dropped when the channel is full.
MonSendOrDrop ==
    /\ mon = "send"
    /\ unhealthy' = IF Len(unhealthy) < Capacity
                    THEN Append(unhealthy, monDev) ELSE unhealthy
    /\ mon' = "run" /\ monDev' = None
    /\ UNCHANGED <<hardware, todo, closed, consumer, driver>>

\* Fault: the channel has no bound.
MonSendUnbounded ==
    /\ mon = "send"
    /\ unhealthy' = Append(unhealthy, monDev)
    /\ mon' = "run" /\ monDev' = None
    /\ UNCHANGED <<hardware, todo, closed, consumer, driver>>

\* The send of a single notification blocks while the channel is full.
MonSend ==
    /\ mon = "send"
    /\ Len(unhealthy) < Capacity
    /\ unhealthy' = Append(unhealthy, monDev)
    /\ mon' = "run" /\ monDev' = None
    /\ UNCHANGED <<hardware, todo, closed, consumer, driver>>

\* Fault: the loop ends with the first GPU.
MonMarkFirstGpu(d) ==
    /\ mon = "markall" /\ d \in todo
    /\ unhealthy' = IF Len(unhealthy) < Capacity
                    THEN Append(unhealthy, d) ELSE unhealthy
    /\ todo' = {o \in todo \ {d} : GpuOf[o] = GpuOf[d]}
    /\ mon' = IF todo' = {} THEN "run" ELSE "markall"
    /\ UNCHANGED <<hardware, monDev, closed, consumer, driver>>

\* markAllDevicesUnhealthy does not wait: a full channel drops the notification.
MonMark(d) ==
    /\ mon = "markall" /\ d \in todo
    /\ unhealthy' = IF Len(unhealthy) < Capacity
                    THEN Append(unhealthy, d) ELSE unhealthy
    /\ todo' = todo \ {d}
    /\ mon' = IF todo' = {} THEN "run" ELSE "markall"
    /\ UNCHANGED <<hardware, monDev, closed, consumer, driver>>

-----------------------------------------------------------------------------
(* driver.deviceHealthEvents                                                *)

\* Fault: one unhealthy device is enough to skip the rest.
IsHealthyAll(d) == \A o \in Devs : health[o] = "Healthy"

IsHealthy(d) == health[d] = "Healthy"

\* A device already marked is not republished.
ConSkip ==
    /\ con = "recv" /\ unhealthy # <<>>
    /\ ~IsHealthy(Head(unhealthy))
    /\ unhealthy' = Tail(unhealthy)
    /\ UNCHANGED <<hardware, monitor, closed, consumer, driver>>

\* Fault: the slice is put together before the device is marked.
ConMarkLate ==
    /\ con = "recv" /\ unhealthy # <<>>
    /\ IsHealthy(Head(unhealthy))
    /\ health' = [health EXCEPT ![Head(unhealthy)] = "Unhealthy"]
    /\ conSlice' = {d \in Devs : health[d] = "Healthy"}
    /\ unhealthy' = Tail(unhealthy)
    /\ con' = "publish"
    /\ UNCHANGED <<hardware, monitor, closed, main, done, slice, last, faults>>

ConMark ==
    /\ con = "recv" /\ unhealthy # <<>>
    /\ IsHealthy(Head(unhealthy))
    /\ health' = [health EXCEPT ![Head(unhealthy)] = "Unhealthy"]
    /\ conSlice' = {d \in Devs : health'[d] = "Healthy"}
    /\ unhealthy' = Tail(unhealthy)
    /\ con' = "publish"
    /\ UNCHANGED <<hardware, monitor, closed, main, done, slice, last, faults>>

\* An error of PublishResources is logged; there is no retry.
ConPublish ==
    /\ con = "publish"
    /\ con' = "recv"
    /\ \/ slice' = conSlice /\ last' = "consumer" /\ UNCHANGED faults
       \/ faults < MaxFaults /\ faults' = faults + 1 /\ last' = "error" /\ UNCHANGED slice
    /\ UNCHANGED <<hardware, monitor, channel, conSlice, main, done, health>>

\* The select takes either ready case: the context, or the channel.
ConStop ==
    /\ con = "recv"
    /\ done \/ (closed /\ unhealthy = <<>>)
    /\ con' = "stopped"
    /\ UNCHANGED <<hardware, monitor, channel, conSlice, driver>>

-----------------------------------------------------------------------------
(* NewDriver, RunPlugin and Shutdown                                        *)

\* publishResources announces all devices, whatever their health.
MainPublish ==
    /\ main = "publish"
    /\ slice' = Devs /\ last' = "main"
    /\ main' = "serve"
    /\ UNCHANGED <<hardware, monitor, channel, consumer, done, health, faults>>

Signal ==
    /\ main \in {"publish", "serve"}
    /\ ~done
    /\ done' = TRUE
    /\ UNCHANGED <<hardware, monitor, channel, consumer, main, health, slice, last, faults>>

MainShutdown ==
    /\ main = "serve" /\ done
    /\ main' = "stop"
    /\ UNCHANGED <<hardware, monitor, channel, consumer, done, health, slice, last, faults>>

\* Fault: the channel is closed without waiting for the monitor.
MainCloseAtOnce ==
    /\ main = "stop"
    /\ closed' = TRUE
    /\ main' = "wait"
    /\ UNCHANGED <<hardware, monitor, unhealthy, consumer, done, health, slice, last, faults>>

\* deviceHealthMonitor.Stop: wait for the goroutine, then close the channel.
MainClose ==
    /\ main = "stop"
    /\ mon = "stopped"
    /\ closed' = TRUE
    /\ main' = "wait"
    /\ UNCHANGED <<hardware, monitor, unhealthy, consumer, done, health, slice, last, faults>>

\* d.wg.Wait
MainExit ==
    /\ main = "wait"
    /\ con = "stopped"
    /\ main' = "exited"
    /\ UNCHANGED <<hardware, monitor, channel, consumer, done, health, slice, last, faults>>

-----------------------------------------------------------------------------
MonStep ==
    \/ MonLoop \/ MonTimeout \/ MonIgnore \/ MonLost \/ MonSend
    \/ \E d \in Devs : MonEvent(d) \/ MonMark(d)

ConStep == ConSkip \/ ConMark \/ ConPublish \/ ConStop

MainStep ==
    \/ \E bad \in SUBSET Gpus : StartMonitor(bad)
    \/ MainPublish \/ MainShutdown \/ MainClose \/ MainExit

Next ==
    \/ MonStep \/ ConStep \/ MainStep \/ Signal
    \/ \E d \in Devs : CriticalXid(d)
    \/ \E e \in {"skip", "lost"} : OtherEvent(e)

Spec == Init /\ [][Next]_vars

\* The three goroutines run whenever they can; a publish returns.
FairSpec == Spec /\ WF_vars(MonStep) /\ WF_vars(ConStep) /\ WF_vars(MainStep)

-----------------------------------------------------------------------------
(* Properties                                                               *)

\* No critical error gets lost on its way from NVML to the health status: until
\* the plugin is told to stop, it is marked, or waits in NVML, in the monitor or
\* in the channel.
NoCriticalErrorLost ==
    done \/ \A d \in critical :
        \/ health[d] = "Unhealthy"
        \/ d \in ToSet(pending) \/ d \in ToSet(unhealthy)
        \/ mon = "send" /\ monDev = d

\* The monitor never sends on a closed channel (which panics), nor uses NVML
\* after the shutdown that precedes the close.
ClosedOnlyAfterMonitor == closed => mon = "stopped"

\* A critical error marks the device, unless the plugin is told to stop.
CriticalErrorHandled ==
    \A d \in Devs : d \in critical ~> health[d] = "Unhealthy" \/ done

\* A lost GPU makes every device unhealthy in the end, although the mass
\* notification drops what the channel has no room for: a channel that was
\* empty has room for all.
LostMarksAll ==
    \A d \in Devs :
        mon = "markall" /\ todo = Devs /\ unhealthy = <<>> ~> health[d] = "Unhealthy" \/ done

\* An unhealthy device is advertised only while its withdrawal is under way, after
\* a publish that failed, or when the publish of the start, which announces all
\* devices, came after the consumer's.
UnhealthyWithdrawn ==
    \A d \in slice : health[d] = "Unhealthy" => con = "publish" \/ last \in {"main", "error"}

\* Shutdown ends, except when the consumer has left and the monitor waits for
\* room in a full channel: then it waits forever.
ShutdownEndsUnlessFull ==
    done ~> \/ main = "exited"
            \/ mon = "send" /\ Len(unhealthy) = Capacity /\ con = "stopped"

-----------------------------------------------------------------------------
(* The inductive invariant                                                  *)

\* Who has started and who has stopped at each step of the main goroutine.
ShutdownInv ==
    /\ main = "start" =>
        mon = "off" /\ con = "off" /\ ~done /\ critical = {} /\ unhealthy = <<>>
    /\ main # "start" => mon # "off"
    /\ mon = "stopped" => done
    /\ mon = "send" => monDev \in Devs
    /\ closed => mon = "stopped" /\ main \in {"wait", "exited"}

\* What the consumer is about to publish holds no device marked so far.
WithdrawalInv ==
    /\ UnhealthyWithdrawn
    /\ con = "publish" => \A d \in conSlice : health[d] = "Healthy"

\* The devices of a GPU that delivers no events have been reported at the start.
DeliveryInv ==
    /\ NoCriticalErrorLost
    /\ main # "start" => \A d \in Devs : GpuOf[d] \notin registered =>
        health[d] = "Unhealthy" \/ d \in ToSet(unhealthy)

\* What holds between any two steps of the three goroutines: each property with
\* what its proof has to know about the others.
HealthInv == HealthTypeOK /\ ShutdownInv /\ WithdrawalInv /\ DeliveryInv
=============================================================================
