---------------------------- MODULE DeviceConfigs ----------------------------
(***************************************************************************)
(* Which opaque config governs which allocated device: the decoding of     *)
(* GetOpaqueDeviceConfigs and the lookup of DeviceState.prepareDevices, as *)
(* operators on an allocation, and a reference definition of what the      *)
(* comment of GetOpaqueDeviceConfigs promises.                             *)
(*                                                                         *)
(* An allocation a has a.results, the allocated devices with the request   *)
(* each one answers, and a.configs, the configs of class and claim in the  *)
(* order the API server lists them.  A config names requests, or none for  *)
(* all of them.  Its kind is the decoded type, "undecodable" if the strict *)
(* decoder refuses it; an unknown source or a missing opaque part ends in  *)
(* the same error.  PassthroughSupport is off: no vfio devices.            *)
(***************************************************************************)
EXTENDS Naturals, Sequences, FiniteSets, SequencesExt

CONSTANTS
    Devs,        \* allocatable devices: full GPUs and static MIG devices
    DevType,     \* "gpu" or "mig" for each
    DriverName

ASSUME ConfigsAssumption == DevType \in [Devs -> {"gpu", "mig"}]

\* A config as the decoder sees it.
Config == [source : {"class", "claim"}, driver : STRING, requests : SUBSET STRING,
           kind : {"gpu", "mig", "vfio", "undecodable"},
           sharing : {"none", "Default", "Long", "mps"}, valid : BOOLEAN]

\* The scheduler allocates a device once per claim.
IsAllocation(a) ==
    /\ a.configs \in Seq(Config)
    /\ \A r, s \in a.results : r.driver = s.driver /\ r.device = s.device => r = s

-----------------------------------------------------------------------------
(* GetOpaqueDeviceConfigs                                                   *)

\* The configs of this driver from class or claim, in their order: loops that
\* append.
OfSource(possible, source) ==
    LET kept[n \in 0 .. Len(possible)] ==
            IF n = 0 THEN <<>>
            ELSE IF possible[n].source = source /\ possible[n].driver = DriverName
                 THEN Append(kept[n - 1], possible[n])
            ELSE kept[n - 1]
    IN  kept[Len(possible)]

\* Fault: class configs over claim configs.
GetOpaqueDeviceConfigsBySource(possible) ==
    OfSource(possible, "claim") \o OfSource(possible, "class")

\* Class configs first, then claim configs: lowest precedence first.
GetOpaqueDeviceConfigs(possible) ==
    OfSource(possible, "class") \o OfSource(possible, "claim")

DecodeFails(a) ==
    \E i \in DOMAIN a.configs :
        a.configs[i].driver = DriverName /\ a.configs[i].kind = "undecodable"

\* The defaults prepareDevices inserts in front of the list.
DefaultConfig(kind) ==
    [source |-> "default", driver |-> DriverName, requests |-> {}, kind |-> kind,
     sharing |-> IF kind = "gpu" THEN "Default" ELSE "none", valid |-> TRUE]

ConfigsOf(a) ==
    <<DefaultConfig("mig"), DefaultConfig("gpu")>> \o GetOpaqueDeviceConfigs(a.configs)

-----------------------------------------------------------------------------
(* The lookup                                                               *)

OwnResults(a) == {r \in a.results : r.driver = DriverName}
AllocatedDevs(a) == {r.device : r \in OwnResults(a)}

\* A GpuConfig is for full GPUs, a MigDeviceConfig for MIG devices, and no
\* device here takes a VfioDeviceConfig.
Fits(c, r) == c.kind = DevType[r.device]

\* The first config from the back that names the request, or names none and is
\* of the device's type.  0 if there is none.
Lookup(configs, r) ==
    SelectLastInSeq(configs,
        LAMBDA c : r.request \in c.requests \/ (c.requests = {} /\ Fits(c, r)))

\* prepareDevices returns an error before it has any effect.
LookupFails(a) ==
    \/ DecodeFails(a)
    \/ LET configs == ConfigsOf(a)
       IN  \E r \in OwnResults(a) :
              \/ r.device \notin Devs
              \/ LET i == Lookup(configs, r) IN i # 0 /\ ~Fits(configs[i], r)

\* configResultsMap: the devices of each config that governs any.
Group(a, configs, i) ==
    [config |-> configs[i],
     devs |-> {r.device : r \in {s \in OwnResults(a) : Lookup(configs, s) = i}}]
Groups(a) ==
    LET configs == ConfigsOf(a)
    IN  {Group(a, configs, i) : i \in {Lookup(configs, r) : r \in OwnResults(a)} \ {0}}

-----------------------------------------------------------------------------
(* Reference: precedence as the comment states it                           *)

\* Config i of the allocation concerns the result.
Concerns(a, i, r) ==
    LET c == a.configs[i]
    IN  c.driver = DriverName /\ (r.request \in c.requests \/ (c.requests = {} /\ Fits(c, r)))

\* Claim before class, later before earlier.
Outranks(a, i, j) ==
    \/ a.configs[i].source = "claim" /\ a.configs[j].source = "class"
    \/ a.configs[i].source = a.configs[j].source /\ i > j

Governing(a, r) ==
    {i \in DOMAIN a.configs :
        /\ Concerns(a, i, r)
        /\ \A j \in DOMAIN a.configs \ {i} : Concerns(a, j, r) => Outranks(a, i, j)}

GoverningConfig(a, r) ==
    IF Governing(a, r) = {} THEN DefaultConfig(DevType[r.device])
    ELSE a.configs[CHOOSE i \in Governing(a, r) : TRUE]

\* The allocation cannot be served: a config of this driver is unreadable, a
\* device is unknown, or the governing config of a result is of another type.
Unservable(a) ==
    \/ DecodeFails(a)
    \/ AllocatedDevs(a) \notin SUBSET Devs
    \/ \E r \in OwnResults(a) : ~Fits(GoverningConfig(a, r), r)

\* The groups of an allocation are those the precedence asks for.
FollowsPrecedence(a) ==
    /\ LookupFails(a) <=> Unservable(a)
    /\ ~Unservable(a) => \A r \in OwnResults(a) :
          {g.config : g \in {h \in Groups(a) : r.device \in h.devs}} = {GoverningConfig(a, r)}
=============================================================================
