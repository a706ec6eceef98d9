------------------------------ MODULE MCSharing ------------------------------
(* Instances of Sharing for TLC.                                            *)
EXTENDS Sharing, TLC

CONSTANTS c1, c2, g1, g2, m1

Types == (g1 :> "gpu") @@ (g2 :> "gpu") @@ (m1 :> "mig")

Cfg(source, requests, kind, sharing) ==
    [source |-> source, driver |-> DriverName, requests |-> requests, kind |-> kind,
     sharing |-> sharing, valid |-> TRUE]
Result(request, device) == [request |-> request, device |-> device, driver |-> DriverName]

\* Configs of class and claim, for one request or all, that fit and do not.
Pool == {Cfg("class", {}, "gpu", "Long"), Cfg("claim", {}, "gpu", "mps"),
         Cfg("class", {"r2"}, "mig", "mps"), Cfg("claim", {"r1", "r2"}, "gpu", "Long"),
         Cfg("claim", {"r1"}, "vfio", "none"), Cfg("claim", {"r1"}, "undecodable", "none"),
         [Cfg("claim", {}, "mig", "none") EXCEPT !.valid = FALSE]}
OtherDriver == [Cfg("claim", {}, "gpu", "mps") EXCEPT !.driver = "other"]
Lists == {s \in SeqOf(Pool, 2) : IsInjective(s)}
            \cup {<<Cfg("class", {}, "gpu", "Long"), OtherDriver>>}

\* One claim with a GPU and a MIG device and up to two of these configs.  The
\* other claim wants the same GPU and nothing special.
GpuAndMig == {Result("r1", g1), Result("r2", m1)}
Mixed == {(c1 :> [results |-> GpuAndMig, configs |-> s])
            @@ (c2 :> [results |-> {Result("r1", g1)}, configs |-> <<>>]) :
          s \in Lists}

\* Both claims share, by MPS and by time slices, two GPUs in one group.
TwoGpus == {Result("r1", g1), Result("r2", g2)}
Contended == {(c1 :> [results |-> TwoGpus, configs |-> <<Cfg("claim", {}, "gpu", "mps")>>])
                @@ (c2 :> [results |-> {Result("r1", g1)},
                           configs |-> <<Cfg("class", {}, "gpu", "Long")>>])}

\* Results of other drivers and devices that are gone.
Foreign == {(c1 :> [results |-> {Result("r1", g1),
                                 [Result("r2", "nic") EXCEPT !.driver = "other"]},
                    configs |-> <<>>])
              @@ (c2 :> [results |-> {Result("r1", "gone")}, configs |-> <<>>])}

\* Both claims are given the MIG device, as scheduler races and forced deletion do.
SameMig == {(c1 :> [results |-> {Result("r1", m1)}, configs |-> <<>>])
              @@ (c2 :> [results |-> {Result("r1", m1)}, configs |-> <<>>])}

AllInputs == Mixed \cup Contended \cup Foreign \cup SameMig
=============================================================================
