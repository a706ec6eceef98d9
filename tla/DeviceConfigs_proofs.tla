------------------------ MODULE DeviceConfigs_proofs ------------------------
(***************************************************************************)
(* The lookup of prepareDevices finds the config the comment of            *)
(* GetOpaqueDeviceConfigs promises, for every allocation: class and claim  *)
(* configs in any number and order, results in any number.                 *)
(*                                                                         *)
(* A list is followed by the last of its members in a set (LastIn): the    *)
(* loops of GetOpaqueDeviceConfigs and concatenation preserve it, and the  *)
(* lookup returns it.                                                      *)
(***************************************************************************)
EXTENDS DeviceConfigs, FiniteSetTheorems, WellFoundedInduction, TLAPS

-----------------------------------------------------------------------------
(* The loops                                                                *)

\* Induction over the members of a set of numbers, for the loops below: the
\* intervals 0 .. n with n outside the set have a smallest, as finite sets do.
LEMMA SetInduction ==
    ASSUME NEW N \in Nat, NEW T, 0 \in T, \A n \in 1 .. N : n - 1 \in T => n \in T
    PROVE  0 .. N \subseteq T
<1> DEFINE Bad == (0 .. N) \ T
           Downs == {0 .. n : n \in Bad}
<1>1. SUFFICES ASSUME Bad # {} PROVE FALSE
  OBVIOUS
<1>2. Downs \subseteq FiniteSubsetsOf(Nat)
  <2>1. \A n \in Nat : IsFiniteSet(0 .. n)
    BY FS_Interval
  <2> QED
    BY <2>1 DEF FiniteSubsetsOf
<1>3. \E D \in Downs : \A E \in Downs : ~(<<E, D>> \in StrictSubsetOrdering(Nat))
  <2>1. Downs # {}
    BY <1>1
  <2>2. IsWellFoundedOn(StrictSubsetOrdering(Nat), FiniteSubsetsOf(Nat))
    BY FS_StrictSubsetOrderingWellFounded
  <2> HIDE DEF Downs
  <2> QED
    BY <1>2, <2>1, <2>2, WFMin
<1>4. PICK m \in Bad : \A n \in Bad : ~(<<0 .. n, 0 .. m>> \in StrictSubsetOrdering(Nat))
  BY <1>3
<1>5. m \in 1 .. N /\ m - 1 \in 0 .. N
  OBVIOUS
<1>6. <<0 .. (m - 1), 0 .. m>> \in StrictSubsetOrdering(Nat)
  <2>1. 0 .. (m - 1) \subseteq 0 .. m /\ m \in 0 .. m /\ m \notin 0 .. (m - 1)
    BY <1>5
  <2>2. 0 .. (m - 1) \in SUBSET Nat /\ 0 .. m \in SUBSET Nat
    BY <1>5
  <2> QED
    BY <2>1, <2>2 DEF StrictSubsetOrdering
<1>7. m - 1 \notin Bad
  BY <1>4, <1>6
<1> QED
  BY <1>5, <1>7

\* The recursive function of OfSource exists, so that its equations hold.
LEMMA OfSourceLoop ==
    ASSUME NEW S, NEW s \in Seq(S), NEW v
    PROVE  \E kept : /\ kept[0] = <<>>
                     /\ \A n \in 1 .. Len(s) :
                          kept[n] = IF s[n].source = v /\ s[n].driver = DriverName
                                    THEN Append(kept[n - 1], s[n])
                                    ELSE kept[n - 1]
                     /\ OfSource(s, v) = kept[Len(s)]
<1> DEFINE N == Len(s)
           Turn(g, n) == IF n = 0 THEN <<>>
                         ELSE IF s[n].source = v /\ s[n].driver = DriverName
                              THEN Append(g[n - 1], s[n])
                         ELSE g[n - 1]
           T == {n \in 0 .. N : \E g : g = [m \in 0 .. n |-> Turn(g, m)]}
<1>1. N \in Nat
  OBVIOUS
<1>2. 0 \in T
  <2> DEFINE g == [m \in 0 .. 0 |-> <<>>]
  <2>1. g = [m \in 0 .. 0 |-> Turn(g, m)]
    OBVIOUS
  <2> QED
    <3> HIDE DEF Turn, g
    <3> QED
      BY <1>1, <2>1
<1>3. ASSUME NEW n \in 1 .. N, n - 1 \in T PROVE n \in T
  <2>1. PICK g : g = [m \in 0 .. (n - 1) |-> Turn(g, m)]
    BY <1>3
  <2> DEFINE h == [m \in 0 .. n |-> IF m < n THEN g[m] ELSE Turn(g, n)]
  <2>2. \A m \in 0 .. n : h[m] = Turn(h, m)
    <3>1. ASSUME NEW m \in 0 .. n PROVE Turn(h, m) = Turn(g, m)
      <4>1. CASE m = 0
        BY <4>1
      <4>2. CASE m # 0
        <5>1. h[m - 1] = g[m - 1]
          BY <4>2
        <5> QED
          BY <5>1
      <4> QED
        BY <4>1, <4>2
    <3>2. \A m \in 0 .. (n - 1) : g[m] = Turn(g, m)
      <4> HIDE DEF Turn
      <4> QED
        BY <2>1
    <3> HIDE DEF Turn
    <3>3. \A m \in 0 .. n : h[m] = Turn(g, m)
      BY <3>2
    <3> QED
      BY <3>1, <3>3
  <2>3. h = [m \in 0 .. n |-> Turn(h, m)]
    <3> HIDE DEF Turn
    <3> QED
      BY <2>2
  <2> QED
    <3> HIDE DEF Turn, h
    <3> QED
      BY <2>3
<1>4. N \in T
  <2>1. \A n \in 1 .. N : n - 1 \in T => n \in T
    BY <1>3
  <2> HIDE DEF T, N
  <2>2. 0 .. N \subseteq T
    BY <1>1, <1>2, <2>1, SetInduction
  <2> QED
    BY <1>1, <2>2
<1>5. PICK g : g = [n \in 0 .. N |-> Turn(g, n)]
  BY <1>4
<1> DEFINE kept == CHOOSE k : k = [n \in 0 .. N |-> Turn(k, n)]
<1>6. kept = [n \in 0 .. N |-> Turn(kept, n)]
  <2> HIDE DEF Turn
  <2> QED
    BY <1>5
<1>7. OfSource(s, v) = kept[N]
  BY DEF OfSource
<1>8. \A n \in 0 .. N : kept[n] = Turn(kept, n)
  <2> HIDE DEF kept, Turn
  <2> QED
    BY <1>6
<1>9. /\ kept[0] = <<>>
      /\ \A n \in 1 .. N : kept[n] = IF s[n].source = v /\ s[n].driver = DriverName
                                     THEN Append(kept[n - 1], s[n])
                                     ELSE kept[n - 1]
  <2> HIDE DEF kept
  <2> QED
    BY <1>1, <1>8
<1> QED
  <2> HIDE DEF kept
  <2> QED
    BY <1>7, <1>9

\* The sequence has no member of X.
Misses(s, X) == \A i \in 1 .. Len(s) : s[i] \notin X

\* Its last member of X is c.
LastIn(s, X, c) ==
    \E i \in 1 .. Len(s) : s[i] = c /\ c \in X /\ \A j \in (i + 1) .. Len(s) : s[j] \notin X

\* The last member of X in what the loops keep is the last in the whole list
\* that has the source and is for this driver.
LEMMA OfSourceFacts ==
    ASSUME NEW S, NEW s \in Seq(S), NEW v, NEW X
    PROVE  LET Y == {c \in X : c.source = v /\ c.driver = DriverName}
           IN  /\ OfSource(s, v) \in Seq(S)
               /\ Misses(s, Y) => Misses(OfSource(s, v), X)
               /\ \A c : LastIn(s, Y, c) => LastIn(OfSource(s, v), X, c)
<1> DEFINE N == Len(s)
           Y == {c \in X : c.source = v /\ c.driver = DriverName}
<1>1. PICK kept : /\ kept[0] = <<>>
                  /\ \A n \in 1 .. N :
                       kept[n] = IF s[n].source = v /\ s[n].driver = DriverName
                                 THEN Append(kept[n - 1], s[n])
                                 ELSE kept[n - 1]
                  /\ OfSource(s, v) = kept[N]
  BY OfSourceLoop
<1> DEFINE EndsIn(n) == \A i \in 1 .. n :
                            s[i] \in Y /\ (\A j \in (i + 1) .. n : s[j] \notin Y)
                               => LastIn(kept[n], X, s[i])
           T == {n \in 0 .. N : /\ kept[n] \in Seq(S)
                                /\ (\A i \in 1 .. n : s[i] \notin Y) => Misses(kept[n], X)
                                /\ EndsIn(n)}
<1>2. N \in Nat /\ \A n \in 1 .. N : s[n] \in S
  OBVIOUS
<1>3. 0 \in T
  <2>1. Misses(kept[0], X)
    BY <1>1 DEF Misses
  <2>2. kept[0] \in Seq(S)
    BY <1>1
  <2> QED
    BY <1>2, <2>1, <2>2
<1>4. ASSUME NEW n \in 1 .. N, n - 1 \in T PROVE n \in T
  <2> DEFINE t == kept[n - 1]
             u == kept[n]
  <2>1. t \in Seq(S)
    BY <1>4
  <2>2. CASE s[n].source = v /\ s[n].driver = DriverName
    <3>1. u = Append(t, s[n])
      BY <1>1, <2>2
    <3>2. u \in Seq(S) /\ Len(u) = Len(t) + 1 /\ u[Len(u)] = s[n]
          /\ \A i \in 1 .. Len(t) : u[i] = t[i]
      BY <1>2, <2>1, <3>1
    <3>3. s[n] \in X <=> s[n] \in Y
      BY <2>2
    <3> HIDE DEF t, u, Y
    <3>4. (\A i \in 1 .. n : s[i] \notin Y) => Misses(u, X)
      <4>1. SUFFICES ASSUME \A i \in 1 .. n : s[i] \notin Y PROVE Misses(u, X)
        OBVIOUS
      <4>2. Misses(t, X) /\ s[n] \notin X
        BY <1>2, <1>4, <3>3, <4>1 DEF t
      <4> QED
        BY <2>1, <3>2, <4>2 DEF Misses
    <3>5. EndsIn(n)
      <4>1. SUFFICES ASSUME NEW i \in 1 .. n, s[i] \in Y,
                            \A j \in (i + 1) .. n : s[j] \notin Y
                     PROVE  LastIn(u, X, s[i])
        BY DEF u
      <4>2. CASE i = n
        BY <2>1, <3>2, <3>3, <4>1, <4>2 DEF LastIn
      <4>3. CASE i # n
        <5>1. LastIn(t, X, s[i]) /\ s[n] \notin X
          BY <1>2, <1>4, <3>3, <4>1, <4>3 DEF t
        <5> QED
          BY <2>1, <3>2, <5>1 DEF LastIn
      <4> QED
        BY <4>2, <4>3
    <3> HIDE DEF EndsIn
    <3> QED
      BY <1>2, <3>2, <3>4, <3>5 DEF u
  <2>3. CASE ~(s[n].source = v /\ s[n].driver = DriverName)
    <3>1. u = t /\ s[n] \notin Y
      BY <1>1, <2>3
    <3> HIDE DEF t, u, Y
    <3>2. (\A i \in 1 .. n : s[i] \notin Y) => Misses(u, X)
      BY <1>2, <1>4, <3>1 DEF t
    <3>3. EndsIn(n)
      <4>1. SUFFICES ASSUME NEW i \in 1 .. n, s[i] \in Y,
                            \A j \in (i + 1) .. n : s[j] \notin Y
                     PROVE  LastIn(u, X, s[i])
        BY DEF u
      <4> QED
        BY <1>2, <1>4, <3>1, <4>1 DEF t
    <3> HIDE DEF EndsIn
    <3> QED
      BY <1>2, <2>1, <3>1, <3>2, <3>3 DEF u
  <2> QED
    BY <2>2, <2>3
<1>5. N \in T
  <2>1. \A n \in 1 .. N : n - 1 \in T => n \in T
    BY <1>4
  <2> HIDE DEF T, N
  <2>2. 0 .. N \subseteq T
    BY <1>2, <1>3, <2>1, SetInduction
  <2> QED
    BY <1>2, <2>2
<1> HIDE DEF Y
<1>6. Misses(s, Y) => Misses(kept[N], X)
  BY <1>5 DEF Misses
<1>7. ASSUME NEW c, LastIn(s, Y, c) PROVE LastIn(kept[N], X, c)
  <2>1. PICK i \in 1 .. N : s[i] = c /\ c \in Y /\ \A j \in (i + 1) .. N : s[j] \notin Y
    BY <1>7 DEF LastIn
  <2>2. EndsIn(N)
    BY <1>5
  <2> QED
    BY <2>1, <2>2
<1> QED
  BY <1>1, <1>5, <1>6, <1>7 DEF Y

-----------------------------------------------------------------------------
(* Last members                                                             *)

\* A set of numbers that has a member and a bound has a greatest one.
LEMMA MaxFacts ==
    ASSUME NEW N \in Nat, NEW I, I \subseteq 1 .. N, I # {}
    PROVE  Max(I) \in I /\ \A i \in I : i <= Max(I)
<1> DEFINE T == {n \in 0 .. N : \/ \A i \in I : i > n
                                \/ \E m \in I : m <= n /\ \A i \in I : i <= n => i <= m}
<1>1. 0 \in T
  OBVIOUS
<1>2. ASSUME NEW n \in 1 .. N, n - 1 \in T PROVE n \in T
  <2>1. CASE n \in I
    BY <2>1
  <2>2. CASE n \notin I
    <3>1. \A i \in I : i \in Nat /\ i # n
      BY <2>2
    <3>2. \A i \in I : (i <= n <=> i <= n - 1) /\ (i > n <=> i > n - 1)
      BY <3>1
    <3> QED
      BY <1>2, <3>2
  <2> QED
    BY <2>1, <2>2
<1>3. N \in T
  <2>1. \A n \in 1 .. N : n - 1 \in T => n \in T
    BY <1>2
  <2> HIDE DEF T
  <2>2. 0 .. N \subseteq T
    BY <1>1, <2>1, SetInduction
  <2> QED
    BY <2>2
<1>4. \E m \in I : \A i \in I : m >= i
  <2>1. \A i \in I : i \in Nat /\ ~(i > N) /\ i <= N
    OBVIOUS
  <2>2. PICK m \in I : \A i \in I : i <= N => i <= m
    BY <1>3, <2>1
  <2> QED
    BY <2>1, <2>2
<1>5. Max(I) \in I /\ \A i \in I : Max(I) >= i
  BY <1>4 DEF Max
<1> QED
  BY <1>5

\* Of two lists one after the other the second counts first.
LEMMA LastFacts ==
    ASSUME NEW S, NEW s \in Seq(S), NEW t \in Seq(S), NEW X
    PROVE  /\ Misses(s, X) /\ Misses(t, X) => Misses(s \o t, X)
           /\ \A c : LastIn(t, X, c) => LastIn(s \o t, X, c)
           /\ \A c : LastIn(s, X, c) /\ Misses(t, X) => LastIn(s \o t, X, c)
<1>1. /\ Len(s) \in Nat /\ Len(t) \in Nat /\ Len(s \o t) = Len(s) + Len(t)
      /\ \A i \in 1 .. Len(s) : (s \o t)[i] = s[i]
      /\ \A i \in (Len(s) + 1) .. Len(s \o t) : (s \o t)[i] = t[i - Len(s)]
  OBVIOUS
<1> DEFINE u == s \o t
<1> HIDE DEF u
<1>2. Misses(s, X) /\ Misses(t, X) => Misses(u, X)
  BY <1>1 DEF Misses, u
<1>3. ASSUME NEW c, LastIn(t, X, c) PROVE LastIn(u, X, c)
  <2>1. PICK i \in 1 .. Len(t) :
            t[i] = c /\ c \in X /\ \A j \in (i + 1) .. Len(t) : t[j] \notin X
    BY <1>3 DEF LastIn
  <2>2. Len(s) + i \in 1 .. Len(u) /\ u[Len(s) + i] = c
    BY <1>1, <2>1 DEF u
  <2>3. \A j \in (Len(s) + i + 1) .. Len(u) : u[j] \notin X
    BY <1>1, <2>1 DEF u
  <2> QED
    BY <2>1, <2>2, <2>3 DEF LastIn
<1>4. ASSUME NEW c, LastIn(s, X, c), Misses(t, X) PROVE LastIn(u, X, c)
  <2>1. PICK i \in 1 .. Len(s) :
            s[i] = c /\ c \in X /\ \A j \in (i + 1) .. Len(s) : s[j] \notin X
    BY <1>4 DEF LastIn
  <2>2. i \in 1 .. Len(u) /\ u[i] = c
    BY <1>1, <2>1 DEF u
  <2>3. \A j \in (i + 1) .. Len(u) : u[j] \notin X
    BY <1>1, <1>4, <2>1 DEF u, Misses
  <2> QED
    BY <2>1, <2>2, <2>3 DEF LastIn
<1> QED
  BY <1>2, <1>3, <1>4 DEF u

-----------------------------------------------------------------------------
(* The lookup                                                               *)

\* The members of the list of prepareDevices.
Entry == Config \cup {DefaultConfig("gpu"), DefaultConfig("mig")}

\* Those the lookup takes for the result.
Takes(r) == {c \in Entry : r.request \in c.requests \/ (c.requests = {} /\ Fits(c, r))}

\* The list of prepareDevices: the two defaults and the decoded configs.
LEMMA ConfigsOfFacts ==
    ASSUME NEW a, IsAllocation(a)
    PROVE  /\ GetOpaqueDeviceConfigs(a.configs) \in Seq(Entry)
           /\ ConfigsOf(a) \in Seq(Entry)
<1>1. a.configs \in Seq(Entry)
  <2>1. a.configs \in Seq(Config)
    BY DEF IsAllocation
  <2> QED
    BY <2>1 DEF Entry
<1>2. \A v : OfSource(a.configs, v) \in Seq(Entry)
  BY <1>1, OfSourceFacts
<1>3. GetOpaqueDeviceConfigs(a.configs) \in Seq(Entry)
  BY <1>2 DEF GetOpaqueDeviceConfigs
<1>4. <<DefaultConfig("mig"), DefaultConfig("gpu")>> \in Seq(Entry)
  BY DEF Entry
<1> QED
  BY <1>3, <1>4 DEF ConfigsOf

\* The lookup finds the last entry it takes.
LEMMA LookupFinds ==
    ASSUME NEW a, IsAllocation(a), NEW r, NEW c, LastIn(ConfigsOf(a), Takes(r), c)
    PROVE  Lookup(ConfigsOf(a), r) # 0 /\ ConfigsOf(a)[Lookup(ConfigsOf(a), r)] = c
<1> DEFINE s == ConfigsOf(a)
           N == Len(s)
           I == {i \in 1 .. N : s[i] \in Takes(r)}
<1>1. N \in Nat /\ \A i \in 1 .. N : s[i] \in Entry
  BY ConfigsOfFacts
<1>2. PICK k \in 1 .. N : s[k] = c /\ c \in Takes(r) /\ \A j \in (k + 1) .. N : s[j] \notin Takes(r)
  BY DEF LastIn
<1>3. I = {i \in 1 .. N : r.request \in s[i].requests \/ (s[i].requests = {} /\ Fits(s[i], r))}
  BY <1>1 DEF Takes
<1>4. Lookup(ConfigsOf(a), r) = IF I # {} THEN Max(I) ELSE 0
  BY <1>3 DEF Lookup, SelectLastInSeq
<1>5. k \in I
  BY <1>2
<1>6. Max(I) \in I /\ \A i \in I : i <= Max(I)
  <2>1. I \subseteq 1 .. N /\ I # {}
    BY <1>5
  <2> HIDE DEF I, N
  <2> QED
    BY <1>1, <2>1, MaxFacts
<1>7. Max(I) = k
  BY <1>2, <1>5, <1>6
<1> QED
  BY <1>2, <1>4, <1>5, <1>7

\* And that is the config that governs the result.
LEMMA GoverningIsLast ==
    ASSUME NEW a, IsAllocation(a), NEW r, r.device \in Devs
    PROVE  LastIn(ConfigsOf(a), Takes(r), GoverningConfig(a, r))
<1> DEFINE s == a.configs
           N == Len(s)
           ofClass == OfSource(s, "class")
           ofClaim == OfSource(s, "claim")
           own == GetOpaqueDeviceConfigs(s)
           Mine == {c \in Takes(r) : c.driver = DriverName}
           From(src) == {c \in Takes(r) : c.source = src /\ c.driver = DriverName}
<1>1. /\ s \in Seq(Entry) /\ N \in Nat /\ DOMAIN s = 1 .. N
      /\ \A i \in 1 .. N : s[i] \in Entry /\ s[i].source \in {"class", "claim"}
  <2>1. s \in Seq(Config)
    BY DEF IsAllocation
  <2>2. s \in Seq(Entry)
    BY <2>1 DEF Entry
  <2>3. \A i \in 1 .. N : s[i].source \in {"class", "claim"}
    <3>1. \A i \in 1 .. N : s[i] \in Config
      BY <2>1
    <3> QED
      BY <3>1 DEF Config
  <2> QED
    BY <2>2, <2>3
<1>2. \A i \in 1 .. N : Concerns(a, i, r) <=> s[i] \in Mine
  BY <1>1 DEF Concerns, Takes
<1>3. /\ ofClass \in Seq(Entry) /\ ofClaim \in Seq(Entry)
      /\ Misses(s, From("class")) => Misses(ofClass, Takes(r))
      /\ Misses(s, From("claim")) => Misses(ofClaim, Takes(r))
      /\ \A c : LastIn(s, From("class"), c) => LastIn(ofClass, Takes(r), c)
      /\ \A c : LastIn(s, From("claim"), c) => LastIn(ofClaim, Takes(r), c)
  <2>1. \A v : /\ OfSource(s, v) \in Seq(Entry)
               /\ Misses(s, From(v)) => Misses(OfSource(s, v), Takes(r))
               /\ \A c : LastIn(s, From(v), c) => LastIn(OfSource(s, v), Takes(r), c)
    BY <1>1, OfSourceFacts
  <2> QED
    BY <2>1
<1>4. own = ofClass \o ofClaim
  BY DEF GetOpaqueDeviceConfigs
<1> DEFINE defaults == <<DefaultConfig("mig"), DefaultConfig("gpu")>>
<1>5. defaults \in Seq(Entry) /\ own \in Seq(Entry) /\ ConfigsOf(a) = defaults \o own
  BY ConfigsOfFacts DEF ConfigsOf, Entry
<1>6. LastIn(defaults, Takes(r), DefaultConfig(DevType[r.device]))
  <2>1. DevType[r.device] \in {"gpu", "mig"}
    BY ConfigsAssumption
  <2>2. \A k \in {"gpu", "mig"} : DefaultConfig(k) \in Takes(r) <=> k = DevType[r.device]
    BY DEF DefaultConfig, Takes, Entry, Fits
  <2>3. Len(defaults) = 2 /\ defaults[1] = DefaultConfig("mig") /\ defaults[2] = DefaultConfig("gpu")
    OBVIOUS
  <2> HIDE DEF defaults
  <2>4. CASE DevType[r.device] = "mig"
    BY <2>2, <2>3, <2>4 DEF LastIn
  <2>5. CASE DevType[r.device] = "gpu"
    BY <2>2, <2>3, <2>5 DEF LastIn
  <2> QED
    BY <2>1, <2>4, <2>5
<1> HIDE DEF ofClass, ofClaim, own, defaults, Mine, From
\* The last claim config, or else the last class config, or else the default.
<1>7. \A X : ~Misses(s, X) => \E i \in 1 .. N : /\ s[i] \in X
                                                /\ \A j \in (i + 1) .. N : s[j] \notin X
  <2> SUFFICES ASSUME NEW X, ~Misses(s, X)
               PROVE  \E i \in 1 .. N : s[i] \in X /\ \A j \in (i + 1) .. N : s[j] \notin X
    OBVIOUS
  <2> DEFINE I == {i \in 1 .. N : s[i] \in X}
  <2>1. I \subseteq 1 .. N /\ I # {}
    BY DEF Misses
  <2>2. Max(I) \in I /\ \A i \in I : i <= Max(I)
    <3> HIDE DEF I
    <3> QED
      BY <1>1, <2>1, MaxFacts
  <2>3. \A j \in (Max(I) + 1) .. N : j \notin I
    <3>1. Max(I) \in Nat /\ \A i \in I : i \in Nat /\ ~(i > Max(I))
      <4>1. N \in Nat
        BY <1>1
      <4> HIDE DEF I, N
      <4>2. \A i \in I : i \in Nat
        BY <2>1, <4>1
      <4> QED
        BY <2>2, <4>2
    <3>2. \A j \in (Max(I) + 1) .. N : j > Max(I)
      BY <1>1, <3>1
    <3> HIDE DEF I
    <3> QED
      BY <3>1, <3>2
  <2>4. \A j \in (Max(I) + 1) .. N : j \in 1 .. N
    BY <1>1, <2>2
  <2> QED
    BY <2>2, <2>3, <2>4
<1>8. ASSUME NEW i \in 1 .. N, Concerns(a, i, r),
             \A j \in 1 .. N : j # i /\ Concerns(a, j, r) => Outranks(a, i, j) /\ ~Outranks(a, j, i)
      PROVE  GoverningConfig(a, r) = s[i]
  <2>1. Governing(a, r) = {i}
    BY <1>1, <1>8 DEF Governing
  <2> QED
    BY <2>1 DEF GoverningConfig
<1>9. CASE ~Misses(s, From("claim"))
  <2>1. PICK i \in 1 .. N : /\ s[i] \in From("claim")
                            /\ \A j \in (i + 1) .. N : s[j] \notin From("claim")
    BY <1>7, <1>9
  <2>2. LastIn(s, From("claim"), s[i])
    BY <2>1 DEF LastIn
  <2>3. LastIn(ConfigsOf(a), Takes(r), s[i])
    <3>1. LastIn(ofClaim, Takes(r), s[i])
      BY <1>3, <2>2
    <3>2. LastIn(own, Takes(r), s[i])
      BY <1>3, <1>4, <3>1, LastFacts
    <3> QED
      BY <1>5, <3>2, LastFacts
  <2>4. ASSUME NEW j \in 1 .. N, j # i, Concerns(a, j, r)
        PROVE  Outranks(a, i, j) /\ ~Outranks(a, j, i)
    <3>1. s[i].source = "claim" /\ s[j] \in Mine /\ s[j].source \in {"class", "claim"}
      BY <1>1, <1>2, <2>1, <2>4 DEF From, Mine
    <3>2. s[j].source = "claim" => j < i
      <4>1. SUFFICES ASSUME s[j].source = "claim", j > i PROVE FALSE
        BY <2>4
      <4>2. s[j] \in From("claim")
        BY <3>1, <4>1 DEF From, Mine
      <4>3. j \in (i + 1) .. N
        BY <1>1, <4>1
      <4> QED
        BY <2>1, <4>2, <4>3
    <3> QED
      BY <3>1, <3>2 DEF Outranks
  <2>5. Concerns(a, i, r)
    BY <1>2, <2>1 DEF From, Mine
  <2>6. GoverningConfig(a, r) = s[i]
    BY <1>8, <2>4, <2>5
  <2> QED
    BY <2>3, <2>6
<1>10. CASE Misses(s, From("claim")) /\ ~Misses(s, From("class"))
  <2>1. PICK i \in 1 .. N : /\ s[i] \in From("class")
                            /\ \A j \in (i + 1) .. N : s[j] \notin From("class")
    BY <1>7, <1>10
  <2>2. LastIn(s, From("class"), s[i])
    BY <2>1 DEF LastIn
  <2>3. LastIn(ConfigsOf(a), Takes(r), s[i])
    <3>1. LastIn(ofClass, Takes(r), s[i]) /\ Misses(ofClaim, Takes(r))
      BY <1>3, <1>10, <2>2
    <3>2. LastIn(own, Takes(r), s[i])
      BY <1>3, <1>4, <3>1, LastFacts
    <3> QED
      BY <1>5, <3>2, LastFacts
  <2>4. ASSUME NEW j \in 1 .. N, j # i, Concerns(a, j, r)
        PROVE  Outranks(a, i, j) /\ ~Outranks(a, j, i)
    <3>1. s[i].source = "class" /\ s[j] \in Mine /\ s[j].source \in {"class", "claim"}
      BY <1>1, <1>2, <2>1, <2>4 DEF From, Mine
    <3>2. s[j].source = "class"
      BY <1>10, <3>1 DEF Misses, From, Mine
    <3>3. j < i
      <4>1. SUFFICES ASSUME j > i PROVE FALSE
        BY <2>4
      <4>2. s[j] \in From("class")
        BY <3>1, <3>2 DEF From, Mine
      <4>3. j \in (i + 1) .. N
        BY <1>1, <4>1
      <4> QED
        BY <2>1, <4>2, <4>3
    <3> QED
      BY <3>1, <3>2, <3>3 DEF Outranks
  <2>5. Concerns(a, i, r)
    BY <1>2, <2>1 DEF From, Mine
  <2>6. GoverningConfig(a, r) = s[i]
    BY <1>8, <2>4, <2>5
  <2> QED
    BY <2>3, <2>6
<1>11. CASE Misses(s, From("claim")) /\ Misses(s, From("class"))
  <2>1. Misses(own, Takes(r))
    <3>1. Misses(ofClass, Takes(r)) /\ Misses(ofClaim, Takes(r))
      BY <1>3, <1>11
    <3> QED
      BY <1>3, <1>4, <3>1, LastFacts
  <2>2. LastIn(ConfigsOf(a), Takes(r), DefaultConfig(DevType[r.device]))
    BY <1>5, <1>6, <2>1, LastFacts
  <2>3. \A i \in 1 .. N : ~Concerns(a, i, r)
    BY <1>1, <1>2, <1>11 DEF Misses, From, Mine
  <2>4. GoverningConfig(a, r) = DefaultConfig(DevType[r.device])
    BY <1>1, <2>3 DEF GoverningConfig, Governing
  <2> QED
    BY <2>2, <2>4
<1> QED
  BY <1>9, <1>10, <1>11

\* The config of a group is one of the list.
LEMMA GroupConfigs ==
    ASSUME NEW a, IsAllocation(a), ~LookupFails(a), NEW g \in Groups(a)
    PROVE  g.config.sharing \in {"none", "Default", "Long", "mps"}
<1>1. PICK r \in OwnResults(a) : g = Group(a, ConfigsOf(a), Lookup(ConfigsOf(a), r))
  BY DEF Groups
<1>2. r.device \in Devs
  BY DEF LookupFails
<1>3. LastIn(ConfigsOf(a), Takes(r), GoverningConfig(a, r))
  BY <1>2, GoverningIsLast
<1>4. g.config = GoverningConfig(a, r)
  BY <1>1, <1>3, LookupFinds DEF Group
<1>5. GoverningConfig(a, r) \in Entry
  BY <1>3 DEF LastIn, Takes
<1> QED
  BY <1>4, <1>5 DEF Entry, Config, DefaultConfig

\* Every allocation gets the groups the documented precedence demands, and is
\* refused exactly if it cannot be served: GetOpaqueDeviceConfigs and the lookup
\* of prepareDevices.
THEOREM LookupFollowsPrecedence ==
    \A a : IsAllocation(a) => FollowsPrecedence(a)
<1> SUFFICES ASSUME NEW a, IsAllocation(a) PROVE FollowsPrecedence(a)
  OBVIOUS
<1>1. \A r \in OwnResults(a) : r.device \in Devs =>
         LET i == Lookup(ConfigsOf(a), r)
         IN  i # 0 /\ ConfigsOf(a)[i] = GoverningConfig(a, r)
  BY GoverningIsLast, LookupFinds
<1>2. LookupFails(a) <=> Unservable(a)
  <2>1. AllocatedDevs(a) \in SUBSET Devs <=> \A r \in OwnResults(a) : r.device \in Devs
    BY DEF AllocatedDevs
  <2> QED
    BY <1>1, <2>1 DEF LookupFails, Unservable
<1>3. ASSUME ~Unservable(a), NEW r \in OwnResults(a)
      PROVE  {g.config : g \in {h \in Groups(a) : r.device \in h.devs}} = {GoverningConfig(a, r)}
  <2>1. r.device \in Devs
    BY <1>3 DEF Unservable, AllocatedDevs
  <2>2. ASSUME NEW s \in OwnResults(a), s.device = r.device PROVE s = r
    BY <2>2 DEF IsAllocation, OwnResults
  <2>3. \A g \in Groups(a) : r.device \in g.devs <=> g = Group(a, ConfigsOf(a), Lookup(ConfigsOf(a), r))
    <3>1. SUFFICES ASSUME NEW i \in {Lookup(ConfigsOf(a), s) : s \in OwnResults(a)}
                   PROVE  r.device \in Group(a, ConfigsOf(a), i).devs <=> i = Lookup(ConfigsOf(a), r)
      BY DEF Groups
    <3> QED
      BY <2>2 DEF Group
  <2>4. Group(a, ConfigsOf(a), Lookup(ConfigsOf(a), r)) \in Groups(a)
    BY <1>1, <2>1 DEF Groups
  <2>5. Group(a, ConfigsOf(a), Lookup(ConfigsOf(a), r)).config = GoverningConfig(a, r)
    BY <1>1, <2>1 DEF Group
  <2> QED
    BY <2>3, <2>4, <2>5
<1> QED
  BY <1>2, <1>3 DEF FollowsPrecedence
=============================================================================
