------------------------- MODULE RecordingRulesProofs --------------------------
(***************************************************************************)
(* Proofs about RecordingRules for any finite set of targets.              *)
(***************************************************************************)
EXTENDS RecordingRules, WellFoundedInduction, FiniteSetTheorems, TLAPS

------------------------------------------------------------------------------
(* Sums over finite sets of samples. *)

Pick(s) == CHOOSE x \in s : TRUE
IsFold(f, S) == f = [s \in SUBSET S |-> IF s = {} THEN 0 ELSE Pick(s).value + f[s \ {Pick(s)}]]
Fold(S) == CHOOSE f : IsFold(f, S)
Total(S) == Fold(S)[S]

LEMMA Picked == \A s : s # {} => Pick(s) \in s
BY DEF Pick

\* A finite set has a smallest subset with a property if one has it.
LEMMA SmallestSubset ==
    ASSUME NEW S, IsFiniteSet(S), NEW B \in SUBSET (SUBSET S), B # {}
    PROVE  \E s \in B : \A u \in B : u \subseteq s => u = s
<1> DEFINE R == StrictSubsetOrdering(S)
<1>1. B \subseteq FiniteSubsetsOf(S)
  <2>1. \A s \in SUBSET S : IsFiniteSet(s)
    BY FS_Subset
  <2> QED
    BY <2>1 DEF FiniteSubsetsOf
<1>2. PICK s \in B : \A u \in B : <<u, s>> \notin R
  <2>1. IsWellFoundedOn(R, FiniteSubsetsOf(S))
    BY FS_StrictSubsetOrderingWellFounded
  <2> HIDE DEF R
  <2> QED
    BY <1>1, <2>1, WFMin, Zenon
<1> QED
  BY <1>2 DEF StrictSubsetOrdering

LEMMA FoldOfSubset ==
    ASSUME NEW S, NEW T, T \subseteq S, NEW f, IsFold(f, S)
    PROVE  IsFold([s \in SUBSET T |-> f[s]], T)
<1> DEFINE g == [s \in SUBSET T |-> f[s]]
<1>1. \A s \in SUBSET T : g[s] = f[s] /\ g[s \ {Pick(s)}] = f[s \ {Pick(s)}]
  OBVIOUS
<1>2. \A s \in SUBSET T : f[s] = IF s = {} THEN 0 ELSE Pick(s).value + f[s \ {Pick(s)}]
  BY DEF IsFold
<1>3. g = [s \in SUBSET T |-> IF s = {} THEN 0 ELSE Pick(s).value + g[s \ {Pick(s)}]]
  BY <1>1, <1>2
<1> QED
  BY <1>3 DEF IsFold

LEMMA FoldIsUnique ==
    ASSUME NEW S, IsFiniteSet(S), NEW f, NEW g, IsFold(f, S), IsFold(g, S)
    PROVE  f = g
<1> DEFINE B == {s \in SUBSET S : f[s] # g[s]}
<1>1. \A s \in SUBSET S : /\ f[s] = IF s = {} THEN 0 ELSE Pick(s).value + f[s \ {Pick(s)}]
                          /\ g[s] = IF s = {} THEN 0 ELSE Pick(s).value + g[s \ {Pick(s)}]
  BY DEF IsFold
<1>2. ASSUME B # {} PROVE FALSE
  <2>1. PICK s \in B : \A u \in B : u \subseteq s => u = s
    <3>1. B \in SUBSET (SUBSET S)
      OBVIOUS
    <3> HIDE DEF B
    <3> QED
      BY <1>2, <3>1, SmallestSubset
  <2>2. s # {} /\ Pick(s) \in s
    BY <1>1, <2>1, Picked
  <2>3. s \ {Pick(s)} \in SUBSET S /\ s \ {Pick(s)} \notin B
    BY <2>1, <2>2
  <2> QED
    BY <1>1, <2>1, <2>3
<1>3. \A s \in SUBSET S : f[s] = g[s]
  BY <1>2
<1>4. f = [s \in SUBSET S |-> f[s]] /\ g = [s \in SUBSET S |-> g[s]]
  BY DEF IsFold
<1> QED
  BY <1>3, <1>4

LEMMA FoldExists ==
    ASSUME NEW S, IsFiniteSet(S)
    PROVE  \A s \in SUBSET S : IsFold(Fold(s), s)
<1> DEFINE B == {s \in SUBSET S : ~ \E f : IsFold(f, s)}
<1>1. ASSUME B # {} PROVE FALSE
  <2>1. PICK s \in B : \A u \in B : u \subseteq s => u = s
    <3>1. B \in SUBSET (SUBSET S)
      OBVIOUS
    <3> HIDE DEF B
    <3> QED
      BY <1>1, <3>1, SmallestSubset
  <2>2. \A u \in SUBSET s : u # s => IsFold(Fold(u), u)
    BY <2>1 DEF Fold
  <2> DEFINE f == [u \in SUBSET s |-> IF u = {} THEN 0 ELSE Pick(u).value + Total(u \ {Pick(u)})]
  <2>3. ASSUME NEW u \in SUBSET s, u # s PROVE f[u] = Total(u)
    <3>1. Total(u) = IF u = {} THEN 0 ELSE Pick(u).value + Fold(u)[u \ {Pick(u)}]
      BY <2>2, <2>3 DEF IsFold, Total
    <3>2. ASSUME u # {} PROVE Fold(u)[u \ {Pick(u)}] = Total(u \ {Pick(u)})
      <4> DEFINE v == u \ {Pick(u)}
      <4>1. v \in SUBSET u /\ v \in SUBSET s /\ v # s /\ IsFiniteSet(v)
        BY <2>1, <2>3, FS_Subset
      <4> HIDE DEF v
      <4>2. IsFold(Fold(u), u) /\ IsFold(Fold(v), v)
        BY <2>2, <2>3, <4>1
      <4>3. IsFold([t \in SUBSET v |-> Fold(u)[t]], v)
        BY <4>1, <4>2, FoldOfSubset
      <4>4. Fold(v) = [t \in SUBSET v |-> Fold(u)[t]]
        BY <4>1, <4>2, <4>3, FoldIsUnique
      <4>5. Fold(v)[v] = Fold(u)[v]
        BY <4>4
      <4> QED
        BY <4>5 DEF Total, v
    <3> QED
      BY <3>1, <3>2
  <2>4. \A u \in SUBSET s : u # {} => u \ {Pick(u)} \in SUBSET s /\ u \ {Pick(u)} # s
    BY Picked
  <2>5. \A u \in SUBSET s : u # {} => f[u \ {Pick(u)}] = Total(u \ {Pick(u)})
    <3> HIDE DEF f
    <3> QED
      BY <2>3, <2>4
  <2>6. f = [u \in SUBSET s |-> IF u = {} THEN 0 ELSE Pick(u).value + f[u \ {Pick(u)}]]
    BY <2>5
  <2> HIDE DEF f
  <2> QED
    BY <2>1, <2>6 DEF IsFold
<1> QED
  BY <1>1 DEF Fold

(* The sum of a finite set: of nothing, and of a sample and the rest. *)
LEMMA TotalUnfolds ==
    ASSUME NEW S, IsFiniteSet(S)
    PROVE  Total(S) = IF S = {} THEN 0 ELSE Pick(S).value + Total(S \ {Pick(S)})
<1> DEFINE T == S \ {Pick(S)}
<1>1. IsFold(Fold(S), S) /\ IsFold(Fold(T), T) /\ T \subseteq S /\ IsFiniteSet(T)
  BY FoldExists, FS_Subset
<1> HIDE DEF T
<1>2. Fold(T) = [t \in SUBSET T |-> Fold(S)[t]]
  BY <1>1, FoldOfSubset, FoldIsUnique
<1>3. Fold(T)[T] = Fold(S)[T]
  BY <1>2
<1>4. Fold(S)[S] = IF S = {} THEN 0 ELSE Pick(S).value + Fold(S)[S \ {Pick(S)}]
  BY <1>1 DEF IsFold
<1> QED
  BY <1>3, <1>4 DEF Total, T

LEMMA TotalOfOne == ASSUME NEW x, x.value \in Int PROVE Total({x}) = x.value
<1>1. Pick({x}) = x /\ {x} \ {x} = {} /\ IsFiniteSet({x}) /\ IsFiniteSet({})
  BY Picked, FS_Singleton, FS_EmptySet
<1>2. Total({}) = 0
  BY <1>1, TotalUnfolds
<1>3. Total({x}) = Pick({x}).value + Total({x} \ {Pick({x})})
  BY <1>1, TotalUnfolds
<1> QED
  BY <1>1, <1>2, <1>3

LEMMA TotalOfTwo ==
    ASSUME NEW x, NEW y, x # y, x.value \in Int, y.value \in Int
    PROVE  Total({x, y}) = x.value + y.value
<1>1. IsFiniteSet({x, y})
  <2>1. IsFiniteSet({x} \cup {y})
    BY FS_Singleton, FS_AddElement
  <2> QED
    BY <2>1
<1>2. \/ Pick({x, y}) = x /\ {x, y} \ {Pick({x, y})} = {y}
      \/ Pick({x, y}) = y /\ {x, y} \ {Pick({x, y})} = {x}
  BY Picked
<1>3. Total({x}) = x.value /\ Total({y}) = y.value
  BY TotalOfOne
<1>4. Total({x, y}) = Pick({x, y}).value + Total({x, y} \ {Pick({x, y})})
  BY <1>1, TotalUnfolds
<1>5. CASE Pick({x, y}) = x /\ {x, y} \ {Pick({x, y})} = {y}
  <2>1. Total({x, y} \ {Pick({x, y})}) = y.value
    BY <1>3, <1>5, Zenon
  <2> QED
    BY <1>4, <1>5, <2>1
<1>6. CASE Pick({x, y}) = y /\ {x, y} \ {Pick({x, y})} = {x}
  <2>1. Total({x, y} \ {Pick({x, y})}) = x.value
    BY <1>3, <1>6, Zenon
  <2> QED
    BY <1>4, <1>6, <2>1
<1> QED
  BY <1>2, <1>5, <1>6

\* A sum stays in a set of numbers that has zero and is closed under addition.
LEMMA TotalIn ==
    ASSUME NEW D, 0 \in D, \A x, y \in D : x + y \in D,
           NEW S, IsFiniteSet(S), \A s \in S : s.value \in D
    PROVE  Total(S) \in D
<1> DEFINE B == {s \in SUBSET S : Total(s) \notin D}
<1>1. ASSUME B # {} PROVE FALSE
  <2>1. PICK s \in B : \A u \in B : u \subseteq s => u = s
    <3>1. B \in SUBSET (SUBSET S)
      OBVIOUS
    <3> HIDE DEF B
    <3> QED
      BY <1>1, <3>1, SmallestSubset
  <2>2. Total(s) = IF s = {} THEN 0 ELSE Pick(s).value + Total(s \ {Pick(s)})
    BY <2>1, FS_Subset, TotalUnfolds
  <2>3. s # {} /\ Pick(s) \in s
    BY <2>1, <2>2, Picked
  <2>4. Total(s \ {Pick(s)}) \in D
    BY <2>1, <2>3
  <2> QED
    BY <2>1, <2>2, <2>3, <2>4
<1> QED
  BY <1>1

LEMMA TotalIsNat ==
    ASSUME NEW S, IsFiniteSet(S), \A s \in S : s.value \in Nat
    PROVE  Total(S) \in Nat
<1>1. 0 \in Nat /\ \A x, y \in Nat : x + y \in Nat
  OBVIOUS
<1> QED
  BY <1>1, TotalIn

LEMMA TotalOfSign ==
    ASSUME NEW S, IsFiniteSet(S), \A s \in S : s.value \in Int
    PROVE  /\ Total(S) \in Int
           /\ (\A s \in S : s.value <= 0) => Total(S) <= 0
           /\ (\A s \in S : s.value >= 0) => Total(S) >= 0
           /\ S # {} /\ (\A s \in S : s.value > 0) => Total(S) > 0
<1>1. Total(S) \in Int
  <2>1. 0 \in Int /\ \A x, y \in Int : x + y \in Int
    OBVIOUS
  <2> QED
    BY <2>1, TotalIn
<1>2. ASSUME \A s \in S : s.value <= 0 PROVE Total(S) <= 0
  <2> DEFINE D == {n \in Int : n <= 0}
  <2>1. 0 \in D /\ \A x, y \in D : x + y \in D
    OBVIOUS
  <2>2. \A s \in S : s.value \in D
    BY <1>2
  <2> HIDE DEF D
  <2>3. Total(S) \in D
    BY <2>1, <2>2, TotalIn
  <2> QED
    BY <2>3 DEF D
<1>3. ASSUME \A s \in S : s.value >= 0 PROVE Total(S) \in Nat
  BY <1>3, TotalIsNat
<1>4. ASSUME S # {}, \A s \in S : s.value > 0 PROVE Total(S) > 0
  <2>1. Pick(S) \in S /\ Total(S) = Pick(S).value + Total(S \ {Pick(S)})
    BY <1>4, Picked, TotalUnfolds
  <2>2. IsFiniteSet(S \ {Pick(S)}) /\ \A s \in S \ {Pick(S)} : s.value \in Nat
    BY <1>4, FS_Subset
  <2>3. Total(S \ {Pick(S)}) \in Nat
    BY <2>2, TotalIsNat
  <2> QED
    BY <1>4, <2>1, <2>3
<1> QED
  BY <1>1, <1>2, <1>3, <1>4

LEMMA TotalCounts ==
    ASSUME NEW S, IsFiniteSet(S), \A s \in S : s.value \in {0, 1}
    PROVE  Total(S) = Cardinality({s \in S : s.value = 1})
<1> DEFINE Ones(u) == {x \in u : x.value = 1}
           B == {s \in SUBSET S : Total(s) # Cardinality(Ones(s))}
<1>1. ASSUME B # {} PROVE FALSE
  <2>1. PICK s \in B : \A u \in B : u \subseteq s => u = s
    <3>1. B \in SUBSET (SUBSET S)
      OBVIOUS
    <3> HIDE DEF B
    <3> QED
      BY <1>1, <3>1, SmallestSubset
  <2>2. Total(s) = IF s = {} THEN 0 ELSE Pick(s).value + Total(s \ {Pick(s)})
    BY <2>1, FS_Subset, TotalUnfolds
  <2>3. s # {} /\ Pick(s) \in s
    <3>1. s = {} => Ones(s) = {}
      OBVIOUS
    <3> QED
      BY <2>1, <2>2, <3>1, Picked, FS_EmptySet
  <2> DEFINE u == s \ {Pick(s)}
  <2>4. Total(u) = Cardinality(Ones(u))
    BY <2>1, <2>3
  <2>5. IsFiniteSet(Ones(u)) /\ Cardinality(Ones(u)) \in Nat
    BY <2>1, FS_Subset, FS_CardinalityType
  <2>6. CASE Pick(s).value = 1
    <3>1. Ones(s) = Ones(u) \cup {Pick(s)} /\ Pick(s) \notin Ones(u)
      BY <2>3, <2>6
    <3>2. Cardinality(Ones(s)) = Cardinality(Ones(u)) + 1
      <4> HIDE DEF Ones, u
      <4> QED
        BY <2>5, <3>1, FS_AddElement
    <3> QED
      BY <2>1, <2>2, <2>3, <2>4, <2>5, <2>6, <3>2
  <2>7. CASE Pick(s).value = 0
    <3>1. Ones(s) = Ones(u)
      BY <2>3, <2>7
    <3> QED
      BY <2>1, <2>2, <2>3, <2>4, <2>5, <2>7, <3>1
  <2> QED
    BY <2>1, <2>3, <2>6, <2>7
<1> QED
  BY <1>1

------------------------------------------------------------------------------
(* What targets expose. *)

\* A sample of a target, which is not labelled yet.
Exposed(s) ==
    /\ s = [metric |-> s.metric, part |-> s.part, labels |-> s.labels, value |-> s.value]
    /\ s.labels = [l \in DOMAIN s.labels |-> s.labels[l]]
    /\ DOMAIN s.labels \subseteq {"seal_state_source", "mount_point", "peer_id", "node_id"}
    /\ s.value \in Nat

LEMMA Grouping == ClusterGrouping = {"cluster"} /\ TargetGrouping = {"cluster", "instance"}
BY DEF ClusterGrouping, TargetGrouping

LEMMA TargetIsRecord ==
    ASSUME NEW t \in Targets
    PROVE  /\ t = [l \in {"cluster", "instance"} |-> t[l]]
           /\ t = [cluster |-> t.cluster, instance |-> t.instance]
           /\ DOMAIN t = {"cluster", "instance"}
BY RulesAssumption

LEMMA PlainIsExposed ==
    ASSUME NEW m, NEW v \in Nat
    PROVE  /\ Exposed(Plain(m, v)) /\ DOMAIN Plain(m, v).labels = {}
           /\ Plain(m, v).metric = m /\ Plain(m, v).part = Whole /\ Plain(m, v).value = v
BY DEF Plain, Sample, Exposed

LEMMA SampleIsExposed ==
    ASSUME NEW m, NEW v \in Nat, NEW l, l = [x \in DOMAIN l |-> l[x]],
           DOMAIN l \subseteq {"seal_state_source", "mount_point", "peer_id", "node_id"}
    PROVE  Exposed(Sample(m, l, v))
BY DEF Sample, Exposed

LEMMA SummaryIsExposed ==
    ASSUME NEW m, NEW v \in Nat, NEW w \in Nat
    PROVE  /\ \A s \in Summary(m, v, w) : Exposed(s) /\ s.metric = m
           /\ IsFiniteSet(Summary(m, v, w))
<1>1. Exposed([Plain(m, v) EXCEPT !.part = "sum"]) /\ Exposed([Plain(m, w) EXCEPT !.part = "count"])
  BY DEF Plain, Sample, Exposed
<1>2. \A x, y : IsFiniteSet({x, y})
  <2>1. \A x, y : IsFiniteSet({x} \cup {y}) /\ {x} \cup {y} = {x, y}
    BY FS_Singleton, FS_AddElement
  <2> QED
    BY <2>1
<1> QED
  BY <1>1, <1>2 DEF Summary, Plain, Sample

LEMMA SmallSets ==
    /\ IsFiniteSet({})
    /\ \A x : IsFiniteSet({x})
    /\ \A x, y : IsFiniteSet({x, y})
<1>1. \A x : IsFiniteSet({x})
  BY FS_Singleton
<1>2. ASSUME NEW x, NEW y PROVE IsFiniteSet({x, y})
  <2>1. IsFiniteSet({x} \cup {y}) /\ {x} \cup {y} = {x, y}
    BY <1>1, FS_AddElement
  <2> QED
    BY <2>1, Zenon
<1> QED
  BY <1>1, <1>2, FS_EmptySet

SealSample(s) == s \in {Startup, Cluster(0), Cluster(1), Plain("core_unsealed", 0),
                        Plain("core_unsealed", 1)}

LEMMA SealExposed ==
    ASSUME NEW e \in {{}} \cup UnsealedExpositions \cup SealedExpositions
    PROVE  /\ \A s \in e : SealSample(s) /\ Exposed(s)
           /\ IsFiniteSet(e)
<1>1. \A s \in e : SealSample(s)
  BY DEF SealSample, UnsealedExpositions, SealedExpositions
<1>2. \A s : SealSample(s) => Exposed(s)
  BY PlainIsExposed DEF SealSample, Startup, Cluster, Sample, Exposed
<1>3. IsFiniteSet(e)
  BY SmallSets DEF UnsealedExpositions, SealedExpositions
<1> QED
  BY <1>1, <1>2, <1>3

LEMMA RaftExposed ==
    ASSUME NEW t \in Targets, NEW e \in RaftExpositions(t)
    PROVE  /\ \A s \in e : Exposed(s)
           /\ IsFiniteSet(e)
<1>1. PICK own \in Indexes(t), peers \in PeersGauge, nodes \in NodesHealthy(t) :
          e = own \cup peers \cup nodes
  BY DEF RaftExpositions
<1>2. /\ \A m : \A v \in Nat : Exposed(Index(t, m, v))
      /\ \A u : Exposed(Healthy(u))
  <2>1. \A n : /\ DOMAIN [peer_id |-> n] = {"peer_id"} /\ DOMAIN [node_id |-> n] = {"node_id"}
               /\ [peer_id |-> n] = [l \in {"peer_id"} |-> [peer_id |-> n][l]]
               /\ [node_id |-> n] = [l \in {"node_id"} |-> [node_id |-> n][l]]
    OBVIOUS
  <2> QED
    BY <2>1, SampleIsExposed DEF Index, Healthy
<1> DEFINE Nodes == {u \in Targets : u.cluster = t.cluster}
           T == {Healthy(u) : u \in Nodes}
<1>3. IsFiniteSet(T)
  <2>1. IsFiniteSet(Nodes)
    BY RulesAssumption, FS_Subset
  <2>2. [u \in Nodes |-> Healthy(u)] \in Surjection(Nodes, T)
    BY DEF Surjection
  <2> HIDE DEF T, Nodes
  <2> QED
    BY <2>1, <2>2, FS_Surjection
<1>4. IsFiniteSet(own) /\ IsFiniteSet(peers) /\ IsFiniteSet(nodes)
  <2>1. nodes \in {{}, T}
    BY <1>1 DEF NodesHealthy
  <2>2. own = {} \/ \E x, y : own = {x, y}
    BY <1>1 DEF Indexes
  <2>3. peers = {} \/ \E x : peers = {x}
    BY <1>1 DEF PeersGauge
  <2>4. nodes = {} \/ nodes = T
    BY <2>1
  <2>5. IsFiniteSet(own)
    BY <2>2, SmallSets, Zenon
  <2>6. IsFiniteSet(peers)
    BY <2>3, SmallSets, Zenon
  <2>7. IsFiniteSet(nodes)
    <3> HIDE DEF T
    <3> QED
      BY <1>3, <2>4, SmallSets
  <2> QED
    BY <2>5, <2>6, <2>7
<1>5. IsFiniteSet(e)
  BY <1>1, <1>4, FS_Union
<1>6. \A s \in e : Exposed(s)
  <2>1. \A c \in 1..2 : c \in Nat /\ 3 - c \in Nat
    OBVIOUS
  <2>2. \A s \in own : Exposed(s)
    BY <1>1, <1>2, <2>1 DEF Indexes
  <2>3. \A s \in peers : Exposed(s)
    BY <1>1, PlainIsExposed DEF PeersGauge
  <2>4. \A s \in nodes : Exposed(s)
    BY <1>1, <1>2 DEF NodesHealthy
  <2> QED
    BY <1>1, <2>2, <2>3, <2>4
<1> QED
  BY <1>5, <1>6

LEMMA ExpositionsExposed ==
    ASSUME focus \in Focuses, NEW t \in Targets, NEW e \in Expositions(t)
    PROVE  /\ \A s \in e : Exposed(s)
           /\ IsFiniteSet(e)
<1>1. CASE focus = "seal"
  BY <1>1, SealExposed DEF Expositions
<1>2. CASE focus = "backlog"
  <2>1. \/ e = {}
        \/ \E a \in 0..1, n \in {3, 5} : e = {Plain("core_active", a),
                                              Plain("expire_job_manager_total_jobs", n)}
        \/ e = {Plain("core_active", 0)}
    BY <1>2 DEF Expositions, BacklogExpositions
  <2>2. e = {} \/ (\E x : e = {x}) \/ (\E x, y : e = {x, y})
    BY <2>1
  <2>3. IsFiniteSet(e)
    BY <2>2, SmallSets, Zenon
  <2> QED
    BY <2>1, <2>3, PlainIsExposed
<1>3. CASE focus = "latency"
  <2>1. PICK p \in {<<0, 0>>, <<2, 1>>, <<9, 2>>} : e = Summary("core_handle_request", p[1], p[2])
    BY <1>3 DEF Expositions, LatencyExpositions
  <2>2. p[1] \in Nat /\ p[2] \in Nat
    BY <2>1
  <2> QED
    BY <2>1, <2>2, SummaryIsExposed
<1>4. CASE focus = "cache"
  <2>1. \/ e = {}
        \/ e = {Plain("cache_hit", 1)} \/ e = {Plain("cache_miss", 1)}
        \/ e = {Plain("cache_hit", 3), Plain("cache_miss", 3)}
    BY <1>4 DEF Expositions, CacheExpositions
  <2>2. e = {} \/ (\E x : e = {x}) \/ (\E x, y : e = {x, y})
    BY <2>1
  <2>3. IsFiniteSet(e)
    BY <2>2, SmallSets, Zenon
  <2> QED
    BY <2>1, <2>3, PlainIsExposed
<1>5. CASE focus = "mounts"
  <2>1. \A m : \A v \in Nat : Exposed(Mount(m, v))
    BY DEF Mount, Sample, Exposed
  <2>2. e = {} \/ e = {Mount("a", 1)} \/ e = {Mount("a", 2), Mount("b", 1)}
    BY <1>5 DEF Expositions, MountExpositions
  <2> QED
    BY <1>5, <2>1, <2>2, SmallSets
<1>6. CASE focus = "raft"
  BY <1>6, RaftExposed DEF Expositions
<1> QED
  BY <1>1, <1>2, <1>3, <1>4, <1>5, <1>6, RulesAssumption

------------------------------------------------------------------------------
(* What is on record of the last scrapes. *)

Labelled(s, t) == [s EXCEPT !.labels = Joined(@, t)]

\* A sample of target t.
IsOf(s, t) ==
    /\ s = [metric |-> s.metric, part |-> s.part, labels |-> s.labels, value |-> s.value]
    /\ s.labels = [l \in DOMAIN s.labels |-> s.labels[l]]
    /\ By(s, TargetGrouping) = t
    /\ By(s, ClusterGrouping) = [cluster |-> t.cluster]
    /\ s.labels["cluster"] = t.cluster /\ s.labels["instance"] = t.instance
    /\ {"cluster", "instance"} \subseteq DOMAIN s.labels
    /\ s.value \in Nat

LEMMA LabelledIsOf ==
    ASSUME NEW t \in Targets, NEW s, Exposed(s)
    PROVE  /\ IsOf(Labelled(s, t), t)
           /\ Labelled(s, t).metric = s.metric /\ Labelled(s, t).part = s.part
           /\ Labelled(s, t).value = s.value
           /\ DOMAIN Labelled(s, t).labels = DOMAIN s.labels \cup {"cluster", "instance"}
           /\ \A l \in DOMAIN s.labels : Labelled(s, t).labels[l] = s.labels[l]
<1> DEFINE a == Labelled(s, t)
<1>1. a = [metric |-> s.metric, part |-> s.part, labels |-> Joined(s.labels, t), value |-> s.value]
  BY DEF Exposed, Labelled
<1>2. /\ DOMAIN Joined(s.labels, t) = DOMAIN s.labels \cup {"cluster", "instance"}
      /\ \A l \in DOMAIN s.labels : Joined(s.labels, t)[l] = s.labels[l]
      /\ \A l \in {"cluster", "instance"} : Joined(s.labels, t)[l] = t[l]
      /\ Joined(s.labels, t) = [l \in DOMAIN Joined(s.labels, t) |-> Joined(s.labels, t)[l]]
  BY TargetIsRecord DEF Joined, Exposed
<1>3. By(a, TargetGrouping) = [l \in {"cluster", "instance"} |-> t[l]]
  BY <1>1, <1>2, Grouping DEF By, Restrict
<1>4. By(a, ClusterGrouping) = [l \in {"cluster"} |-> t[l]]
  BY <1>1, <1>2, Grouping DEF By, Restrict
<1>5. [l \in {"cluster"} |-> t[l]] = [cluster |-> t.cluster]
  BY TargetIsRecord
<1>6. By(a, TargetGrouping) = t /\ By(a, ClusterGrouping) = [cluster |-> t.cluster]
  BY <1>3, <1>4, <1>5, TargetIsRecord
<1>7. a.labels["cluster"] = t.cluster /\ a.labels["instance"] = t.instance
  BY <1>1, <1>2
<1> HIDE DEF a
<1> QED
  BY <1>1, <1>2, <1>6, <1>7 DEF IsOf, Exposed, a

\* A set of samples that may be on record.
Scraped(v) ==
    /\ IsFiniteSet(v)
    /\ \A s \in v : \E t \in Targets : IsOf(s, t)
    /\ \A t \in Targets : Of(t, v) = {} \/ \E e \in Expositions(t) : Of(t, v) = Attach(t, e)

LEMMA AttachIsOf ==
    ASSUME focus \in Focuses, NEW t \in Targets, NEW e \in Expositions(t)
    PROVE  /\ Attach(t, e) = {Labelled(s, t) : s \in e}
           /\ \A s \in Attach(t, e) : IsOf(s, t)
           /\ IsFiniteSet(Attach(t, e))
           /\ Of(t, Attach(t, e)) = Attach(t, e)
           /\ \A u \in Targets : u # t => Of(u, Attach(t, e)) = {}
<1>1. Attach(t, e) = {Labelled(s, t) : s \in e}
  BY DEF Attach, Labelled
<1>2. \A s \in Attach(t, e) : IsOf(s, t)
  BY <1>1, ExpositionsExposed, LabelledIsOf
<1>3. [s \in e |-> Labelled(s, t)] \in Surjection(e, Attach(t, e))
  BY <1>1 DEF Surjection
<1>4. IsFiniteSet(Attach(t, e))
  BY <1>3, ExpositionsExposed, FS_Surjection
<1>5. \A s \in Attach(t, e) : By(s, TargetGrouping) = t
  BY <1>2 DEF IsOf
<1>6. Of(t, Attach(t, e)) = Attach(t, e)
  BY <1>5 DEF Of
<1>7. \A u \in Targets : u # t => Of(u, Attach(t, e)) = {}
  BY <1>5 DEF Of
<1> QED
  BY <1>1, <1>2, <1>4, <1>6, <1>7

LEMMA ScrapeReplaces ==
    ASSUME NEW t \in Targets, NEW v, Scraped(v), NEW new,
           IsFiniteSet(new), \A s \in new : IsOf(s, t),
           new = {} \/ \E e \in Expositions(t) : new = Attach(t, e)
    PROVE  Scraped((v \ Of(t, v)) \cup new)
<1> DEFINE w == (v \ Of(t, v)) \cup new
<1>1. IsFiniteSet(w)
  BY FS_Subset, FS_Union DEF Scraped
<1>2. \A s \in w : \E u \in Targets : IsOf(s, u)
  BY DEF Scraped
<1>3. Of(t, w) = new
  BY DEF Of, IsOf
<1>4. ASSUME NEW u \in Targets, u # t PROVE Of(u, w) = Of(u, v)
  BY <1>4 DEF Of, IsOf
<1> HIDE DEF w
<1>5. Scraped(w)
  BY <1>1, <1>2, <1>3, <1>4 DEF Scraped
<1> QED
  BY <1>5 DEF w

LEMMA OfScraped ==
    ASSUME NEW t \in Targets, NEW v, Scraped(v)
    PROVE  /\ IsFiniteSet(Of(t, v))
           /\ \A s \in Of(t, v) : IsOf(s, t)
           /\ Of(t, v) = {} \/ \E e \in Expositions(t) : Of(t, v) = Attach(t, e)
<1>1. IsFiniteSet(Of(t, v))
  BY FS_Subset DEF Scraped, Of
<1> QED
  BY <1>1 DEF Scraped, Of, IsOf

ScrapedInv == focus \in Focuses /\ Scraped(now) /\ Scraped(before)

LEMMA NothingIsScraped == Scraped({})
BY FS_EmptySet DEF Scraped, Of

LEMMA ScrapedStep == ScrapedInv /\ [Next]_vars => ScrapedInv'
<1> SUFFICES ASSUME ScrapedInv, [Next]_vars PROVE ScrapedInv'
  OBVIOUS
<1>1. focus' = focus
  BY DEF Next, vars, Evaluate, Scrape
<1>2. \A t : Expositions(t)' = Expositions(t)
  BY <1>1 DEF Expositions
<1>3. ASSUME NEW t \in Targets, Scrape(t) PROVE Scraped(now') /\ Scraped(before')
  <2>1. PICK e \in Expositions(t) : now' = (now \ Of(t, now)) \cup Attach(t, e)
    BY <1>3 DEF Scrape
  <2>2. Scraped(now')
    BY <2>1, AttachIsOf, ScrapeReplaces DEF ScrapedInv
  <2>3. Scraped((before \ Of(t, before)) \cup Of(t, now))
    BY OfScraped, ScrapeReplaces DEF ScrapedInv
  <2>4. Scraped(before')
    BY <1>3, <2>3, NothingIsScraped DEF Scrape
  <2> QED
    BY <2>2, <2>4
<1>4. ASSUME now' = now, before' = before PROVE Scraped(now') /\ Scraped(before')
  BY <1>4 DEF ScrapedInv
<1>5. Scraped(now') /\ Scraped(before')
  BY <1>3, <1>4 DEF Next, vars, Evaluate
<1> QED
  BY <1>1, <1>2, <1>5 DEF Scraped, ScrapedInv

------------------------------------------------------------------------------
(* The group of rules. *)

\* At most one sample for each set of labels.
Vector(V) ==
    /\ \A s \in V : s = [labels |-> s.labels, value |-> s.value]
    /\ \A s, u \in V : s.labels = u.labels => s = u

LEMMA EmptyVector == Vector({})
BY DEF Vector

LEMMA SumIsTotal == \A S : SumOf(S) = Total(S)
BY DEF SumOf, MapThenSumSet, MapThenFoldSet, Total, Fold, IsFold, Pick

LEMMA SumByIsTotal ==
    \A labels, V : SumBy(labels, V) =
        {[labels |-> g, value |-> Total(Members(g, labels, V))] : g \in Groups(labels, V)}
BY SumIsTotal DEF SumBy

LEMMA AggregationsAreVectors ==
    /\ \A labels, V : Vector(SumBy(labels, V))
    /\ \A labels, V : Vector(MaxBy(labels, V))
    /\ \A labels, V : Vector(MinBy(labels, V))
    /\ \A labels, V : Vector(CountBy(labels, V))
<1>1. ASSUME NEW labels, NEW V PROVE Vector(SumBy(labels, V))
  BY SumByIsTotal DEF Vector
<1>2. ASSUME NEW labels, NEW V PROVE Vector(MaxBy(labels, V))
  <2> DEFINE v(g) == Max({s.value : s \in Members(g, labels, V)})
  <2>1. MaxBy(labels, V) = {[labels |-> g, value |-> v(g)] : g \in Groups(labels, V)}
    BY DEF MaxBy
  <2> HIDE DEF v
  <2> QED
    BY <2>1 DEF Vector
<1>3. ASSUME NEW labels, NEW V PROVE Vector(MinBy(labels, V))
  <2> DEFINE v(g) == Min({s.value : s \in Members(g, labels, V)})
  <2>1. MinBy(labels, V) = {[labels |-> g, value |-> v(g)] : g \in Groups(labels, V)}
    BY DEF MinBy
  <2> HIDE DEF v
  <2> QED
    BY <2>1 DEF Vector
<1>4. ASSUME NEW labels, NEW V PROVE Vector(CountBy(labels, V))
  BY DEF Vector, CountBy
<1> QED
  BY <1>1, <1>2, <1>3, <1>4

LEMMA OrIsVector == \A V, W : Vector(V) /\ Vector(W) => Vector(Or(V, W))
BY DEF Vector, Or

LEMMA AndIsVector == \A V, W, labels : Vector(V) => Vector(And(V, labels, W))
BY DEF Vector, And

LEMMA OverIsVector ==
    ASSUME NEW V, NEW W, Vector(V), Vector(W)
    PROVE  Vector(Over(V, W))
<1>1. \A p, q \in Matched(V, W) : p[1].labels = q[1].labels => p[1] = q[1] /\ p[2] = q[2]
  BY DEF Vector, Matched
<1> QED
  BY <1>1 DEF Vector, Over

LEMMA ClampIsVector == \A V, n : Vector(V) => Vector(ClampMin(V, n))
<1> SUFFICES ASSUME NEW V, NEW n, Vector(V) PROVE Vector(ClampMin(V, n))
  OBVIOUS
<1> DEFINE v(s) == Max({s.value, n})
<1>1. ClampMin(V, n) = {[labels |-> s.labels, value |-> v(s)] : s \in V}
  BY DEF ClampMin
<1> HIDE DEF v
<1> QED
  BY <1>1 DEF Vector

LEMMA PlusIsVector ==
    ASSUME NEW V, NEW W, Vector(V), Vector(W)
    PROVE  Vector(Plus(V, W))
<1>1. \A p, q \in Matched(V, W) : p[1].labels = q[1].labels => p[1] = q[1] /\ p[2] = q[2]
  BY DEF Vector, Matched
<1> QED
  BY <1>1 DEF Vector, Plus

LEMMA ExpressionsAreVectors ==
    /\ \A m : Vector(ClusterMax(m)) /\ Vector(TargetMax(m)) /\ Vector(ClusterIncrease(m))
    /\ \A m, l : Vector(IncreaseBy(l, m))
    /\ \A m : Vector(RaftStorageMax(m)) /\ Vector(SummaryRate(m))
    /\ Vector(RaftStorageApplyGap) /\ Vector(SecretKVCount)
BY AggregationsAreVectors, ClampIsVector
   DEF ClusterMax, TargetMax, ClusterIncrease, IncreaseBy, RaftStorageMax, SummaryRate,
       SecretKVCount, RaftStorageApplyGap

LEMMA ComposedAreVectors ==
    /\ Vector(RaftPeerCount) /\ Vector(UnsealedState) /\ Vector(CacheHitRatio)
    /\ \A m : Vector(SummaryAverage(m)) /\ Vector(TargetSummaryAverage(m))
<1>1. Vector(RaftPeerCount)
  BY AggregationsAreVectors, OrIsVector, ExpressionsAreVectors DEF RaftPeerCount
<1>2. Vector(UnsealedState)
  BY AggregationsAreVectors, OrIsVector DEF UnsealedState
<1>3. Vector(CacheHitRatio)
  BY ExpressionsAreVectors, PlusIsVector, ClampIsVector, OverIsVector DEF CacheHitRatio
<1>4. ASSUME NEW m PROVE Vector(SummaryAverage(m))
  BY AggregationsAreVectors, ExpressionsAreVectors, ClampIsVector, OverIsVector DEF SummaryAverage
<1>5. ASSUME NEW m PROVE Vector(TargetSummaryAverage(m))
  BY AggregationsAreVectors, OverIsVector, AndIsVector DEF TargetSummaryAverage
<1> QED
  BY <1>1, <1>2, <1>3, <1>4, <1>5

Elements(q) == {q[i] : i \in 1 .. Len(q)}

LEMMA ListOfElements ==
    ASSUME NEW n \in Nat, NEW q, q = [i \in 1 .. n |-> q[i]]
    PROVE  Len(q) = n /\ q \in Seq(Elements(q))
BY DEF Elements

\* Rules of different records, named after ids, each with a vector.
Group(q, ids) ==
    /\ q \in Seq(Elements(q))
    /\ \A i \in 1 .. Len(q) : /\ q[i].record[1] \in ids
                              /\ Vector(q[i].vector)
    /\ \A i, j \in 1 .. Len(q) : q[i].record = q[j].record => i = j

Plainly(q) == \A i \in 1 .. Len(q) : q[i].reads = Samples

LEMMA GroupsConcatenate ==
    ASSUME NEW p, NEW q, NEW A, NEW B, Group(p, A), Group(q, B), A \cap B = {}
    PROVE  /\ Group(p \o q, A \cup B)
           /\ Plainly(p) /\ Plainly(q) => Plainly(p \o q)
           /\ Len(p \o q) = Len(p) + Len(q)
           /\ \A i \in 1 .. Len(p) : (p \o q)[i] = p[i]
           /\ \A i \in 1 .. Len(q) : (p \o q)[Len(p) + i] = q[i]
<1> DEFINE c == p \o q
           E == Elements(p) \cup Elements(q)
<1>1. p \in Seq(E) /\ q \in Seq(E) /\ Len(p) \in Nat /\ Len(q) \in Nat
  BY DEF Group
<1>2. /\ c \in Seq(E) /\ Len(c) = Len(p) + Len(q)
      /\ \A i \in 1 .. Len(p) : c[i] = p[i]
      /\ \A i \in 1 .. Len(q) : c[Len(p) + i] = q[i]
  BY <1>1
<1>3. \A i \in 1 .. Len(c) : \/ i \in 1 .. Len(p) /\ c[i] = p[i]
                             \/ i - Len(p) \in 1 .. Len(q) /\ c[i] = q[i - Len(p)]
  <2>1. \A i \in 1 .. Len(c) : i \in 1 .. Len(p) \/ (i - Len(p) \in 1 .. Len(q) /\ i = Len(p) + (i - Len(p)))
    BY <1>1, <1>2
  <2> QED
    BY <1>2, <2>1
<1>4. c \in Seq(Elements(c))
  <2> HIDE DEF c, E
  <2>1. c = [i \in 1 .. Len(c) |-> c[i]] /\ Len(c) \in Nat
    BY <1>2
  <2> QED
    BY <2>1, ListOfElements
<1>5. \A i \in 1 .. Len(c) : c[i].record[1] \in A \cup B /\ Vector(c[i].vector)
  BY <1>3 DEF Group
<1>6. ASSUME NEW i \in 1 .. Len(c), NEW j \in 1 .. Len(c), c[i].record = c[j].record
      PROVE  i = j
  <2>1. CASE i \in 1 .. Len(p) /\ c[i] = p[i] /\ j \in 1 .. Len(p) /\ c[j] = p[j]
    BY <1>6, <2>1 DEF Group
  <2>2. CASE i - Len(p) \in 1 .. Len(q) /\ c[i] = q[i - Len(p)] /\ j - Len(p) \in 1 .. Len(q)
             /\ c[j] = q[j - Len(p)]
    <3>1. i - Len(p) = j - Len(p)
      BY <1>6, <2>2 DEF Group
    <3> QED
      BY <1>1, <1>2, <3>1
  <2>3. CASE i \in 1 .. Len(p) /\ c[i] = p[i] /\ j - Len(p) \in 1 .. Len(q) /\ c[j] = q[j - Len(p)]
    BY <1>6, <2>3 DEF Group
  <2>4. CASE i - Len(p) \in 1 .. Len(q) /\ c[i] = q[i - Len(p)] /\ j \in 1 .. Len(p) /\ c[j] = p[j]
    BY <1>6, <2>4 DEF Group
  <2> QED
    BY <1>3, <2>1, <2>2, <2>3, <2>4
<1>7. Plainly(p) /\ Plainly(q) => Plainly(c)
  BY <1>3 DEF Plainly
<1> HIDE DEF c
<1>8. Group(c, A \cup B)
  BY <1>4, <1>5, <1>6 DEF Group
<1> QED
  BY <1>2, <1>7, <1>8 DEF c

LEMMA PairAsGroup ==
    ASSUME NEW id, NEW m
    PROVE  Group(PairAs(id, m), {id}) /\ Plainly(PairAs(id, m))
<1> DEFINE q == PairAs(id, m)
<1>1. Len(q) = 2 /\ q \in Seq(Elements(q)) /\ q[1] = Rate(id, m) /\ q[2] = Average(id, m)
  BY DEF PairAs, Elements
<1> HIDE DEF q
<1>2. /\ q[1].record = <<id, "rate5m">> /\ q[1].vector = SummaryRate(m) /\ q[1].reads = Samples
      /\ q[2].record = <<id, "avg5m">> /\ q[2].vector = SummaryAverage(m) /\ q[2].reads = Samples
  BY <1>1 DEF Rate, Average, Rule
<1>3. Group(q, {id}) /\ Plainly(q)
  BY <1>1, <1>2, ExpressionsAreVectors, ComposedAreVectors DEF Group, Plainly
<1> QED
  BY <1>3 DEF q

Distinct(ids) == /\ ids \in Seq(Elements(ids))
                 /\ \A i, j \in 1 .. Len(ids) : ids[i] = ids[j] => i = j

LEMMA PairsGroup ==
    ASSUME NEW ids, Distinct(ids)
    PROVE  Group(Pairs(ids), Elements(ids)) /\ Plainly(Pairs(ids))
<1> DEFINE q == Pairs(ids)
           Half(i) == (i + 1) \div 2
<1>1. Len(ids) \in Nat /\ \A i \in 1 .. Len(ids) : ids[i] \in Elements(ids)
  BY DEF Distinct, Elements
<1>2. q = [i \in 1 .. 2 * Len(ids) |->
              IF i % 2 = 1 THEN Rate(ids[Half(i)], ids[Half(i)])
              ELSE Average(ids[Half(i)], ids[Half(i)])]
  BY DEF Pairs
<1>3. Len(q) = 2 * Len(ids) /\ q \in Seq(Elements(q))
  <2>1. q = [i \in 1 .. 2 * Len(ids) |-> q[i]]
    BY <1>2
  <2>2. 2 * Len(ids) \in Nat
    BY <1>1
  <2> HIDE DEF q
  <2> QED
    BY <2>1, <2>2, ListOfElements
<1>4. \A i \in 1 .. 2 * Len(ids) : Half(i) \in 1 .. Len(ids) /\ (i = 2 * Half(i) \/ i = 2 * Half(i) - 1)
                                   /\ (i % 2 = 1 <=> i = 2 * Half(i) - 1)
  BY <1>1
<1> HIDE DEF Half
<1>5. ASSUME NEW i \in 1 .. Len(q)
      PROVE  /\ q[i].record = <<ids[Half(i)], IF i % 2 = 1 THEN "rate5m" ELSE "avg5m">>
             /\ Vector(q[i].vector) /\ q[i].reads = Samples
  BY <1>2, <1>3, ExpressionsAreVectors, ComposedAreVectors DEF Rate, Average, Rule
<1> HIDE DEF q
<1>6. ASSUME NEW i \in 1 .. Len(q), NEW j \in 1 .. Len(q), q[i].record = q[j].record
      PROVE  i = j
  <2>1. ids[Half(i)] = ids[Half(j)] /\ (i % 2 = 1 <=> j % 2 = 1)
    BY <1>5, <1>6
  <2>2. Half(i) = Half(j)
    BY <1>3, <1>4, <2>1 DEF Distinct
  <2> QED
    BY <1>3, <1>4, <2>1, <2>2
<1>7. Group(q, Elements(ids)) /\ Plainly(q)
  BY <1>1, <1>3, <1>4, <1>5, <1>6 DEF Group, Plainly
<1> QED
  BY <1>7 DEF q

LEMMA GaugesGroup ==
    ASSUME NEW ids, Distinct(ids)
    PROVE  /\ Group(ClusterGauges(ids), Elements(ids)) /\ Plainly(ClusterGauges(ids))
           /\ Group(TargetGauges(ids), Elements(ids)) /\ Plainly(TargetGauges(ids))
           /\ Group(Increases(ids), Elements(ids)) /\ Plainly(Increases(ids))
<1>1. Len(ids) \in Nat /\ DOMAIN ids = 1 .. Len(ids)
  BY DEF Distinct
<1>2. ASSUME NEW q, DOMAIN q = 1 .. Len(ids), q = [i \in DOMAIN q |-> q[i]], NEW suffix,
             \A i \in DOMAIN q : /\ q[i].record = <<ids[i], suffix>>
                                 /\ Vector(q[i].vector) /\ q[i].reads = Samples
      PROVE  Group(q, Elements(ids)) /\ Plainly(q)
  <2>1. Len(q) = Len(ids) /\ q \in Seq(Elements(q))
    BY <1>1, <1>2 DEF Elements
  <2>2. \A i \in 1 .. Len(q) : q[i].record[1] = ids[i]
    BY <1>2, <2>1
  <2> QED
    BY <1>2, <2>1, <2>2 DEF Group, Plainly, Distinct, Elements
<1>3. Group(ClusterGauges(ids), Elements(ids)) /\ Plainly(ClusterGauges(ids))
  <2> DEFINE q == ClusterGauges(ids)
  <2>1. q = [i \in 1 .. Len(ids) |-> Rule(<<ids[i], "max">>, ClusterMax(ids[i]))]
    BY <1>1 DEF ClusterGauges
  <2>2. \A i \in DOMAIN q : /\ q[i].record = <<ids[i], "max">>
                            /\ Vector(q[i].vector) /\ q[i].reads = Samples
    BY <2>1, ExpressionsAreVectors DEF Rule
  <2>3. DOMAIN q = 1 .. Len(ids) /\ q = [i \in DOMAIN q |-> q[i]]
    BY <2>1
  <2> HIDE DEF q
  <2>4. Group(q, Elements(ids)) /\ Plainly(q)
    BY <1>2, <2>2, <2>3
  <2> QED
    BY <2>4 DEF q
<1>4. Group(TargetGauges(ids), Elements(ids)) /\ Plainly(TargetGauges(ids))
  <2> DEFINE q == TargetGauges(ids)
  <2>1. q = [i \in 1 .. Len(ids) |-> Rule(<<ids[i], "max">>, TargetMax(ids[i]))]
    BY <1>1 DEF TargetGauges
  <2>2. \A i \in DOMAIN q : /\ q[i].record = <<ids[i], "max">>
                            /\ Vector(q[i].vector) /\ q[i].reads = Samples
    BY <2>1, ExpressionsAreVectors DEF Rule
  <2>3. DOMAIN q = 1 .. Len(ids) /\ q = [i \in DOMAIN q |-> q[i]]
    BY <2>1
  <2> HIDE DEF q
  <2>4. Group(q, Elements(ids)) /\ Plainly(q)
    BY <1>2, <2>2, <2>3
  <2> QED
    BY <2>4 DEF q
<1>5. Group(Increases(ids), Elements(ids)) /\ Plainly(Increases(ids))
  <2> DEFINE q == Increases(ids)
  <2>1. q = [i \in 1 .. Len(ids) |-> Rule(<<ids[i], "increase15m">>, ClusterIncrease(ids[i]))]
    BY <1>1 DEF Increases
  <2>2. \A i \in DOMAIN q : /\ q[i].record = <<ids[i], "increase15m">>
                            /\ Vector(q[i].vector) /\ q[i].reads = Samples
    BY <2>1, ExpressionsAreVectors DEF Rule
  <2>3. DOMAIN q = 1 .. Len(ids) /\ q = [i \in DOMAIN q |-> q[i]]
    BY <2>1
  <2> HIDE DEF q
  <2>4. Group(q, Elements(ids)) /\ Plainly(q)
    BY <1>2, <2>2, <2>3
  <2> QED
    BY <2>4 DEF q
<1> QED
  BY <1>3, <1>4, <1>5

MountTableIds ==
    {"core_mount_table_num_entries", "core_mount_table_size"}
LEMMA MountTableGroup == Group(MountTableRules, MountTableIds) /\ Plainly(MountTableRules)
<1> DEFINE q == MountTableRules
           Table(id) == MaxBy(ClusterGrouping \cup {"local", "type"}, Now(id))
<1>1. /\ q = <<q[1], q[2]>> /\ Len(q) = 2 /\ q \in Seq(Elements(q))
      /\ q[1] = Rule(<<"core_mount_table_num_entries", "max">>,
                     Table("core_mount_table_num_entries"))
      /\ q[2] = Rule(<<"core_mount_table_size", "max">>, Table("core_mount_table_size"))
  BY DEF MountTableRules, Elements
<1>2. \A id : Vector(Table(id))
  BY AggregationsAreVectors
<1> HIDE DEF q, Table
<1>3. Group(q, {"core_mount_table_num_entries", "core_mount_table_size"}) /\ Plainly(q)
  BY <1>1, <1>2 DEF Rule, Group, Plainly
<1> QED
  BY <1>3 DEF q, MountTableIds

AuditIds ==
    {"audit_log_request_failure", "audit_log_response_failure", "audit_log_request",
     "audit_log_response"}
LEMMA AuditGroup == Group(AuditRules, AuditIds) /\ Plainly(AuditRules)
<1> DEFINE q == AuditRules
<1>1. /\ Len(q) = 6 /\ q \in Seq(Elements(q))
      /\ q[1] = Rule(<<"audit_log_request_failure", "increase5m">>,
                     ClusterIncrease("audit_log_request_failure"))
      /\ q[2] = Rule(<<"audit_log_response_failure", "increase5m">>,
                     ClusterIncrease("audit_log_response_failure"))
      /\ q[3] = Rate("audit_log_request", "audit_log_request")
      /\ q[4] = Rate("audit_log_response", "audit_log_response")
      /\ q[5] = Average("audit_log_request", "audit_log_request")
      /\ q[6] = Average("audit_log_response", "audit_log_response")
  BY DEF AuditRules, Elements
<1> HIDE DEF q
<1>2. \A i \in 1 .. 6 : Vector(q[i].vector) /\ q[i].reads = Samples
  BY <1>1, ExpressionsAreVectors, ComposedAreVectors DEF Rule, Rate, Average
<1>3. /\ q[1].record = <<"audit_log_request_failure", "increase5m">>
      /\ q[2].record = <<"audit_log_response_failure", "increase5m">>
      /\ q[3].record = <<"audit_log_request", "rate5m">>
      /\ q[4].record = <<"audit_log_response", "rate5m">>
      /\ q[5].record = <<"audit_log_request", "avg5m">>
      /\ q[6].record = <<"audit_log_response", "avg5m">>
  BY <1>1 DEF Rule, Rate, Average
<1>4. /\ Group(q, {"audit_log_request_failure", "audit_log_response_failure",
                   "audit_log_request", "audit_log_response"})
      /\ Plainly(q)
  BY <1>1, <1>2, <1>3 DEF Group, Plainly
<1> QED
  BY <1>4 DEF q, AuditIds

LEMMA ListOf1 ==
    ASSUME NEW a
    PROVE  Distinct(<<a>>) /\ Elements(<<a>>) = {a}
<1> DEFINE q == <<a>>
<1>1. Len(q) = 1 /\ q[1] = a /\ q \in Seq(Elements(q))
  BY DEF Elements
<1> HIDE DEF q
<1>2. Distinct(q) /\ Elements(q) = {a}
  BY <1>1 DEF Distinct, Elements
<1> QED
  BY <1>2 DEF q

LEMMA ListOf2 ==
    ASSUME NEW a, NEW b,
           a # b
    PROVE  Distinct(<<a, b>>) /\ Elements(<<a, b>>) = {a, b}
<1> DEFINE q == <<a, b>>
<1>1. Len(q) = 2 /\ q[1] = a /\ q[2] = b /\ q \in Seq(Elements(q))
  BY DEF Elements
<1> HIDE DEF q
<1>2. Distinct(q) /\ Elements(q) = {a, b}
  BY <1>1 DEF Distinct, Elements
<1> QED
  BY <1>2 DEF q

LEMMA ListOf3 ==
    ASSUME NEW a, NEW b, NEW c,
           a # b, a # c, b # c
    PROVE  Distinct(<<a, b, c>>) /\ Elements(<<a, b, c>>) = {a, b, c}
<1> DEFINE q == <<a, b, c>>
<1>1. Len(q) = 3 /\ q[1] = a /\ q[2] = b /\ q[3] = c /\ q \in Seq(Elements(q))
  BY DEF Elements
<1> HIDE DEF q
<1>2. Distinct(q) /\ Elements(q) = {a, b, c}
  BY <1>1 DEF Distinct, Elements
<1> QED
  BY <1>2 DEF q

LEMMA ListOf4 ==
    ASSUME NEW a, NEW b, NEW c, NEW d,
           a # b, a # c, a # d, b # c, b # d, c # d
    PROVE  Distinct(<<a, b, c, d>>) /\ Elements(<<a, b, c, d>>) = {a, b, c, d}
<1> DEFINE q == <<a, b, c, d>>
<1>1. Len(q) = 4 /\ q[1] = a /\ q[2] = b /\ q[3] = c /\ q[4] = d /\ q \in Seq(Elements(q))
  BY DEF Elements
<1> HIDE DEF q
<1>2. Distinct(q) /\ Elements(q) = {a, b, c, d}
  BY <1>1 DEF Distinct, Elements
<1> QED
  BY <1>2 DEF q

LEMMA ListOf5 ==
    ASSUME NEW a, NEW b, NEW c, NEW d, NEW e,
           a # b, a # c, a # d, a # e, b # c, b # d, b # e, c # d, c # e, d # e
    PROVE  Distinct(<<a, b, c, d, e>>) /\ Elements(<<a, b, c, d, e>>) = {a, b, c, d, e}
<1> DEFINE q == <<a, b, c, d, e>>
<1>1. Len(q) = 5 /\ q[1] = a /\ q[2] = b /\ q[3] = c /\ q[4] = d /\ q[5] = e /\ q \in Seq(Elements(q))
  BY DEF Elements
<1> HIDE DEF q
<1>2. Distinct(q) /\ Elements(q) = {a, b, c, d, e}
  BY <1>1 DEF Distinct, Elements
<1> QED
  BY <1>2 DEF q

LEMMA Joining ==
    ASSUME NEW p, NEW q, NEW A, NEW B,
           Group(p, A), Plainly(p), Group(q, B), Plainly(q), A \cap B = {}
    PROVE  Group(p \o q, A \cup B) /\ Plainly(p \o q)
BY GroupsConcatenate

CacheIds ==
    {"cache_hit", "cache_miss", "cache_write", "cache_hit_ratio"}
LEMMA CacheGroup == Group(CacheRules, CacheIds) /\ Plainly(CacheRules)
<1> DEFINE q == CacheRules
<1>1. /\ Len(q) = 4 /\ q \in Seq(Elements(q))
      /\ q[1] = Rule(<<"cache_hit", "rate5m">>, ClusterIncrease("cache_hit"))
      /\ q[2] = Rule(<<"cache_miss", "rate5m">>, ClusterIncrease("cache_miss"))
      /\ q[3] = Rule(<<"cache_write", "rate5m">>, ClusterIncrease("cache_write"))
      /\ q[4] = Rule(<<"cache_hit_ratio", "ratio5m">>, CacheHitRatio)
  BY DEF CacheRules, Elements
<1> HIDE DEF q
<1>2. \A i \in 1 .. 4 : Vector(q[i].vector) /\ q[i].reads = Samples
  BY <1>1, ExpressionsAreVectors, ComposedAreVectors, AggregationsAreVectors, EmptyVector
     DEF Rule, Reading, Rate, Average, TargetAverage
<1>3. /\ q[1].record = <<"cache_hit", "rate5m">>
      /\ q[2].record = <<"cache_miss", "rate5m">>
      /\ q[3].record = <<"cache_write", "rate5m">>
      /\ q[4].record = <<"cache_hit_ratio", "ratio5m">>
  BY <1>1 DEF Rule, Reading, Rate, Average, TargetAverage
<1>4. Len(q) = 4 /\ q \in Seq(Elements(q))
  BY <1>1
<1>5. Group(q, {"cache_hit", "cache_miss", "cache_write", "cache_hit_ratio"}) /\ Plainly(q)
  BY <1>2, <1>3, <1>4 DEF Group, Plainly
<1> QED
  BY <1>5 DEF q, CacheIds

SecretIds ==
    {"secret_lease_creation", "secret_lease_creation_by_engine",
     "secret_lease_creation_by_engine_namespace", "secret_kv_count",
     "secret_kv_count_by_namespace"}
LEMMA SecretGroup == Group(SecretRules, SecretIds) /\ Plainly(SecretRules)
<1> DEFINE q == SecretRules
<1>1. /\ Len(q) = 5 /\ q \in Seq(Elements(q))
      /\ q[1] = Rule(<<"secret_lease_creation", "increase15m">>,
                     ClusterIncrease("secret_lease_creation"))
      /\ q[2] = Rule(<<"secret_lease_creation_by_engine", "increase15m">>,
                     IncreaseBy("secret_engine", "secret_lease_creation"))
      /\ q[3] = Rule(<<"secret_lease_creation_by_engine_namespace", "increase15m">>,
                     IncreaseBy("secret_engine", "secret_lease_creation"))
      /\ q[4] = Rule(<<"secret_kv_count", "max30m">>, SecretKVCount)
      /\ q[5] = Rule(<<"secret_kv_count_by_namespace", "max30m">>, SecretKVCount)
  BY DEF SecretRules, Elements
<1> HIDE DEF q
<1>2. \A i \in 1 .. 5 : Vector(q[i].vector) /\ q[i].reads = Samples
  BY <1>1, ExpressionsAreVectors, ComposedAreVectors, AggregationsAreVectors, EmptyVector
     DEF Rule, Reading, Rate, Average, TargetAverage
<1>3. /\ q[1].record = <<"secret_lease_creation", "increase15m">>
      /\ q[2].record = <<"secret_lease_creation_by_engine", "increase15m">>
      /\ q[3].record = <<"secret_lease_creation_by_engine_namespace", "increase15m">>
      /\ q[4].record = <<"secret_kv_count", "max30m">>
      /\ q[5].record = <<"secret_kv_count_by_namespace", "max30m">>
  BY <1>1 DEF Rule, Reading, Rate, Average, TargetAverage
<1>4. Len(q) = 5 /\ q \in Seq(Elements(q))
  BY <1>1
<1>5. /\ Group(q, {"secret_lease_creation", "secret_lease_creation_by_engine",
                   "secret_lease_creation_by_engine_namespace", "secret_kv_count",
                   "secret_kv_count_by_namespace"})
      /\ Plainly(q)
  BY <1>2, <1>3, <1>4 DEF Group, Plainly
<1> QED
  BY <1>5 DEF q, SecretIds

DatabaseErrorIds ==
    {"database_initialize_error", "database_close_error", "database_new_user_error",
     "database_update_user_error", "database_delete_user_error"}
LEMMA DatabaseErrorGroup ==
    Group(DatabaseErrorRules, DatabaseErrorIds) /\ Plainly(DatabaseErrorRules)
<1> DEFINE q == DatabaseErrorRules
<1>1. /\ Len(q) = 5 /\ q \in Seq(Elements(q))
      /\ q[1] = Rule(<<"database_initialize_error", "increase15m">>,
                     ClusterIncrease("database_Initialize_error"))
      /\ q[2] = Rule(<<"database_close_error", "increase15m">>,
                     ClusterIncrease("database_Close_error"))
      /\ q[3] = Rule(<<"database_new_user_error", "increase15m">>,
                     ClusterIncrease("database_NewUser_error"))
      /\ q[4] = Rule(<<"database_update_user_error", "increase15m">>,
                     ClusterIncrease("database_UpdateUser_error"))
      /\ q[5] = Rule(<<"database_delete_user_error", "increase15m">>,
                     ClusterIncrease("database_DeleteUser_error"))
  BY DEF DatabaseErrorRules, Elements
<1> HIDE DEF q
<1>2. \A i \in 1 .. 5 : Vector(q[i].vector) /\ q[i].reads = Samples
  BY <1>1, ExpressionsAreVectors, ComposedAreVectors, AggregationsAreVectors, EmptyVector
     DEF Rule, Reading, Rate, Average, TargetAverage
<1>3. /\ q[1].record = <<"database_initialize_error", "increase15m">>
      /\ q[2].record = <<"database_close_error", "increase15m">>
      /\ q[3].record = <<"database_new_user_error", "increase15m">>
      /\ q[4].record = <<"database_update_user_error", "increase15m">>
      /\ q[5].record = <<"database_delete_user_error", "increase15m">>
  BY <1>1 DEF Rule, Reading, Rate, Average, TargetAverage
<1>4. Len(q) = 5 /\ q \in Seq(Elements(q))
  BY <1>1
<1>5. /\ Group(q, {"database_initialize_error", "database_close_error", "database_new_user_error",
                   "database_update_user_error", "database_delete_user_error"})
      /\ Plainly(q)
  BY <1>2, <1>3, <1>4 DEF Group, Plainly
<1> QED
  BY <1>5 DEF q, DatabaseErrorIds

RaftIds ==
    {"raft_peers", "autopilot_healthy", "autopilot_failure_tolerance",
     "autopilot_node_healthy", "raft_storage_commit_index", "raft_storage_applied_index",
     "raft_storage_apply_gap", "raft_storage_fsm_pending"}
LEMMA RaftGroup == Group(RaftRules, RaftIds) /\ Plainly(RaftRules)
<1> DEFINE a == <<Rule(<<"raft_peers", "max">>, RaftPeerCount)>>
           b == <<"autopilot_healthy", "autopilot_failure_tolerance">>
           c == <<Rule(<<"autopilot_node_healthy", "min">>,
                       MinBy(TargetGrouping \cup {"node_id"}, Now("autopilot_node_healthy"))),
                 Rule(<<"raft_storage_commit_index", "max">>,
                      RaftStorageMax("raft_storage_stats_commit_index")),
                 Rule(<<"raft_storage_applied_index", "max">>,
                      RaftStorageMax("raft_storage_stats_applied_index")),
                 Rule(<<"raft_storage_apply_gap", "max">>, RaftStorageApplyGap),
                 Rule(<<"raft_storage_fsm_pending", "max">>,
                      RaftStorageMax("raft_storage_stats_fsm_pending"))>>
<1>1. Group(a, {"raft_peers"}) /\ Plainly(a)
  <2>1. /\ Len(a) = 1 /\ a \in Seq(Elements(a))
        /\ a[1] = Rule(<<"raft_peers", "max">>, RaftPeerCount)
    BY DEF Elements
  <2> HIDE DEF a, b, c
  <2>2. \A i \in 1 .. 1 : Vector(a[i].vector) /\ a[i].reads = Samples
    BY <2>1, ExpressionsAreVectors, ComposedAreVectors, AggregationsAreVectors, EmptyVector
       DEF Rule, Reading, Rate, Average, TargetAverage
  <2>3. /\ a[1].record = <<"raft_peers", "max">>
    BY <2>1 DEF Rule, Reading, Rate, Average, TargetAverage
  <2>4. Len(a) = 1 /\ a \in Seq(Elements(a))
    BY <2>1
  <2>5. Group(a, {"raft_peers"}) /\ Plainly(a)
    BY <2>2, <2>3, <2>4 DEF Group, Plainly
  <2> QED
    BY <2>5
<1>2. /\ Group(ClusterGauges(b),
               {"autopilot_healthy", "autopilot_failure_tolerance"})
      /\ Plainly(ClusterGauges(b))
  <2>1. Distinct(b) /\ Elements(b) = {"autopilot_healthy", "autopilot_failure_tolerance"}
    BY ListOf2
  <2> HIDE DEF b
  <2> QED
    BY <2>1, GaugesGroup
<1>3. /\ Group(c, {"autopilot_node_healthy", "raft_storage_commit_index",
                   "raft_storage_applied_index", "raft_storage_apply_gap", "raft_storage_fsm_pending"})
      /\ Plainly(c)
  <2>1. /\ Len(c) = 5 /\ c \in Seq(Elements(c))
        /\ c[1] = Rule(<<"autopilot_node_healthy", "min">>,
                       MinBy(TargetGrouping \cup {"node_id"}, Now("autopilot_node_healthy")))
        /\ c[2] = Rule(<<"raft_storage_commit_index", "max">>,
                       RaftStorageMax("raft_storage_stats_commit_index"))
        /\ c[3] = Rule(<<"raft_storage_applied_index", "max">>,
                       RaftStorageMax("raft_storage_stats_applied_index"))
        /\ c[4] = Rule(<<"raft_storage_apply_gap", "max">>, RaftStorageApplyGap)
        /\ c[5] = Rule(<<"raft_storage_fsm_pending", "max">>,
                       RaftStorageMax("raft_storage_stats_fsm_pending"))
    BY DEF Elements
  <2> HIDE DEF a, b, c
  <2>2. \A i \in 1 .. 5 : Vector(c[i].vector) /\ c[i].reads = Samples
    BY <2>1, ExpressionsAreVectors, ComposedAreVectors, AggregationsAreVectors, EmptyVector
       DEF Rule, Reading, Rate, Average, TargetAverage
  <2>3. /\ c[1].record = <<"autopilot_node_healthy", "min">>
        /\ c[2].record = <<"raft_storage_commit_index", "max">>
        /\ c[3].record = <<"raft_storage_applied_index", "max">>
        /\ c[4].record = <<"raft_storage_apply_gap", "max">>
        /\ c[5].record = <<"raft_storage_fsm_pending", "max">>
    BY <2>1 DEF Rule, Reading, Rate, Average, TargetAverage
  <2>4. Len(c) = 5 /\ c \in Seq(Elements(c))
    BY <2>1
  <2>5. Group(c, {"autopilot_node_healthy", "raft_storage_commit_index",
                  "raft_storage_applied_index", "raft_storage_apply_gap",
                  "raft_storage_fsm_pending"}) /\ Plainly(c)
    BY <2>2, <2>3, <2>4 DEF Group, Plainly
  <2> QED
    BY <2>5
<1>4. RaftRules = a \o ClusterGauges(b) \o c
  BY DEF RaftRules
<1> HIDE DEF a, b, c
<1>5. Group(a \o ClusterGauges(b), {"raft_peers", "autopilot_healthy",
                                    "autopilot_failure_tolerance"})
      /\ Plainly(a \o ClusterGauges(b))
  <2> DEFINE A == {"raft_peers"}
             B == {"autopilot_healthy", "autopilot_failure_tolerance"}
  <2>1. A \cap B = {}
    OBVIOUS
  <2>2. A \cup B = {"raft_peers", "autopilot_healthy", "autopilot_failure_tolerance"}
    OBVIOUS
  <2> QED
    BY <1>1, <1>2, <2>1, <2>2, Joining
<1>6. Group(a \o ClusterGauges(b) \o c, {"raft_peers", "autopilot_healthy",
                                         "autopilot_failure_tolerance",
                                         "autopilot_node_healthy", "raft_storage_commit_index",
                                         "raft_storage_applied_index",
                                         "raft_storage_apply_gap", "raft_storage_fsm_pending"})
      /\ Plainly(a \o ClusterGauges(b) \o c)
  <2> DEFINE A == {"raft_peers", "autopilot_healthy", "autopilot_failure_tolerance"}
             B == {"autopilot_node_healthy", "raft_storage_commit_index",
                   "raft_storage_applied_index", "raft_storage_apply_gap",
                   "raft_storage_fsm_pending"}
  <2>1. A \cap B = {}
    OBVIOUS
  <2>2. A \cup B = {"raft_peers", "autopilot_healthy", "autopilot_failure_tolerance",
                    "autopilot_node_healthy", "raft_storage_commit_index",
                    "raft_storage_applied_index", "raft_storage_apply_gap",
                    "raft_storage_fsm_pending"}
    OBVIOUS
  <2> QED
    BY <1>5, <1>3, <2>1, <2>2, Joining
<1> QED
  BY <1>4, <1>6 DEF RaftIds

LeaseIds ==
    {"expire_num_leases", "expire_num_irrevocable_leases", "expire_revoke",
     "expire_register_auth"}
LEMMA LeaseGroup == Group(LeaseRules, LeaseIds) /\ Plainly(LeaseRules)
<1> DEFINE a == <<"expire_num_leases", "expire_num_irrevocable_leases">>
           b == <<"expire_revoke", "expire_register_auth">>
<1>1. /\ Group(ClusterGauges(a),
               {"expire_num_leases", "expire_num_irrevocable_leases"})
      /\ Plainly(ClusterGauges(a))
  <2>1. Distinct(a) /\ Elements(a) = {"expire_num_leases", "expire_num_irrevocable_leases"}
    BY ListOf2
  <2> HIDE DEF a
  <2> QED
    BY <2>1, GaugesGroup
<1>2. Group(Pairs(b), {"expire_revoke", "expire_register_auth"}) /\ Plainly(Pairs(b))
  <2>1. Distinct(b) /\ Elements(b) = {"expire_revoke", "expire_register_auth"}
    BY ListOf2
  <2> HIDE DEF b
  <2> QED
    BY <2>1, PairsGroup
<1>3. LeaseRules = ClusterGauges(a) \o Pairs(b)
  BY DEF LeaseRules
<1> HIDE DEF a, b
<1>4. Group(ClusterGauges(a) \o Pairs(b), {"expire_num_leases",
                                           "expire_num_irrevocable_leases", "expire_revoke",
                                           "expire_register_auth"})
      /\ Plainly(ClusterGauges(a) \o Pairs(b))
  <2> DEFINE A == {"expire_num_leases", "expire_num_irrevocable_leases"}
             B == {"expire_revoke", "expire_register_auth"}
  <2>1. A \cap B = {}
    OBVIOUS
  <2>2. A \cup B = {"expire_num_leases", "expire_num_irrevocable_leases", "expire_revoke",
                    "expire_register_auth"}
    OBVIOUS
  <2> QED
    BY <1>1, <1>2, <2>1, <2>2, Joining
<1> QED
  BY <1>3, <1>4 DEF LeaseIds

TokenIds ==
    {"token_count", "token_creation", "token_creation_by_auth", "token_creation_by_namespace",
     "token_creation_by_auth_namespace", "token_create", "token_lookup", "token_store",
     "token_revoke_tree"}
LEMMA TokenGroup == Group(TokenRules, TokenIds) /\ Plainly(TokenRules)
<1> DEFINE a == <<Rule(<<"token_count", "max30m">>,
                       MaxBy(ClusterGrouping, MaxOverTime("token_count"))),
                 Rule(<<"token_creation", "increase15m">>, ClusterIncrease("token_creation")),
                 Rule(<<"token_creation_by_auth", "increase15m">>,
                      IncreaseBy("auth_method", "token_creation")),
                 Rule(<<"token_creation_by_namespace", "increase15m">>,
                      ClusterIncrease("token_creation")),
                 Rule(<<"token_creation_by_auth_namespace", "increase15m">>,
                      IncreaseBy("auth_method", "token_creation"))>>
           b == <<"token_create", "token_lookup", "token_store", "token_revoke_tree">>
<1>1. /\ Group(a, {"token_count", "token_creation", "token_creation_by_auth",
                   "token_creation_by_namespace", "token_creation_by_auth_namespace"})
      /\ Plainly(a)
  <2>1. /\ Len(a) = 5 /\ a \in Seq(Elements(a))
        /\ a[1] = Rule(<<"token_count", "max30m">>,
                       MaxBy(ClusterGrouping, MaxOverTime("token_count")))
        /\ a[2] = Rule(<<"token_creation", "increase15m">>, ClusterIncrease("token_creation"))
        /\ a[3] = Rule(<<"token_creation_by_auth", "increase15m">>,
                       IncreaseBy("auth_method", "token_creation"))
        /\ a[4] = Rule(<<"token_creation_by_namespace", "increase15m">>,
                       ClusterIncrease("token_creation"))
        /\ a[5] = Rule(<<"token_creation_by_auth_namespace", "increase15m">>,
                       IncreaseBy("auth_method", "token_creation"))
    BY DEF Elements
  <2> HIDE DEF a, b
  <2>2. \A i \in 1 .. 5 : Vector(a[i].vector) /\ a[i].reads = Samples
    BY <2>1, ExpressionsAreVectors, ComposedAreVectors, AggregationsAreVectors, EmptyVector
       DEF Rule, Reading, Rate, Average, TargetAverage
  <2>3. /\ a[1].record = <<"token_count", "max30m">>
        /\ a[2].record = <<"token_creation", "increase15m">>
        /\ a[3].record = <<"token_creation_by_auth", "increase15m">>
        /\ a[4].record = <<"token_creation_by_namespace", "increase15m">>
        /\ a[5].record = <<"token_creation_by_auth_namespace", "increase15m">>
    BY <2>1 DEF Rule, Reading, Rate, Average, TargetAverage
  <2>4. Len(a) = 5 /\ a \in Seq(Elements(a))
    BY <2>1
  <2>5. Group(a, {"token_count", "token_creation", "token_creation_by_auth",
                  "token_creation_by_namespace", "token_creation_by_auth_namespace"}) /\ Plainly(a)
    BY <2>2, <2>3, <2>4 DEF Group, Plainly
  <2> QED
    BY <2>5
<1>2. /\ Group(Pairs(b), {"token_create", "token_lookup", "token_store",
                          "token_revoke_tree"})
      /\ Plainly(Pairs(b))
  <2>1. Distinct(b) /\ Elements(b) = {"token_create", "token_lookup", "token_store",
                                      "token_revoke_tree"}
    BY ListOf4
  <2> HIDE DEF b
  <2> QED
    BY <2>1, PairsGroup
<1>3. TokenRules = a \o Pairs(b)
  BY DEF TokenRules
<1> HIDE DEF a, b
<1>4. Group(a \o Pairs(b), {"token_count", "token_creation", "token_creation_by_auth",
                            "token_creation_by_namespace", "token_creation_by_auth_namespace",
                            "token_create", "token_lookup", "token_store", "token_revoke_tree"})
      /\ Plainly(a \o Pairs(b))
  <2> DEFINE A == {"token_count", "token_creation", "token_creation_by_auth",
                   "token_creation_by_namespace", "token_creation_by_auth_namespace"}
             B == {"token_create", "token_lookup", "token_store", "token_revoke_tree"}
  <2>1. A \cap B = {}
    OBVIOUS
  <2>2. A \cup B = {"token_count", "token_creation", "token_creation_by_auth",
                    "token_creation_by_namespace", "token_creation_by_auth_namespace",
                    "token_create", "token_lookup", "token_store", "token_revoke_tree"}
    OBVIOUS
  <2> QED
    BY <1>1, <1>2, <2>1, <2>2, Joining
<1> QED
  BY <1>3, <1>4 DEF TokenIds

RuntimeIds ==
    {"runtime_num_goroutines", "runtime_alloc_bytes", "runtime_heap_objects",
     "runtime_sys_bytes", "runtime_gc_pause_ns", "runtime_total_gc_pause_ns",
     "runtime_total_gc_runs"}
LEMMA RuntimeGroup == Group(RuntimeRules, RuntimeIds) /\ Plainly(RuntimeRules)
<1> DEFINE a == <<"runtime_num_goroutines", "runtime_alloc_bytes", "runtime_heap_objects",
                  "runtime_sys_bytes">>
           b == <<Average("runtime_gc_pause_ns", "runtime_gc_pause_ns")>>
           c == <<"runtime_total_gc_pause_ns", "runtime_total_gc_runs">>
<1>1. /\ Group(TargetGauges(a), {"runtime_num_goroutines", "runtime_alloc_bytes",
                                 "runtime_heap_objects", "runtime_sys_bytes"})
      /\ Plainly(TargetGauges(a))
  <2>1. Distinct(a) /\ Elements(a) = {"runtime_num_goroutines", "runtime_alloc_bytes",
                                      "runtime_heap_objects", "runtime_sys_bytes"}
    BY ListOf4
  <2> HIDE DEF a
  <2> QED
    BY <2>1, GaugesGroup
<1>2. Group(b, {"runtime_gc_pause_ns"}) /\ Plainly(b)
  <2>1. /\ Len(b) = 1 /\ b \in Seq(Elements(b))
        /\ b[1] = Average("runtime_gc_pause_ns", "runtime_gc_pause_ns")
    BY DEF Elements
  <2> HIDE DEF a, b, c
  <2>2. \A i \in 1 .. 1 : Vector(b[i].vector) /\ b[i].reads = Samples
    BY <2>1, ExpressionsAreVectors, ComposedAreVectors, AggregationsAreVectors, EmptyVector
       DEF Rule, Reading, Rate, Average, TargetAverage
  <2>3. /\ b[1].record = <<"runtime_gc_pause_ns", "avg5m">>
    BY <2>1 DEF Rule, Reading, Rate, Average, TargetAverage
  <2>4. Len(b) = 1 /\ b \in Seq(Elements(b))
    BY <2>1
  <2>5. Group(b, {"runtime_gc_pause_ns"}) /\ Plainly(b)
    BY <2>2, <2>3, <2>4 DEF Group, Plainly
  <2> QED
    BY <2>5
<1>3. /\ Group(TargetGauges(c), {"runtime_total_gc_pause_ns",
                                 "runtime_total_gc_runs"})
      /\ Plainly(TargetGauges(c))
  <2>1. Distinct(c) /\ Elements(c) = {"runtime_total_gc_pause_ns", "runtime_total_gc_runs"}
    BY ListOf2
  <2> HIDE DEF c
  <2> QED
    BY <2>1, GaugesGroup
<1>4. RuntimeRules = TargetGauges(a) \o b \o TargetGauges(c)
  BY DEF RuntimeRules
<1> HIDE DEF a, b, c
<1>5. Group(TargetGauges(a) \o b, {"runtime_num_goroutines", "runtime_alloc_bytes",
                                   "runtime_heap_objects", "runtime_sys_bytes",
                                   "runtime_gc_pause_ns"})
      /\ Plainly(TargetGauges(a) \o b)
  <2> DEFINE A == {"runtime_num_goroutines", "runtime_alloc_bytes", "runtime_heap_objects",
                   "runtime_sys_bytes"}
             B == {"runtime_gc_pause_ns"}
  <2>1. A \cap B = {}
    OBVIOUS
  <2>2. A \cup B = {"runtime_num_goroutines", "runtime_alloc_bytes", "runtime_heap_objects",
                    "runtime_sys_bytes", "runtime_gc_pause_ns"}
    OBVIOUS
  <2> QED
    BY <1>1, <1>2, <2>1, <2>2, Joining
<1>6. Group(TargetGauges(a) \o b \o TargetGauges(c), {"runtime_num_goroutines",
                                                      "runtime_alloc_bytes",
                                                      "runtime_heap_objects",
                                                      "runtime_sys_bytes",
                                                      "runtime_gc_pause_ns",
                                                      "runtime_total_gc_pause_ns",
                                                      "runtime_total_gc_runs"})
      /\ Plainly(TargetGauges(a) \o b \o TargetGauges(c))
  <2> DEFINE A == {"runtime_num_goroutines", "runtime_alloc_bytes", "runtime_heap_objects",
                   "runtime_sys_bytes", "runtime_gc_pause_ns"}
             B == {"runtime_total_gc_pause_ns", "runtime_total_gc_runs"}
  <2>1. A \cap B = {}
    OBVIOUS
  <2>2. A \cup B = {"runtime_num_goroutines", "runtime_alloc_bytes", "runtime_heap_objects",
                    "runtime_sys_bytes", "runtime_gc_pause_ns", "runtime_total_gc_pause_ns",
                    "runtime_total_gc_runs"}
    OBVIOUS
  <2> QED
    BY <1>5, <1>3, <2>1, <2>2, Joining
<1> QED
  BY <1>4, <1>6 DEF RuntimeIds

BarrierIds ==
    {"barrier_get", "barrier_put", "barrier_list", "barrier_list_page", "barrier_delete",
     "barrier_estimated_encryptions"}
LEMMA BarrierGroup == Group(BarrierRules, BarrierIds) /\ Plainly(BarrierRules)
<1> DEFINE a == <<"barrier_get", "barrier_put", "barrier_list", "barrier_list_page",
                  "barrier_delete">>
           b == <<Rule(<<"barrier_estimated_encryptions", "increase15m">>,
                       IncreaseBy("term", "barrier_estimated_encryptions"))>>
<1>1. /\ Group(Pairs(a), {"barrier_get", "barrier_put", "barrier_list", "barrier_list_page",
                          "barrier_delete"})
      /\ Plainly(Pairs(a))
  <2>1. Distinct(a) /\ Elements(a) = {"barrier_get", "barrier_put", "barrier_list",
                                      "barrier_list_page", "barrier_delete"}
    BY ListOf5
  <2> HIDE DEF a
  <2> QED
    BY <2>1, PairsGroup
<1>2. Group(b, {"barrier_estimated_encryptions"}) /\ Plainly(b)
  <2>1. /\ Len(b) = 1 /\ b \in Seq(Elements(b))
        /\ b[1] = Rule(<<"barrier_estimated_encryptions", "increase15m">>,
                       IncreaseBy("term", "barrier_estimated_encryptions"))
    BY DEF Elements
  <2> HIDE DEF a, b
  <2>2. \A i \in 1 .. 1 : Vector(b[i].vector) /\ b[i].reads = Samples
    BY <2>1, ExpressionsAreVectors, ComposedAreVectors, AggregationsAreVectors, EmptyVector
       DEF Rule, Reading, Rate, Average, TargetAverage
  <2>3. /\ b[1].record = <<"barrier_estimated_encryptions", "increase15m">>
    BY <2>1 DEF Rule, Reading, Rate, Average, TargetAverage
  <2>4. Len(b) = 1 /\ b \in Seq(Elements(b))
    BY <2>1
  <2>5. Group(b, {"barrier_estimated_encryptions"}) /\ Plainly(b)
    BY <2>2, <2>3, <2>4 DEF Group, Plainly
  <2> QED
    BY <2>5
<1>3. BarrierRules = Pairs(a) \o b
  BY DEF BarrierRules
<1> HIDE DEF a, b
<1>4. Group(Pairs(a) \o b, {"barrier_get", "barrier_put", "barrier_list", "barrier_list_page",
                            "barrier_delete", "barrier_estimated_encryptions"})
      /\ Plainly(Pairs(a) \o b)
  <2> DEFINE A == {"barrier_get", "barrier_put", "barrier_list", "barrier_list_page",
                   "barrier_delete"}
             B == {"barrier_estimated_encryptions"}
  <2>1. A \cap B = {}
    OBVIOUS
  <2>2. A \cup B = {"barrier_get", "barrier_put", "barrier_list", "barrier_list_page",
                    "barrier_delete", "barrier_estimated_encryptions"}
    OBVIOUS
  <2> QED
    BY <1>1, <1>2, <2>1, <2>2, Joining
<1> QED
  BY <1>3, <1>4 DEF BarrierIds

RouteIds ==
    {"route_create_kv_v1", "route_read_kv_v1", "route_list_kv_v1", "route_delete_kv_v1",
     "route_create_kv_v2", "route_read_kv_v2", "route_list_kv_v2", "route_delete_kv_v2"}
LEMMA RouteGroup == Group(RouteRules, RouteIds) /\ Plainly(RouteRules)
<1> DEFINE p1 == PairAs("route_create_kv_v1", "route_create_kv_v1_")
           p2 == PairAs("route_read_kv_v1", "route_read_kv_v1_")
           p3 == PairAs("route_list_kv_v1", "route_list_kv_v1_")
           p4 == PairAs("route_delete_kv_v1", "route_delete_kv_v1_")
           p5 == PairAs("route_create_kv_v2", "route_create_secret_")
           p6 == PairAs("route_read_kv_v2", "route_read_secret_")
           p7 == PairAs("route_list_kv_v2", "route_list_secret_")
           p8 == PairAs("route_delete_kv_v2", "route_delete_secret_")
           q2 == p1 \o p2
           q3 == q2 \o p3
           q4 == q3 \o p4
           q5 == q4 \o p5
           q6 == q5 \o p6
           q7 == q6 \o p7
           q8 == q7 \o p8
<1>1. RouteRules = q8
  BY DEF RouteRules
<1>2. /\ Group(p1, {"route_create_kv_v1"}) /\ Plainly(p1)
      /\ Group(p2, {"route_read_kv_v1"}) /\ Plainly(p2)
      /\ Group(p3, {"route_list_kv_v1"}) /\ Plainly(p3)
      /\ Group(p4, {"route_delete_kv_v1"}) /\ Plainly(p4)
      /\ Group(p5, {"route_create_kv_v2"}) /\ Plainly(p5)
      /\ Group(p6, {"route_read_kv_v2"}) /\ Plainly(p6)
      /\ Group(p7, {"route_list_kv_v2"}) /\ Plainly(p7)
      /\ Group(p8, {"route_delete_kv_v2"}) /\ Plainly(p8)
  BY PairAsGroup
<1> HIDE DEF p1, p2, p3, p4, p5, p6, p7, p8
<1>3. Group(q2, {"route_create_kv_v1", "route_read_kv_v1"}) /\ Plainly(q2)
  <2> DEFINE A == {"route_create_kv_v1"}
  <2>1. A \cap {"route_read_kv_v1"} = {}
    OBVIOUS
  <2>2. A \cup {"route_read_kv_v1"} = {"route_create_kv_v1", "route_read_kv_v1"}
    OBVIOUS
  <2> QED
    BY <1>2, <2>1, <2>2, Joining
<1> HIDE DEF q2
<1>4. Group(q3, {"route_create_kv_v1", "route_read_kv_v1", "route_list_kv_v1"}) /\ Plainly(q3)
  <2> DEFINE A == {"route_create_kv_v1", "route_read_kv_v1"}
  <2>1. A \cap {"route_list_kv_v1"} = {}
    OBVIOUS
  <2>2. A \cup {"route_list_kv_v1"} = {"route_create_kv_v1", "route_read_kv_v1",
                                       "route_list_kv_v1"}
    OBVIOUS
  <2> QED
    BY <1>2, <1>3, <2>1, <2>2, Joining
<1> HIDE DEF q3
<1>5. /\ Group(q4, {"route_create_kv_v1", "route_read_kv_v1", "route_list_kv_v1",
                    "route_delete_kv_v1"})
      /\ Plainly(q4)
  <2> DEFINE A == {"route_create_kv_v1", "route_read_kv_v1", "route_list_kv_v1"}
  <2>1. A \cap {"route_delete_kv_v1"} = {}
    OBVIOUS
  <2>2. A \cup {"route_delete_kv_v1"} = {"route_create_kv_v1", "route_read_kv_v1",
                                         "route_list_kv_v1", "route_delete_kv_v1"}
    OBVIOUS
  <2> QED
    BY <1>2, <1>4, <2>1, <2>2, Joining
<1> HIDE DEF q4
<1>6. /\ Group(q5, {"route_create_kv_v1", "route_read_kv_v1", "route_list_kv_v1",
                    "route_delete_kv_v1", "route_create_kv_v2"})
      /\ Plainly(q5)
  <2> DEFINE A == {"route_create_kv_v1", "route_read_kv_v1", "route_list_kv_v1",
                   "route_delete_kv_v1"}
  <2>1. A \cap {"route_create_kv_v2"} = {}
    OBVIOUS
  <2>2. A \cup {"route_create_kv_v2"} = {"route_create_kv_v1", "route_read_kv_v1",
                                         "route_list_kv_v1", "route_delete_kv_v1",
                                         "route_create_kv_v2"}
    OBVIOUS
  <2> QED
    BY <1>2, <1>5, <2>1, <2>2, Joining
<1> HIDE DEF q5
<1>7. /\ Group(q6, {"route_create_kv_v1", "route_read_kv_v1", "route_list_kv_v1",
                    "route_delete_kv_v1", "route_create_kv_v2", "route_read_kv_v2"})
      /\ Plainly(q6)
  <2> DEFINE A == {"route_create_kv_v1", "route_read_kv_v1", "route_list_kv_v1",
                   "route_delete_kv_v1", "route_create_kv_v2"}
  <2>1. A \cap {"route_read_kv_v2"} = {}
    OBVIOUS
  <2>2. A \cup {"route_read_kv_v2"} = {"route_create_kv_v1", "route_read_kv_v1",
                                       "route_list_kv_v1", "route_delete_kv_v1",
                                       "route_create_kv_v2", "route_read_kv_v2"}
    OBVIOUS
  <2> QED
    BY <1>2, <1>6, <2>1, <2>2, Joining
<1> HIDE DEF q6
<1>8. /\ Group(q7, {"route_create_kv_v1", "route_read_kv_v1", "route_list_kv_v1",
                    "route_delete_kv_v1", "route_create_kv_v2", "route_read_kv_v2",
                    "route_list_kv_v2"})
      /\ Plainly(q7)
  <2> DEFINE A == {"route_create_kv_v1", "route_read_kv_v1", "route_list_kv_v1",
                   "route_delete_kv_v1", "route_create_kv_v2", "route_read_kv_v2"}
  <2>1. A \cap {"route_list_kv_v2"} = {}
    OBVIOUS
  <2>2. A \cup {"route_list_kv_v2"} = {"route_create_kv_v1", "route_read_kv_v1",
                                       "route_list_kv_v1", "route_delete_kv_v1",
                                       "route_create_kv_v2", "route_read_kv_v2",
                                       "route_list_kv_v2"}
    OBVIOUS
  <2> QED
    BY <1>2, <1>7, <2>1, <2>2, Joining
<1> HIDE DEF q7
<1>9. /\ Group(q8, {"route_create_kv_v1", "route_read_kv_v1", "route_list_kv_v1",
                    "route_delete_kv_v1", "route_create_kv_v2", "route_read_kv_v2",
                    "route_list_kv_v2", "route_delete_kv_v2"})
      /\ Plainly(q8)
  <2> DEFINE A == {"route_create_kv_v1", "route_read_kv_v1", "route_list_kv_v1",
                   "route_delete_kv_v1", "route_create_kv_v2", "route_read_kv_v2",
                   "route_list_kv_v2"}
  <2>1. A \cap {"route_delete_kv_v2"} = {}
    OBVIOUS
  <2>2. A \cup {"route_delete_kv_v2"} = {"route_create_kv_v1", "route_read_kv_v1",
                                         "route_list_kv_v1", "route_delete_kv_v1",
                                         "route_create_kv_v2", "route_read_kv_v2",
                                         "route_list_kv_v2", "route_delete_kv_v2"}
    OBVIOUS
  <2> QED
    BY <1>2, <1>8, <2>1, <2>2, Joining
<1> HIDE DEF q8
<1> QED
  BY <1>1, <1>9 DEF RouteIds

PKIIds ==
    {"pki_issue", "pki_revoke", "pki_issue_failure", "pki_revoke_failure"}
LEMMA PKIGroup == Group(PKIRules, PKIIds) /\ Plainly(PKIRules)
<1> DEFINE a == <<"pki_issue", "pki_revoke">>
           b == <<"pki_issue_failure", "pki_revoke_failure">>
<1>1. Group(Pairs(a), {"pki_issue", "pki_revoke"}) /\ Plainly(Pairs(a))
  <2>1. Distinct(a) /\ Elements(a) = {"pki_issue", "pki_revoke"}
    BY ListOf2
  <2> HIDE DEF a
  <2> QED
    BY <2>1, PairsGroup
<1>2. Group(Increases(b), {"pki_issue_failure", "pki_revoke_failure"}) /\ Plainly(Increases(b))
  <2>1. Distinct(b) /\ Elements(b) = {"pki_issue_failure", "pki_revoke_failure"}
    BY ListOf2
  <2> HIDE DEF b
  <2> QED
    BY <2>1, GaugesGroup
<1>3. PKIRules = Pairs(a) \o Increases(b)
  BY DEF PKIRules
<1> HIDE DEF a, b
<1>4. Group(Pairs(a) \o Increases(b), {"pki_issue", "pki_revoke", "pki_issue_failure",
                                       "pki_revoke_failure"})
      /\ Plainly(Pairs(a) \o Increases(b))
  <2> DEFINE A == {"pki_issue", "pki_revoke"}
             B == {"pki_issue_failure", "pki_revoke_failure"}
  <2>1. A \cap B = {}
    OBVIOUS
  <2>2. A \cup B = {"pki_issue", "pki_revoke", "pki_issue_failure", "pki_revoke_failure"}
    OBVIOUS
  <2> QED
    BY <1>1, <1>2, <2>1, <2>2, Joining
<1> QED
  BY <1>3, <1>4 DEF PKIIds

DatabaseIds ==
    {"database_initialize", "database_close", "database_new_user", "database_update_user",
     "database_delete_user"}
LEMMA DatabaseGroup == Group(DatabaseRules, DatabaseIds) /\ Plainly(DatabaseRules)
<1> DEFINE p1 == PairAs("database_initialize", "database_Initialize")
           p2 == PairAs("database_close", "database_Close")
           p3 == PairAs("database_new_user", "database_NewUser")
           p4 == PairAs("database_update_user", "database_UpdateUser")
           p5 == PairAs("database_delete_user", "database_DeleteUser")
           q2 == p1 \o p2
           q3 == q2 \o p3
           q4 == q3 \o p4
           q5 == q4 \o p5
<1>1. DatabaseRules = q5
  BY DEF DatabaseRules
<1>2. /\ Group(p1, {"database_initialize"}) /\ Plainly(p1)
      /\ Group(p2, {"database_close"}) /\ Plainly(p2)
      /\ Group(p3, {"database_new_user"}) /\ Plainly(p3)
      /\ Group(p4, {"database_update_user"}) /\ Plainly(p4)
      /\ Group(p5, {"database_delete_user"}) /\ Plainly(p5)
  BY PairAsGroup
<1> HIDE DEF p1, p2, p3, p4, p5
<1>3. Group(q2, {"database_initialize", "database_close"}) /\ Plainly(q2)
  <2> DEFINE A == {"database_initialize"}
  <2>1. A \cap {"database_close"} = {}
    OBVIOUS
  <2>2. A \cup {"database_close"} = {"database_initialize", "database_close"}
    OBVIOUS
  <2> QED
    BY <1>2, <2>1, <2>2, Joining
<1> HIDE DEF q2
<1>4. Group(q3, {"database_initialize", "database_close", "database_new_user"}) /\ Plainly(q3)
  <2> DEFINE A == {"database_initialize", "database_close"}
  <2>1. A \cap {"database_new_user"} = {}
    OBVIOUS
  <2>2. A \cup {"database_new_user"} = {"database_initialize", "database_close",
                                        "database_new_user"}
    OBVIOUS
  <2> QED
    BY <1>2, <1>3, <2>1, <2>2, Joining
<1> HIDE DEF q3
<1>5. /\ Group(q4, {"database_initialize", "database_close", "database_new_user",
                    "database_update_user"})
      /\ Plainly(q4)
  <2> DEFINE A == {"database_initialize", "database_close", "database_new_user"}
  <2>1. A \cap {"database_update_user"} = {}
    OBVIOUS
  <2>2. A \cup {"database_update_user"} = {"database_initialize", "database_close",
                                           "database_new_user", "database_update_user"}
    OBVIOUS
  <2> QED
    BY <1>2, <1>4, <2>1, <2>2, Joining
<1> HIDE DEF q4
<1>6. /\ Group(q5, {"database_initialize", "database_close", "database_new_user",
                    "database_update_user", "database_delete_user"})
      /\ Plainly(q5)
  <2> DEFINE A == {"database_initialize", "database_close", "database_new_user",
                   "database_update_user"}
  <2>1. A \cap {"database_delete_user"} = {}
    OBVIOUS
  <2>2. A \cup {"database_delete_user"} = {"database_initialize", "database_close",
                                           "database_new_user", "database_update_user",
                                           "database_delete_user"}
    OBVIOUS
  <2> QED
    BY <1>2, <1>5, <2>1, <2>2, Joining
<1> HIDE DEF q5
<1> QED
  BY <1>1, <1>6 DEF DatabaseIds

(* The rules the properties are about, and where they stand in the group. *)

UnsealedMin == <<"core_unsealed", "min">>
TotalJobs == <<"expire_job_manager_total_jobs", "max">>
UnsealedSum == <<"core_unsealed", "sum">>
NetChange == <<"expire_job_manager_backlog", "net_change_per_second5m">>
LatencyName == <<"core_handle_request_by_target", "avg5m">>
HitRatioName == <<"cache_hit_ratio", "ratio5m">>
MountsName == <<"secret_kv_count", "max30m">>
ApplyGapName == <<"raft_storage_apply_gap", "max">>
UnsealedRule == Rule(UnsealedMin, UnsealedState)
UnsealedCount == Reading(<<"core_unsealed", "sum">>, UnsealedMin)
BacklogRule == Rule(TotalJobs, MaxBy(TargetGrouping, OfActive("expire_job_manager_total_jobs")))
BacklogChange == Reading(<<"expire_job_manager_backlog", "net_change_per_second5m">>, TotalJobs)
LatencyRule == TargetAverage("core_handle_request_by_target", "core_handle_request")
HitRatioRule == Rule(<<"cache_hit_ratio", "ratio5m">>, CacheHitRatio)
MountsRule == Rule(<<"secret_kv_count", "max30m">>, SecretKVCount)
ApplyGapRule == Rule(<<"raft_storage_apply_gap", "max">>, RaftStorageApplyGap)

Has(q, r) == \E i \in 1 .. Len(q) : q[i] = r
InOrder(q, r, s) == \E i, j \in 1 .. Len(q) : i < j /\ q[i] = r /\ q[j] = s
\* Only the rules of R read what others record.
Readers(q, R) == \A i \in 1 .. Len(q) : q[i].reads = Samples \/ q[i] \in R

LEMMA PlainlyReadsNone == \A q : Plainly(q) => Readers(q, {})
BY DEF Plainly, Readers

LEMMA ConcatenationKeeps ==
    ASSUME NEW p, NEW q, NEW A, NEW B, Group(p, A), Group(q, B), A \cap B = {}
    PROVE  /\ \A R, S : Readers(p, R) /\ Readers(q, S) => Readers(p \o q, R \cup S)
           /\ \A r : Has(p, r) \/ Has(q, r) => Has(p \o q, r)
           /\ \A r, s : InOrder(p, r, s) \/ InOrder(q, r, s) => InOrder(p \o q, r, s)
<1> DEFINE c == p \o q
<1>1. /\ Len(p) \in Nat /\ Len(q) \in Nat /\ Len(c) = Len(p) + Len(q)
      /\ \A i \in 1 .. Len(p) : i \in 1 .. Len(c) /\ c[i] = p[i]
      /\ \A i \in 1 .. Len(q) : Len(p) + i \in 1 .. Len(c) /\ c[Len(p) + i] = q[i]
  BY GroupsConcatenate DEF Group
<1>2. \A i \in 1 .. Len(c) : i \in 1 .. Len(p) \/ (i - Len(p) \in 1 .. Len(q) /\ i = Len(p) + (i - Len(p)))
  BY <1>1
<1> HIDE DEF c
<1>3. ASSUME NEW R, NEW S, Readers(p, R), Readers(q, S) PROVE Readers(c, R \cup S)
  <2> SUFFICES ASSUME NEW i \in 1 .. Len(c) PROVE c[i].reads = Samples \/ c[i] \in R \cup S
    BY DEF Readers
  <2>1. CASE i \in 1 .. Len(p)
    BY <1>1, <1>3, <2>1 DEF Readers
  <2>2. CASE i - Len(p) \in 1 .. Len(q) /\ i = Len(p) + (i - Len(p))
    <3>1. c[i] = q[i - Len(p)]
      BY <1>1, <2>2
    <3> QED
      BY <1>3, <2>2, <3>1 DEF Readers
  <2> QED
    BY <1>2, <2>1, <2>2
<1>4. ASSUME NEW r, Has(p, r) \/ Has(q, r) PROVE Has(c, r)
  BY <1>1, <1>4 DEF Has
<1>5. ASSUME NEW r, NEW s, InOrder(p, r, s) PROVE InOrder(c, r, s)
  BY <1>1, <1>5 DEF InOrder
<1>6. ASSUME NEW r, NEW s, InOrder(q, r, s) PROVE InOrder(c, r, s)
  <2>1. PICK i \in 1 .. Len(q), j \in 1 .. Len(q) : i < j /\ q[i] = r /\ q[j] = s
    BY <1>6 DEF InOrder
  <2>2. Len(p) + i < Len(p) + j
    BY <1>1, <2>1
  <2> QED
    BY <1>1, <2>1, <2>2 DEF InOrder
<1> QED
  BY <1>3, <1>4, <1>5, <1>6 DEF c

CoreIds ==
    {"core_active", "core_unsealed", "core_handle_request", "core_handle_login_request",
     "core_check_token", "core_in_flight_requests"}
LEMMA CoreGroup ==
    /\ Group(CoreRules, CoreIds) /\ Readers(CoreRules, {UnsealedCount})
    /\ InOrder(CoreRules, UnsealedRule, UnsealedCount)
<1> DEFINE a == <<Rule(<<"core_active", "sum">>, SumBy(ClusterGrouping, Now("core_active"))),
                  UnsealedRule, UnsealedCount>>
           b == <<"core_handle_request", "core_handle_login_request", "core_check_token">>
           c == <<"core_in_flight_requests">>
           A == {"core_active", "core_unsealed"}
           B == {"core_handle_request", "core_handle_login_request", "core_check_token"}
           C == {"core_in_flight_requests"}
<1>1. CoreRules = a \o Pairs(b) \o TargetGauges(c)
  BY DEF CoreRules, UnsealedRule, UnsealedCount, UnsealedMin
<1>2. /\ Group(a, A) /\ Readers(a, {UnsealedCount})
      /\ InOrder(a, UnsealedRule, UnsealedCount)
  <2>1. /\ Len(a) = 3 /\ a \in Seq(Elements(a))
        /\ a[1] = Rule(<<"core_active", "sum">>, SumBy(ClusterGrouping, Now("core_active")))
        /\ a[2] = UnsealedRule /\ a[3] = UnsealedCount
    BY DEF Elements
  <2> HIDE DEF a
  <2>2. /\ a[1].record = <<"core_active", "sum">> /\ a[1].reads = Samples /\ Vector(a[1].vector)
        /\ a[2].record = UnsealedMin /\ a[2].reads = Samples /\ Vector(a[2].vector)
        /\ a[3].record = <<"core_unsealed", "sum">> /\ Vector(a[3].vector)
    BY <2>1, AggregationsAreVectors, ComposedAreVectors, EmptyVector
       DEF UnsealedRule, UnsealedCount, Rule, Reading
  <2>3. Group(a, A)
    BY <2>1, <2>2 DEF Group, UnsealedMin
  <2>4. Readers(a, {UnsealedCount}) /\ InOrder(a, UnsealedRule, UnsealedCount)
    BY <2>1, <2>2 DEF Readers, InOrder
  <2> QED
    BY <2>3, <2>4
<1>3. Group(Pairs(b), B) /\ Readers(Pairs(b), {})
  <2>1. Distinct(b) /\ Elements(b) = B
    BY ListOf3
  <2> HIDE DEF b, B
  <2> QED
    BY <2>1, PairsGroup, PlainlyReadsNone
<1>4. Group(TargetGauges(c), C) /\ Readers(TargetGauges(c), {})
  <2>1. Distinct(c) /\ Elements(c) = C
    BY ListOf1
  <2> HIDE DEF c, C
  <2> QED
    BY <2>1, GaugesGroup, PlainlyReadsNone
<1>5. A \cap B = {} /\ (A \cup B) \cap C = {} /\ (A \cup B) \cup C = CoreIds
  BY DEF CoreIds
<1> HIDE DEF a, b, c, A, B, C
<1>6. /\ Group(a \o Pairs(b), A \cup B) /\ Readers(a \o Pairs(b), {UnsealedCount} \cup {})
      /\ InOrder(a \o Pairs(b), UnsealedRule, UnsealedCount)
  BY <1>2, <1>3, <1>5, GroupsConcatenate, ConcatenationKeeps
<1>7. /\ Group(a \o Pairs(b) \o TargetGauges(c), (A \cup B) \cup C)
      /\ Readers(a \o Pairs(b) \o TargetGauges(c), ({UnsealedCount} \cup {}) \cup {})
      /\ InOrder(a \o Pairs(b) \o TargetGauges(c), UnsealedRule, UnsealedCount)
  BY <1>4, <1>5, <1>6, GroupsConcatenate, ConcatenationKeeps
<1>8. ({UnsealedCount} \cup {}) \cup {} = {UnsealedCount}
  OBVIOUS
<1> QED
  BY <1>1, <1>5, <1>7, <1>8

StoragePressureIds ==
    {"expire_job_manager_total_jobs", "expire_job_manager_queue_length",
     "expire_job_manager_backlog", "expire_lease_expiration_time_in_queue", "raft_storage_put",
     "raft_storage_delete", "raft_commit_time", "raft_fsm_apply_batch",
     "raft_fsm_apply_batch_logs", "core_handle_request_by_target",
     "core_handle_login_request_by_target", "raft_thread_fsm_saturation"}
LEMMA StoragePressureGroup ==
    /\ Group(StoragePressureRules, StoragePressureIds)
    /\ Readers(StoragePressureRules, {BacklogChange})
    /\ InOrder(StoragePressureRules, BacklogRule, BacklogChange)
    /\ Has(StoragePressureRules, LatencyRule)
<1> DEFINE a == <<BacklogRule,
                  Rule(<<"expire_job_manager_queue_length", "max">>,
                       MaxBy(TargetGrouping \cup {"queue_id"},
                             OfActive("expire_job_manager_queue_length"))),
                  BacklogChange>>
           b == <<TargetAverage("expire_lease_expiration_time_in_queue",
                                "expire_lease_expiration_time_in_queue"),
                  TargetAverage("raft_storage_put", "raft_storage_put"),
                  TargetAverage("raft_storage_delete", "raft_storage_delete"),
                  TargetAverage("raft_commit_time", "raft_commitTime"),
                  TargetAverage("raft_fsm_apply_batch", "raft_fsm_applyBatch"),
                  TargetAverage("raft_fsm_apply_batch_logs", "raft_fsm_applyBatchNum"),
                  LatencyRule,
                  TargetAverage("core_handle_login_request_by_target", "core_handle_login_request"),
                  Rule(<<"raft_thread_fsm_saturation", "ratio5m">>,
                       TargetSummaryAverage("raft_thread_fsm_saturation"))>>
           A == {"expire_job_manager_total_jobs", "expire_job_manager_queue_length",
                 "expire_job_manager_backlog"}
           B == {"expire_lease_expiration_time_in_queue", "raft_storage_put",
                 "raft_storage_delete", "raft_commit_time", "raft_fsm_apply_batch",
                 "raft_fsm_apply_batch_logs", "core_handle_request_by_target",
                 "core_handle_login_request_by_target", "raft_thread_fsm_saturation"}
<1>1. StoragePressureRules = a \o b
  BY DEF StoragePressureRules, BacklogRule, BacklogChange, TotalJobs, LatencyRule
<1>2. /\ Group(a, A) /\ Readers(a, {BacklogChange})
      /\ InOrder(a, BacklogRule, BacklogChange)
  <2>1. /\ Len(a) = 3 /\ a \in Seq(Elements(a)) /\ a[1] = BacklogRule /\ a[3] = BacklogChange
        /\ a[2] = Rule(<<"expire_job_manager_queue_length", "max">>,
                       MaxBy(TargetGrouping \cup {"queue_id"},
                             OfActive("expire_job_manager_queue_length")))
    BY DEF Elements
  <2> HIDE DEF a, b
  <2>2. /\ a[1].record = TotalJobs /\ a[1].reads = Samples /\ Vector(a[1].vector)
        /\ a[2].record = <<"expire_job_manager_queue_length", "max">> /\ a[2].reads = Samples
        /\ Vector(a[2].vector)
        /\ a[3].record = <<"expire_job_manager_backlog", "net_change_per_second5m">>
        /\ Vector(a[3].vector)
    BY <2>1, AggregationsAreVectors, EmptyVector DEF BacklogRule, BacklogChange, Rule, Reading
  <2>3. Len(a) = 3 /\ a \in Seq(Elements(a))
    BY <2>1
  <2>4. Group(a, A)
    BY <2>2, <2>3 DEF Group, TotalJobs
  <2>5. Readers(a, {BacklogChange}) /\ InOrder(a, BacklogRule, BacklogChange)
    BY <2>1, <2>2 DEF Readers, InOrder
  <2> QED
    BY <2>4, <2>5
<1>3. Group(b, B) /\ Readers(b, {}) /\ Has(b, LatencyRule)
  <2>1. /\ Len(b) = 9 /\ b \in Seq(Elements(b))
        /\ b[1] = TargetAverage("expire_lease_expiration_time_in_queue",
                                "expire_lease_expiration_time_in_queue")
        /\ b[2] = TargetAverage("raft_storage_put", "raft_storage_put")
        /\ b[3] = TargetAverage("raft_storage_delete", "raft_storage_delete")
        /\ b[4] = TargetAverage("raft_commit_time", "raft_commitTime")
        /\ b[5] = TargetAverage("raft_fsm_apply_batch", "raft_fsm_applyBatch")
        /\ b[6] = TargetAverage("raft_fsm_apply_batch_logs", "raft_fsm_applyBatchNum")
        /\ b[7] = LatencyRule
        /\ b[8] = TargetAverage("core_handle_login_request_by_target", "core_handle_login_request")
        /\ b[9] = Rule(<<"raft_thread_fsm_saturation", "ratio5m">>,
                       TargetSummaryAverage("raft_thread_fsm_saturation"))
    BY DEF Elements
  <2> HIDE DEF a, b
  <2>2. \A i \in 1 .. 9 : Vector(b[i].vector) /\ b[i].reads = Samples
    BY <2>1, ComposedAreVectors DEF Rule, TargetAverage, LatencyRule
  <2>3. /\ b[1].record = <<"expire_lease_expiration_time_in_queue", "avg5m">>
        /\ b[2].record = <<"raft_storage_put", "avg5m">>
        /\ b[3].record = <<"raft_storage_delete", "avg5m">>
        /\ b[4].record = <<"raft_commit_time", "avg5m">>
        /\ b[5].record = <<"raft_fsm_apply_batch", "avg5m">>
        /\ b[6].record = <<"raft_fsm_apply_batch_logs", "avg5m">>
        /\ b[7].record = <<"core_handle_request_by_target", "avg5m">>
        /\ b[8].record = <<"core_handle_login_request_by_target", "avg5m">>
        /\ b[9].record = <<"raft_thread_fsm_saturation", "ratio5m">>
    BY <2>1 DEF Rule, TargetAverage, LatencyRule
  <2>4. Len(b) = 9 /\ b \in Seq(Elements(b)) /\ b[7] = LatencyRule
    BY <2>1
  <2>5. Group(b, B)
    BY <2>2, <2>3, <2>4 DEF Group
  <2> QED
    BY <2>2, <2>4, <2>5 DEF Readers, Has
<1>4. A \cap B = {} /\ A \cup B = StoragePressureIds
  BY DEF StoragePressureIds
<1> HIDE DEF a, b, A, B
<1>5. {BacklogChange} \cup {} = {BacklogChange}
  OBVIOUS
<1> QED
  BY <1>1, <1>2, <1>3, <1>4, <1>5, GroupsConcatenate, ConcatenationKeeps

LEMMA ListsConcatenate ==
    ASSUME NEW E, NEW p \in Seq(E), NEW q \in Seq(E)
    PROVE  /\ p \o q \in Seq(E) /\ Len(p \o q) = Len(p) + Len(q)
           /\ \A i \in 1 .. Len(q) : (p \o q)[Len(p) + i] = q[i]
OBVIOUS

LEMMA NamedRules ==
    /\ Has(CacheRules, HitRatioRule) /\ Has(SecretRules, MountsRule) /\ Has(RaftRules, ApplyGapRule)
<1>1. Has(CacheRules, HitRatioRule)
  <2>1. Len(CacheRules) = 4 /\ CacheRules[4] = HitRatioRule
    BY DEF CacheRules, HitRatioRule
  <2> QED
    BY <2>1 DEF Has
<1>2. Has(SecretRules, MountsRule)
  <2>1. Len(SecretRules) = 5 /\ SecretRules[4] = MountsRule
    BY DEF SecretRules, MountsRule
  <2> QED
    BY <2>1 DEF Has
<1>3. Has(RaftRules, ApplyGapRule)
  <2> DEFINE a == <<Rule(<<"raft_peers", "max">>, RaftPeerCount)>>
             b == <<"autopilot_healthy", "autopilot_failure_tolerance">>
             g == [i \in DOMAIN b |-> Rule(<<b[i], "max">>, ClusterMax(b[i]))]
             c == <<Rule(<<"autopilot_node_healthy", "min">>,
                         MinBy(TargetGrouping \cup {"node_id"}, Now("autopilot_node_healthy"))),
                    Rule(<<"raft_storage_commit_index", "max">>,
                         RaftStorageMax("raft_storage_stats_commit_index")),
                    Rule(<<"raft_storage_applied_index", "max">>,
                         RaftStorageMax("raft_storage_stats_applied_index")),
                    ApplyGapRule,
                    Rule(<<"raft_storage_fsm_pending", "max">>,
                         RaftStorageMax("raft_storage_stats_fsm_pending"))>>
  <2>1. RaftRules = (a \o g) \o c
    BY DEF RaftRules, ApplyGapRule, ClusterGauges
  <2>2. /\ Len(a) = 1 /\ a \in Seq(Elements(a)) /\ Len(c) = 5 /\ c \in Seq(Elements(c))
        /\ c[4] = ApplyGapRule
    BY DEF Elements
  <2>3. Len(g) = 2 /\ g \in Seq(Elements(g))
    <3>1. g = [i \in 1 .. 2 |-> g[i]]
      OBVIOUS
    <3> HIDE DEF g
    <3> QED
      BY <3>1, ListOfElements
  <2> HIDE DEF a, g, c
  <2>4. Len((a \o g) \o c) = 8 /\ ((a \o g) \o c)[7] = c[4]
    <3> DEFINE E == Elements(a) \cup Elements(g) \cup Elements(c)
    <3>1. a \in Seq(E) /\ g \in Seq(E) /\ c \in Seq(E)
      BY <2>2, <2>3
    <3>2. Len(a) = 1 /\ Len(g) = 2 /\ Len(c) = 5
      BY <2>2, <2>3
    <3> HIDE DEF E
    <3>3. a \o g \in Seq(E) /\ Len(a \o g) = 3
      <4>1. a \o g \in Seq(E) /\ Len(a \o g) = Len(a) + Len(g)
        BY <3>1, ListsConcatenate, Zenon
      <4> QED
        BY <3>2, <4>1
    <3>4. ASSUME NEW h \in Seq(E), Len(h) = 3 PROVE Len(h \o c) = 8 /\ (h \o c)[7] = c[4]
      <4>1. Len(h \o c) = 3 + 5 /\ \A i \in 1 .. 5 : (h \o c)[3 + i] = c[i]
        <5>1. Len(h \o c) = Len(h) + Len(c) /\ \A i \in 1 .. Len(c) : (h \o c)[Len(h) + i] = c[i]
          BY <3>1, ListsConcatenate, Zenon
        <5> QED
          BY <3>2, <3>4, <5>1
      <4>2. 4 \in 1 .. 5 /\ 3 + 4 = 7 /\ 3 + 5 = 8
        OBVIOUS
      <4> QED
        BY <4>1, <4>2
    <3> QED
      BY <3>3, <3>4
  <2> QED
    BY <2>1, <2>2, <2>4 DEF Has
<1> QED
  BY <1>1, <1>2, <1>3

LEMMA Appending ==
    ASSUME NEW p, NEW q, NEW A, NEW B,
           Group(p, A), Readers(p, {UnsealedCount}), InOrder(p, UnsealedRule, UnsealedCount),
           Group(q, B), Plainly(q), A \cap B = {}
    PROVE  /\ Group(p \o q, A \cup B) /\ Readers(p \o q, {UnsealedCount})
           /\ InOrder(p \o q, UnsealedRule, UnsealedCount)
           /\ \A r : Has(p, r) \/ Has(q, r) => Has(p \o q, r)
<1>1. Readers(p \o q, {UnsealedCount} \cup {})
  BY PlainlyReadsNone, ConcatenationKeeps
<1>2. {UnsealedCount} \cup {} = {UnsealedCount}
  OBVIOUS
<1> QED
  BY <1>1, <1>2, GroupsConcatenate, ConcatenationKeeps

(* All rules write different records; two of them read records, each one of a
   rule that comes before it in the group. *)
LEMMA WholeGroup ==
    /\ \E ids : Group(RecordingGroup, ids)
    /\ Readers(RecordingGroup, {UnsealedCount, BacklogChange})
    /\ InOrder(RecordingGroup, UnsealedRule, UnsealedCount)
    /\ InOrder(RecordingGroup, BacklogRule, BacklogChange)
    /\ \A r \in {LatencyRule, HitRatioRule, MountsRule, ApplyGapRule} : Has(RecordingGroup, r)
<1> DEFINE q1 == CoreRules
           q2 == q1 \o MountTableRules
           q3 == q2 \o RaftRules
           q4 == q3 \o AuditRules
           q5 == q4 \o LeaseRules
           q6 == q5 \o TokenRules
           q7 == q6 \o RuntimeRules
           q8 == q7 \o BarrierRules
           q9 == q8 \o CacheRules
           q10 == q9 \o SecretRules
           q11 == q10 \o RouteRules
           q12 == q11 \o PKIRules
           q13 == q12 \o DatabaseRules
           q14 == q13 \o DatabaseErrorRules
           I1 == CoreIds
           I2 == I1 \cup MountTableIds
           I3 == I2 \cup RaftIds
           I4 == I3 \cup AuditIds
           I5 == I4 \cup LeaseIds
           I6 == I5 \cup TokenIds
           I7 == I6 \cup RuntimeIds
           I8 == I7 \cup BarrierIds
           I9 == I8 \cup CacheIds
           I10 == I9 \cup SecretIds
           I11 == I10 \cup RouteIds
           I12 == I11 \cup PKIIds
           I13 == I12 \cup DatabaseIds
           I14 == I13 \cup DatabaseErrorIds
<1>1. RecordingGroup = q14 \o StoragePressureRules
  BY DEF RecordingGroup
<1>2. /\ I1 \cap MountTableIds = {}
      /\ I2 \cap RaftIds = {}
      /\ I3 \cap AuditIds = {}
      /\ I4 \cap LeaseIds = {}
      /\ I5 \cap TokenIds = {}
      /\ I6 \cap RuntimeIds = {}
      /\ I7 \cap BarrierIds = {}
      /\ I8 \cap CacheIds = {}
      /\ I9 \cap SecretIds = {}
      /\ I10 \cap RouteIds = {}
      /\ I11 \cap PKIIds = {}
      /\ I12 \cap DatabaseIds = {}
      /\ I13 \cap DatabaseErrorIds = {}
      /\ I14 \cap StoragePressureIds = {}
  BY DEF CoreIds, MountTableIds, RaftIds, AuditIds, LeaseIds, TokenIds, RuntimeIds,
         BarrierIds, CacheIds, SecretIds, RouteIds, PKIIds, DatabaseIds, DatabaseErrorIds, StoragePressureIds
<1>3. /\ Group(q1, I1) /\ Readers(q1, {UnsealedCount})
      /\ InOrder(q1, UnsealedRule, UnsealedCount)
  BY CoreGroup
<1> HIDE DEF q1, I1
<1>4. /\ Group(q2, I2) /\ Readers(q2, {UnsealedCount})
      /\ InOrder(q2, UnsealedRule, UnsealedCount)
  BY <1>2, <1>3, MountTableGroup, Appending
<1> HIDE DEF q2, I2
<1>5. /\ Group(q3, I3) /\ Readers(q3, {UnsealedCount})
      /\ InOrder(q3, UnsealedRule, UnsealedCount)
      /\ Has(q3, ApplyGapRule)
  BY <1>2, <1>4, RaftGroup, Appending, NamedRules
<1> HIDE DEF q3, I3
<1>6. /\ Group(q4, I4) /\ Readers(q4, {UnsealedCount})
      /\ InOrder(q4, UnsealedRule, UnsealedCount)
      /\ Has(q4, ApplyGapRule)
  BY <1>2, <1>5, AuditGroup, Appending
<1> HIDE DEF q4, I4
<1>7. /\ Group(q5, I5) /\ Readers(q5, {UnsealedCount})
      /\ InOrder(q5, UnsealedRule, UnsealedCount)
      /\ Has(q5, ApplyGapRule)
  BY <1>2, <1>6, LeaseGroup, Appending
<1> HIDE DEF q5, I5
<1>8. /\ Group(q6, I6) /\ Readers(q6, {UnsealedCount})
      /\ InOrder(q6, UnsealedRule, UnsealedCount)
      /\ Has(q6, ApplyGapRule)
  BY <1>2, <1>7, TokenGroup, Appending
<1> HIDE DEF q6, I6
<1>9. /\ Group(q7, I7) /\ Readers(q7, {UnsealedCount})
      /\ InOrder(q7, UnsealedRule, UnsealedCount)
      /\ Has(q7, ApplyGapRule)
  BY <1>2, <1>8, RuntimeGroup, Appending
<1> HIDE DEF q7, I7
<1>10. /\ Group(q8, I8) /\ Readers(q8, {UnsealedCount})
      /\ InOrder(q8, UnsealedRule, UnsealedCount)
      /\ Has(q8, ApplyGapRule)
  BY <1>2, <1>9, BarrierGroup, Appending
<1> HIDE DEF q8, I8
<1>11. /\ Group(q9, I9) /\ Readers(q9, {UnsealedCount})
      /\ InOrder(q9, UnsealedRule, UnsealedCount)
      /\ Has(q9, ApplyGapRule) /\ Has(q9, HitRatioRule)
  BY <1>2, <1>10, CacheGroup, Appending, NamedRules
<1> HIDE DEF q9, I9
<1>12. /\ Group(q10, I10) /\ Readers(q10, {UnsealedCount})
      /\ InOrder(q10, UnsealedRule, UnsealedCount)
      /\ Has(q10, ApplyGapRule) /\ Has(q10, HitRatioRule) /\ Has(q10, MountsRule)
  BY <1>2, <1>11, SecretGroup, Appending, NamedRules
<1> HIDE DEF q10, I10
<1>13. /\ Group(q11, I11) /\ Readers(q11, {UnsealedCount})
      /\ InOrder(q11, UnsealedRule, UnsealedCount)
      /\ Has(q11, ApplyGapRule) /\ Has(q11, HitRatioRule) /\ Has(q11, MountsRule)
  BY <1>2, <1>12, RouteGroup, Appending
<1> HIDE DEF q11, I11
<1>14. /\ Group(q12, I12) /\ Readers(q12, {UnsealedCount})
      /\ InOrder(q12, UnsealedRule, UnsealedCount)
      /\ Has(q12, ApplyGapRule) /\ Has(q12, HitRatioRule) /\ Has(q12, MountsRule)
  BY <1>2, <1>13, PKIGroup, Appending
<1> HIDE DEF q12, I12
<1>15. /\ Group(q13, I13) /\ Readers(q13, {UnsealedCount})
      /\ InOrder(q13, UnsealedRule, UnsealedCount)
      /\ Has(q13, ApplyGapRule) /\ Has(q13, HitRatioRule) /\ Has(q13, MountsRule)
  BY <1>2, <1>14, DatabaseGroup, Appending
<1> HIDE DEF q13, I13
<1>16. /\ Group(q14, I14) /\ Readers(q14, {UnsealedCount})
      /\ InOrder(q14, UnsealedRule, UnsealedCount)
      /\ Has(q14, ApplyGapRule) /\ Has(q14, HitRatioRule) /\ Has(q14, MountsRule)
  BY <1>2, <1>15, DatabaseErrorGroup, Appending
<1> HIDE DEF q14, I14
<1> DEFINE q == q14 \o StoragePressureRules
<1>17. /\ Group(q, I14 \cup StoragePressureIds)
       /\ InOrder(q, UnsealedRule, UnsealedCount) /\ InOrder(q, BacklogRule, BacklogChange)
       /\ Has(q, ApplyGapRule) /\ Has(q, HitRatioRule) /\ Has(q, MountsRule) /\ Has(q, LatencyRule)
  BY <1>2, <1>16, StoragePressureGroup, GroupsConcatenate, ConcatenationKeeps
<1>18. Readers(q, {UnsealedCount} \cup {BacklogChange})
  BY <1>2, <1>16, StoragePressureGroup, ConcatenationKeeps
<1>19. {UnsealedCount} \cup {BacklogChange} = {UnsealedCount, BacklogChange}
  OBVIOUS
<1> HIDE DEF q
<1> QED
  BY <1>1, <1>17, <1>18, <1>19 DEF q

(* What one evaluation records. *)

Sampled(record, V) == {[record |-> record, labels |-> s.labels, value |-> s.value] : s \in V}
Written == UNION {Sampled(RecordingGroup[i].record,
                          RecordingGroup[i].vector) : i \in DOMAIN RecordingGroup}
CountedNow == SumBy(ClusterGrouping, Recorded(UnsealedMin, Written))
ChangeNow == MaxBy(TargetGrouping, Deriv(Aged(recent, Recorded(TotalJobs, Written))))
Result(r) ==
    IF r = UnsealedCount THEN CountedNow ELSE IF r = BacklogChange THEN ChangeNow ELSE r.vector

LEMMA SampledOfUnion ==
    \A n, V, W : /\ Sampled(n, {}) = {}
                 /\ Sampled(n, V \cup W) = Sampled(n, V) \cup Sampled(n, W)
BY DEF Sampled

\* Both rules that read records read those of this round.
LEMMA EvaluationOrder ==
    Evaluated = Written \cup Sampled(UnsealedCount.record, CountedNow)
                      \cup Sampled(BacklogChange.record, ChangeNow)
<1> DEFINE group == RecordingGroup
           Write(i, V) == {[record |-> group[i].record, labels |-> s.labels,
                            value |-> s.value] : s \in V}
           written == UNION {Write(i, group[i].vector) : i \in DOMAIN group}
           First(i) == \E j \in 1..(i - 1) : group[j].record = group[i].reads
           Seen(i) == Recorded(group[i].reads, IF First(i) THEN written ELSE records)
           InRange(i) == Aged(recent, IF First(i) THEN Recorded(group[i].reads, written) ELSE {})
           Derived(i) ==
               IF group[i].reads = <<"core_unsealed", "min">> THEN SumBy(ClusterGrouping, Seen(i))
               ELSE MaxBy(TargetGrouping, Deriv(InRange(i)))
           readers == {i \in DOMAIN group : group[i].reads # Samples}
<1>1. Evaluated = written \cup UNION {Write(i, Derived(i)) : i \in readers}
  BY DEF Evaluated
<1>2. written = Written
  BY DEF Written, Sampled
<1>3. \A i, V : Write(i, V) = Sampled(group[i].record, V)
  BY DEF Sampled
<1> HIDE DEF written, Write
<1>4. PICK a \in 1 .. Len(group), b \in 1 .. Len(group) :
          a < b /\ group[a] = UnsealedRule /\ group[b] = UnsealedCount
  BY WholeGroup DEF InOrder
<1>5. PICK c \in 1 .. Len(group), d \in 1 .. Len(group) :
          c < d /\ group[c] = BacklogRule /\ group[d] = BacklogChange
  BY WholeGroup DEF InOrder
<1>6. /\ UnsealedRule.record = UnsealedMin /\ UnsealedCount.reads = UnsealedMin
      /\ BacklogRule.record = TotalJobs /\ BacklogChange.reads = TotalJobs
      /\ UnsealedMin # Samples /\ TotalJobs # Samples /\ TotalJobs # UnsealedMin
      /\ UnsealedMin = <<"core_unsealed", "min">>
  BY DEF UnsealedRule, UnsealedCount, BacklogRule, BacklogChange, Rule, Reading, UnsealedMin, TotalJobs, Samples
<1>7. /\ DOMAIN group = 1 .. Len(group) /\ Len(group) \in Nat
      /\ \A i, j \in 1 .. Len(group) : group[i].record = group[j].record => i = j
  BY WholeGroup DEF Group
<1>8. readers = {b, d}
  <2>1. \A i \in 1 .. Len(group) : group[i].reads # Samples => group[i] = UnsealedCount \/ group[i] = BacklogChange
    BY WholeGroup DEF Readers
  <2>2. b \in readers /\ d \in readers
    BY <1>4, <1>5, <1>6, <1>7
  <2>3. \A i \in readers : i = b \/ i = d
    BY <1>4, <1>5, <1>7, <2>1
  <2> QED
    BY <2>2, <2>3
<1>9. Derived(b) = CountedNow
  <2>1. First(b)
    <3>1. a \in 1 .. (b - 1)
      BY <1>4, <1>7
    <3> QED
      BY <3>1, <1>4, <1>6
  <2> HIDE DEF First, group
  <2> QED
    BY <2>1, <1>2, <1>4, <1>6 DEF CountedNow
<1>10. Derived(d) = ChangeNow
  <2>1. First(d)
    <3>1. c \in 1 .. (d - 1)
      BY <1>5, <1>7
    <3> QED
      BY <3>1, <1>5, <1>6
  <2> HIDE DEF First, group
  <2> QED
    BY <2>1, <1>2, <1>5, <1>6 DEF ChangeNow
<1> HIDE DEF Derived, readers, group
<1>11. UNION {Write(i, Derived(i)) : i \in {b, d}} = Write(b, Derived(b)) \cup Write(d, Derived(d))
  OBVIOUS
<1> QED
  BY <1>1, <1>2, <1>3, <1>4, <1>5, <1>8, <1>9, <1>10, <1>11

LEMMA EvaluatedByRule ==
    /\ Evaluated = UNION {Sampled(RecordingGroup[i].record, Result(RecordingGroup[i])) :
                             i \in 1 .. Len(RecordingGroup)}
    /\ \A i \in 1 .. Len(RecordingGroup) : Vector(Result(RecordingGroup[i]))
<1> DEFINE q == RecordingGroup
<1>1. /\ DOMAIN q = 1 .. Len(q) /\ \A i \in 1 .. Len(q) : Vector(q[i].vector)
  BY WholeGroup DEF Group
<1>2. PICK b \in 1 .. Len(q), d \in 1 .. Len(q) : q[b] = UnsealedCount /\ q[d] = BacklogChange
  BY WholeGroup DEF InOrder
<1>3. /\ UnsealedCount.vector = {} /\ BacklogChange.vector = {} /\ UnsealedCount # BacklogChange
  BY DEF UnsealedCount, BacklogChange, Reading
<1>4. Vector(CountedNow) /\ Vector(ChangeNow)
  BY AggregationsAreVectors DEF CountedNow, ChangeNow
<1>5. \A i \in 1 .. Len(q) : Vector(Result(q[i]))
  BY <1>1, <1>4 DEF Result
<1>6. /\ Result(UnsealedCount) = CountedNow /\ Result(BacklogChange) = ChangeNow
      /\ \A i \in 1 .. Len(q) : q[i] # UnsealedCount /\ q[i] # BacklogChange => Result(q[i]) = q[i].vector
  BY <1>3 DEF Result
<1> DEFINE new == UNION {Sampled(q[i].record, Result(q[i])) : i \in 1 .. Len(q)}
<1>7. Written = UNION {Sampled(q[i].record, q[i].vector) : i \in 1 .. Len(q)}
  BY <1>1 DEF Written
<1> HIDE DEF q
<1>8. Evaluated \subseteq new
  <2> SUFFICES ASSUME NEW e \in Evaluated PROVE e \in new
    OBVIOUS
  <2>1. CASE e \in Written
    <3>1. PICK i \in 1 .. Len(q) : e \in Sampled(q[i].record, q[i].vector)
      BY <2>1, <1>7
    <3>2. q[i].vector # {}
      BY <3>1, SampledOfUnion
    <3>3. Result(q[i]) = q[i].vector
      BY <3>2, <1>3, <1>6
    <3> QED
      BY <3>1, <3>3
  <2>2. CASE e \in Sampled(UnsealedCount.record, CountedNow)
    <3>1. e \in Sampled(q[b].record, Result(q[b]))
      BY <2>2, <1>2, <1>6
    <3> QED
      BY <3>1
  <2>3. CASE e \in Sampled(BacklogChange.record, ChangeNow)
    <3>1. e \in Sampled(q[d].record, Result(q[d]))
      BY <2>3, <1>2, <1>6
    <3> QED
      BY <3>1
  <2> QED
    BY <2>1, <2>2, <2>3, EvaluationOrder
<1>9. new \subseteq Evaluated
  <2> SUFFICES ASSUME NEW i \in 1 .. Len(q), NEW e \in Sampled(q[i].record,
                                                               Result(q[i])) PROVE e \in Evaluated
    OBVIOUS
  <2>1. CASE q[i] = UnsealedCount
    BY <2>1, <1>6, EvaluationOrder
  <2>2. CASE q[i] = BacklogChange
    BY <2>2, <1>6, EvaluationOrder
  <2>3. CASE q[i] # UnsealedCount /\ q[i] # BacklogChange
    BY <2>3, <1>6, <1>7, EvaluationOrder
  <2> QED
    BY <2>1, <2>2, <2>3
<1>10. Evaluated = new
  BY <1>8, <1>9
<1> QED
  BY <1>5, <1>10 DEF q

LEMMA RecordsOfRule ==
    ASSUME NEW i \in 1 .. Len(RecordingGroup)
    PROVE  Recorded(RecordingGroup[i].record, Evaluated) = Result(RecordingGroup[i])
<1> DEFINE q == RecordingGroup
           R(j) == Sampled(q[j].record, Result(q[j]))
<1>1. Evaluated = UNION {R(j) : j \in 1 .. Len(q)} /\ Vector(Result(q[i]))
  BY EvaluatedByRule
<1>2. \A j \in 1 .. Len(q) : q[j].record = q[i].record => j = i
  BY WholeGroup DEF Group
<1>3. \A j, e : e \in R(j) => e.record = q[j].record
  BY DEF Sampled
<1>4. {e \in Evaluated : e.record = q[i].record} = R(i)
  <2> HIDE DEF R, q
  <2>1. ASSUME NEW e \in Evaluated, e.record = q[i].record PROVE e \in R(i)
    <3>1. PICK j \in 1 .. Len(q) : e \in R(j)
      BY <1>1
    <3>2. j = i
      BY <1>2, <1>3, <2>1, <3>1
    <3> QED
      BY <3>1, <3>2
  <2>2. ASSUME NEW e \in R(i) PROVE e \in Evaluated /\ e.record = q[i].record
    BY <1>1, <1>3, <2>2 DEF q
  <2> QED
    BY <2>1, <2>2
<1>5. Recorded(q[i].record, Evaluated) = {[labels |-> e.labels, value |-> e.value] : e \in R(i)}
  <2> HIDE DEF R, q
  <2> QED
    BY <1>4 DEF Recorded
<1>6. \A e \in R(i) : \E s \in Result(q[i]) : e.labels = s.labels /\ e.value = s.value
  BY DEF Sampled
<1>7. ASSUME NEW s \in Result(q[i])
      PROVE  \E e \in R(i) : e.labels = s.labels /\ e.value = s.value
  <2> DEFINE e == [record |-> q[i].record, labels |-> s.labels, value |-> s.value]
  <2>1. e \in R(i) /\ e.labels = s.labels /\ e.value = s.value
    BY DEF Sampled
  <2> QED
    BY <2>1
<1> HIDE DEF R, q
<1>8. {[labels |-> e.labels, value |-> e.value] : e \in R(i)} = Result(q[i])
  BY <1>1, <1>6, <1>7 DEF Vector
<1> QED
  BY <1>5, <1>8 DEF q

\* A rule over samples records what its expression yields.
LEMMA RecordsOfSampleRule ==
    ASSUME NEW n, NEW V, Has(RecordingGroup, Rule(n, V))
    PROVE  Recorded(n, Evaluated) = V
<1>1. PICK i \in 1 .. Len(RecordingGroup) : RecordingGroup[i] = Rule(n, V)
  BY DEF Has
<1>2. Rule(n, V).reads = Samples /\ UnsealedCount.reads # Samples /\ BacklogChange.reads # Samples
  BY DEF Rule, UnsealedCount, BacklogChange, Reading, UnsealedMin, TotalJobs, Samples
<1>3. Result(RecordingGroup[i]) = V /\ RecordingGroup[i].record = n
  BY <1>1, <1>2 DEF Result, Rule
<1> QED
  BY <1>3, RecordsOfRule

LEMMA RecordsOfReaders ==
    /\ Recorded(UnsealedMin, Evaluated) = UnsealedState
    /\ Recorded(TotalJobs, Evaluated) = BacklogRule.vector
    /\ Recorded(UnsealedCount.record, Evaluated) = SumBy(ClusterGrouping, UnsealedState)
    /\ Recorded(BacklogChange.record, Evaluated) =
         MaxBy(TargetGrouping, Deriv(Aged(recent, BacklogRule.vector)))
<1>1. /\ Has(RecordingGroup, UnsealedRule) /\ Has(RecordingGroup, BacklogRule)
      /\ Has(RecordingGroup, UnsealedCount) /\ Has(RecordingGroup, BacklogChange)
  BY WholeGroup DEF Has, InOrder
<1>2. /\ Recorded(UnsealedMin, Evaluated) = UnsealedState
      /\ Recorded(TotalJobs, Evaluated) = BacklogRule.vector
  BY <1>1, RecordsOfSampleRule DEF UnsealedRule, BacklogRule, Rule
<1>3. /\ Recorded(UnsealedCount.record, Evaluated) = CountedNow
      /\ Recorded(BacklogChange.record, Evaluated) = ChangeNow
  <2>1. UnsealedCount # BacklogChange
    BY DEF UnsealedCount, BacklogChange, Reading
  <2> QED
    BY <1>1, <2>1, RecordsOfRule DEF Has, Result
<1>4. \A n \in {UnsealedMin, TotalJobs} : Recorded(n, Written) = Recorded(n, Evaluated)
  <2>1. /\ \A e \in Sampled(UnsealedCount.record,
                            CountedNow) : e.record \notin {UnsealedMin, TotalJobs}
        /\ \A e \in Sampled(BacklogChange.record, ChangeNow) : e.record \notin {UnsealedMin,
                                                                                TotalJobs}
    BY DEF Sampled, UnsealedCount, BacklogChange, Reading, UnsealedMin, TotalJobs
  <2>2. \A n \in {UnsealedMin, TotalJobs} :
            {e \in Evaluated : e.record = n} = {e \in Written : e.record = n}
    BY <2>1, EvaluationOrder
  <2> QED
    BY <2>2 DEF Recorded
<1> QED
  BY <1>2, <1>3, <1>4 DEF CountedNow, ChangeNow

\* One sample for each series.
LEMMA EvaluatedSeries ==
    /\ \A e \in Evaluated : e = [record |-> e.record, labels |-> e.labels, value |-> e.value]
    /\ \A e, f \in Evaluated : e.record = f.record /\ e.labels = f.labels => e = f
<1> DEFINE q == RecordingGroup
           R(j) == Sampled(q[j].record, Result(q[j]))
<1>1. Evaluated = UNION {R(j) : j \in 1 .. Len(q)} /\ \A j \in 1 .. Len(q) : Vector(Result(q[j]))
  BY EvaluatedByRule
<1>2. \A i, j \in 1 .. Len(q) : q[j].record = q[i].record => j = i
  BY WholeGroup DEF Group
<1>3. \A j : \A e \in R(j) : /\ e = [record |-> e.record, labels |-> e.labels, value |-> e.value]
                             /\ e.record = q[j].record
  BY DEF Sampled
<1>4. \A j \in 1 .. Len(q) : \A e, f \in R(j) : e.labels = f.labels => e = f
  BY <1>1 DEF Sampled, Vector
<1> HIDE DEF R, q
<1>5. ASSUME NEW e \in Evaluated, NEW f \in Evaluated, e.record = f.record, e.labels = f.labels
      PROVE  e = f
  <2>1. PICK i \in 1 .. Len(q) : e \in R(i)
    BY <1>1
  <2>2. PICK j \in 1 .. Len(q) : f \in R(j)
    BY <1>1
  <2>3. i = j
    BY <1>2, <1>3, <1>5, <2>1, <2>2
  <2> QED
    BY <1>4, <1>5, <2>1, <2>2, <2>3
<1> QED
  BY <1>1, <1>3, <1>5

------------------------------------------------------------------------------
(* What is on record between an evaluation and the next scrape. *)

RoundInv ==
    current =>
        /\ \A r \in records : r = [record |-> r.record, labels |-> r.labels, value |-> r.value]
        /\ \A r, s \in records : r.record = s.record /\ r.labels = s.labels => r = s
        /\ Recorded(UnsealedMin, records) = UnsealedState
        /\ Recorded(UnsealedSum, records) = SumBy(ClusterGrouping, UnsealedState)
        /\ Recorded(TotalJobs, records) = BacklogRule.vector
        /\ Recorded(LatencyName, records) = TargetSummaryAverage("core_handle_request")
        /\ Recorded(HitRatioName, records) = CacheHitRatio
        /\ Recorded(MountsName, records) = SecretKVCount
        /\ Recorded(ApplyGapName, records) = RaftStorageApplyGap

LEMMA EvaluatedRound ==
    /\ Recorded(LatencyName, Evaluated) = TargetSummaryAverage("core_handle_request")
    /\ Recorded(HitRatioName, Evaluated) = CacheHitRatio
    /\ Recorded(MountsName, Evaluated) = SecretKVCount
    /\ Recorded(ApplyGapName, Evaluated) = RaftStorageApplyGap
<1>1. Has(RecordingGroup, LatencyRule) /\ Has(RecordingGroup, HitRatioRule)
  BY WholeGroup
<1>2. Has(RecordingGroup, MountsRule) /\ Has(RecordingGroup, ApplyGapRule)
  BY WholeGroup
<1>3. \A n, V : Rule(n, V).record = n
  BY DEF Rule
<1>4. Recorded(LatencyName, Evaluated) = TargetSummaryAverage("core_handle_request")
  BY <1>1, <1>3, RecordsOfSampleRule DEF LatencyRule, TargetAverage, LatencyName
<1>5. Recorded(HitRatioName, Evaluated) = CacheHitRatio
  BY <1>1, <1>3, RecordsOfSampleRule DEF HitRatioRule, HitRatioName
<1>6. Recorded(MountsName, Evaluated) = SecretKVCount
  BY <1>2, <1>3, RecordsOfSampleRule DEF MountsRule, MountsName
<1>7. Recorded(ApplyGapName, Evaluated) = RaftStorageApplyGap
  BY <1>2, <1>3, RecordsOfSampleRule DEF ApplyGapRule, ApplyGapName
<1> QED
  BY <1>4, <1>5, <1>6, <1>7

\* The expressions look at the samples only.
LEMMA SameSamples ==
    ASSUME now' = now, before' = before
    PROVE  /\ UnsealedState' = UnsealedState /\ BacklogRule' = BacklogRule
           /\ TargetSummaryAverage("core_handle_request")' = TargetSummaryAverage("core_handle_request")
           /\ CacheHitRatio' = CacheHitRatio /\ SecretKVCount' = SecretKVCount
           /\ RaftStorageApplyGap' = RaftStorageApplyGap
<1>1. /\ \A m : Now(m)' = Now(m) /\ Before(m)' = Before(m)
      /\ \A m, p : IncreaseOf(m, p)' = IncreaseOf(m, p)
  BY DEF Now, Before, IncreaseOf, Selected
<1>2. \A m : /\ ClusterIncrease(m)' = ClusterIncrease(m) /\ MaxOverTime(m)' = MaxOverTime(m)
             /\ OfActive(m)' = OfActive(m)
  BY <1>1 DEF ClusterIncrease, Increase, MaxOverTime, OfActive, Active
<1>3. UnsealedState' = UnsealedState
  BY <1>1 DEF UnsealedState, FromSource
<1>4. BacklogRule' = BacklogRule
  BY <1>2 DEF BacklogRule
<1>5. TargetSummaryAverage("core_handle_request")' = TargetSummaryAverage("core_handle_request")
  BY <1>1 DEF TargetSummaryAverage
<1>6. CacheHitRatio' = CacheHitRatio
  BY <1>2 DEF CacheHitRatio
<1>7. SecretKVCount' = SecretKVCount
  BY <1>2 DEF SecretKVCount
<1>8. RaftStorageApplyGap' = RaftStorageApplyGap
  BY <1>1 DEF RaftStorageApplyGap
<1> QED
  BY <1>3, <1>4, <1>5, <1>6, <1>7, <1>8

LEMMA RoundStep == RoundInv /\ [Next]_vars => RoundInv'
<1> SUFFICES ASSUME RoundInv, [Next]_vars PROVE RoundInv'
  OBVIOUS
<1>1. CASE Evaluate
  <2>1. records' = Evaluated /\ now' = now /\ before' = before
    BY <1>1 DEF Evaluate
  <2>2. UnsealedCount.record = UnsealedSum
    BY DEF UnsealedCount, Reading, UnsealedSum
  <2> QED
    BY <2>1, <2>2, SameSamples, EvaluatedRound, EvaluatedSeries, RecordsOfReaders DEF RoundInv
<1>2. CASE \E t \in Targets : Scrape(t)
  BY <1>2 DEF Scrape, RoundInv
<1>3. CASE UNCHANGED vars
  BY <1>3, SameSamples DEF vars, RoundInv
<1> QED
  BY <1>1, <1>2, <1>3 DEF Next

\* Which samples of the metrics below the targets expose.
Typical(x) ==
    /\ x.metric = "core_unsealed" => SealSample(x)
    /\ x.metric = "expire_job_manager_total_jobs" =>
           /\ focus = "backlog" /\ x.value \in {3, 5} /\ DOMAIN x.labels = {}
    /\ x.metric \in {"core_active", "core_handle_request"} => DOMAIN x.labels = {}
    /\ x.metric = "secret_kv_count" => x \in {Mount("a", 1), Mount("a", 2), Mount("b", 1)}

LEMMA ExposedIsTypical ==
    ASSUME focus \in Focuses, NEW t \in Targets, NEW e \in Expositions(t), NEW x \in e
    PROVE  Typical(x)
<1>1. \A m, v : /\ Plain(m, v).metric = m /\ Plain(m, v).value = v
                /\ DOMAIN Plain(m, v).labels = {}
  BY DEF Plain, Sample
<1>2. CASE focus = "seal"
  <2>1. SealSample(x)
    BY <1>2, SealExposed DEF Expositions
  <2>2. x.metric = "core_unsealed"
    BY <2>1 DEF SealSample, Startup, Cluster, Plain, Sample
  <2> QED
    BY <2>1, <2>2 DEF Typical
<1>3. CASE focus = "backlog"
  <2>1. \/ \E a : x = Plain("core_active", a)
        \/ \E n \in {3, 5} : x = Plain("expire_job_manager_total_jobs", n)
    BY <1>3 DEF Expositions, BacklogExpositions
  <2>2. \/ x.metric = "core_active" /\ DOMAIN x.labels = {}
        \/ /\ x.metric = "expire_job_manager_total_jobs"
           /\ DOMAIN x.labels = {} /\ x.value \in {3, 5}
    BY <1>1, <2>1
  <2> QED
    BY <1>3, <2>2 DEF Typical
<1>4. CASE focus = "latency"
  <2>1. PICK v, w : e = Summary("core_handle_request", v, w)
    BY <1>4 DEF Expositions, LatencyExpositions
  <2>2. x.metric = "core_handle_request" /\ DOMAIN x.labels = {}
    BY <2>1 DEF Summary, Plain, Sample
  <2> QED
    BY <2>2 DEF Typical
<1>5. CASE focus = "cache"
  <2>1. \E m \in {"cache_hit", "cache_miss"} : \E n : x = Plain(m, n)
    BY <1>5 DEF Expositions, CacheExpositions
  <2> QED
    BY <1>1, <2>1 DEF Typical
<1>6. CASE focus = "mounts"
  <2>1. x \in {Mount("a", 1), Mount("a", 2), Mount("b", 1)}
    BY <1>6 DEF Expositions, MountExpositions
  <2>2. x.metric = "secret_kv_count"
    BY <2>1 DEF Mount, Sample
  <2> QED
    BY <2>1, <2>2 DEF Typical
<1>7. CASE focus = "raft"
  <2>1. e \in RaftExpositions(t)
    BY <1>7 DEF Expositions
  <2>2. PICK own \in Indexes(t), peers \in PeersGauge, nodes \in NodesHealthy(t) :
            e = own \cup peers \cup nodes
    BY <2>1 DEF RaftExpositions
  <2>3. \/ \E m \in {"raft_storage_stats_commit_index", "raft_storage_stats_applied_index"} :
              \E v : x = Index(t, m, v)
        \/ x = Plain("raft_peers", 2) \/ \E u : x = Healthy(u)
    BY <2>2 DEF Indexes, PeersGauge, NodesHealthy
  <2>4. x.metric \in {"raft_storage_stats_commit_index", "raft_storage_stats_applied_index",
                      "raft_peers",
                      "autopilot_node_healthy"}
    BY <2>3 DEF Index, Plain, Healthy, Sample
  <2> QED
    BY <2>4 DEF Typical
<1> QED
  BY <1>2, <1>3, <1>4, <1>5, <1>6, <1>7, RulesAssumption

\* Every sample on record is one some target exposed, with its labels added.
LEMMA SampleOrigin ==
    ASSUME focus \in Focuses, NEW v, Scraped(v), NEW s \in v
    PROVE  \E t \in Targets : \E e \in Expositions(t) : \E x \in e :
               /\ Of(t, v) = Attach(t, e) /\ s = Labelled(x, t)
               /\ IsOf(s, t) /\ Exposed(x) /\ Typical(x)
<1>1. PICK t \in Targets : IsOf(s, t)
  BY DEF Scraped
<1>2. s \in Of(t, v)
  BY <1>1 DEF Of, IsOf
<1>3. PICK e \in Expositions(t) : Of(t, v) = Attach(t, e)
  BY <1>2 DEF Scraped
<1>4. PICK x \in e : s = Labelled(x, t)
  BY <1>2, <1>3 DEF Attach, Labelled
<1>5. Exposed(x) /\ Typical(x)
  BY ExpositionsExposed, ExposedIsTypical
<1> QED
  BY <1>1, <1>3, <1>4, <1>5

LEMMA PlainIsLabelledByTarget ==
    ASSUME NEW t \in Targets, NEW x, Exposed(x), DOMAIN x.labels = {}
    PROVE  Labelled(x, t).labels = t
<1> DEFINE a == Labelled(x, t)
<1>1. DOMAIN a.labels = {"cluster", "instance"} /\ IsOf(a, t)
  BY LabelledIsOf
<1> HIDE DEF a
<1>2. a.labels = [l \in {"cluster", "instance"} |-> a.labels[l]]
  BY <1>1 DEF IsOf
<1>3. a.labels["cluster"] = t.cluster /\ a.labels["instance"] = t.instance
  BY <1>1 DEF IsOf
<1>4. a.labels = [l \in {"cluster", "instance"} |-> t[l]]
  BY <1>2, <1>3
<1> QED
  BY <1>4, TargetIsRecord DEF a

Integers(S) == S \subseteq Int

LEMMA FiniteHasGreatest ==
    ASSUME NEW S, IsFiniteSet(S), Integers(S), S # {}
    PROVE  Max(S) \in S /\ \A y \in S : Max(S) >= y
<1> DEFINE Greatest(s) == \E x \in s : \A y \in s : x >= y
           B == {s \in SUBSET S : s # {} /\ ~Greatest(s)}
<1>1. ASSUME B # {} PROVE FALSE
  <2>1. PICK s \in B : \A u \in B : u \subseteq s => u = s
    <3>1. B \in SUBSET (SUBSET S)
      OBVIOUS
    <3> HIDE DEF B
    <3> QED
      BY <1>1, <3>1, SmallestSubset
  <2>2. PICK x \in s : TRUE
    BY <2>1
  <2>3. CASE s \ {x} = {}
    BY <2>1, <2>2, <2>3 DEF Integers
  <2>4. CASE s \ {x} # {}
    <3>1. s \ {x} \in SUBSET S /\ s \ {x} # s
      BY <2>1, <2>2
    <3>2. Greatest(s \ {x})
      BY <2>1, <2>4, <3>1
    <3>3. PICK m \in s \ {x} : \A y \in s \ {x} : m >= y
      BY <3>2
    <3>4. m \in Int /\ x \in Int /\ \A y \in s : y \in Int
      BY <2>1, <2>2 DEF Integers
    <3>5. CASE x >= m
      BY <2>2, <3>3, <3>4, <3>5
    <3>6. CASE m >= x
      BY <2>2, <3>3, <3>4, <3>6
    <3> QED
      BY <2>1, <3>4, <3>3, <3>5, <3>6
  <2> QED
    BY <2>3, <2>4
<1>2. Greatest(S)
  BY <1>1
<1> QED
  BY <1>2 DEF Max

\* Groups have members.
LEMMA GroupsHaveMembers ==
    ASSUME NEW labels, NEW V, NEW g \in Groups(labels, V)
    PROVE  Members(g, labels, V) # {} /\ \A s \in Members(g, labels, V) : s \in V /\ By(s, labels) = g
BY DEF Groups, Members

LEMMA TargetByItself ==
    ASSUME NEW t \in Targets, NEW s, s.labels = t
    PROVE  By(s, TargetGrouping) = t
<1>1. By(s, TargetGrouping) = [l \in {"cluster", "instance"} |-> t[l]]
  BY TargetIsRecord, Grouping DEF By, Restrict
<1> QED
  BY <1>1, TargetIsRecord

TotalJobsMetric == "expire_job_manager_total_jobs"

\* Every backlog scraped is of a target, and a target has one.
LEMMA BacklogSamples ==
    ASSUME ScrapedInv, NEW s \in Now(TotalJobsMetric)
    PROVE  /\ s.labels \in Targets /\ s.value \in {3, 5}
           /\ \A u \in Now(TotalJobsMetric) : u.labels = s.labels => u = s
<1> DEFINE V == Now(TotalJobsMetric)
<1>1. \A u \in V : u \in now /\ u.metric = TotalJobsMetric
  BY DEF Now, Selected
<1>2. PICK t \in Targets : \E e \in Expositions(t) : \E x \in e :
          Of(t, now) = Attach(t, e) /\ s = Labelled(x, t) /\ IsOf(s, t) /\ Exposed(x) /\ Typical(x)
  BY <1>1, SampleOrigin DEF ScrapedInv
<1>3. PICK e \in Expositions(t) : \E x \in e :
          Of(t, now) = Attach(t, e) /\ s = Labelled(x, t) /\ IsOf(s, t) /\ Exposed(x) /\ Typical(x)
  BY <1>2
<1>4. PICK x \in e :
          Of(t, now) = Attach(t, e) /\ s = Labelled(x, t) /\ IsOf(s, t) /\ Exposed(x) /\ Typical(x)
  BY <1>3
<1>5. s.metric = x.metric /\ s.value = x.value
  BY <1>4, LabelledIsOf
<1>6. /\ x.metric = TotalJobsMetric /\ focus = "backlog"
      /\ x.value \in {3, 5} /\ DOMAIN x.labels = {}
  BY <1>1, <1>4, <1>5 DEF Typical, TotalJobsMetric
<1>7. s.labels = t
  BY <1>4, <1>6, PlainIsLabelledByTarget
<1>8. \A y \in e : y.metric = TotalJobsMetric => y = x
  <2>1. e \in {{}} \cup BacklogExpositions
    BY <1>6 DEF Expositions
  <2>2. /\ \A a : Plain("core_active", a).metric # TotalJobsMetric
        /\ \A n : Plain(TotalJobsMetric, n).metric = TotalJobsMetric
    BY DEF Plain, Sample, TotalJobsMetric
  <2>3. \/ e = {} \/ e = {Plain("core_active", 0)}
        \/ \E a, n : e = {Plain("core_active", a), Plain(TotalJobsMetric, n)}
    BY <2>1 DEF BacklogExpositions, TotalJobsMetric
  <2> QED
    BY <1>4, <1>6, <2>2, <2>3
<1>9. ASSUME NEW u \in V, u.labels = s.labels PROVE u = s
  <2>1. By(u, TargetGrouping) = t
    BY <1>7, <1>9, TargetByItself
  <2>2. u \in Attach(t, e)
    BY <1>1, <1>4, <2>1 DEF Of
  <2>3. PICK y \in e : u = Labelled(y, t)
    BY <2>2 DEF Attach, Labelled
  <2>4. y.metric = TotalJobsMetric
    <3>1. Exposed(y)
      BY ExpositionsExposed DEF ScrapedInv
    <3> QED
      BY <1>1, <2>3, <3>1, LabelledIsOf
  <2> QED
    BY <1>4, <1>8, <2>3, <2>4
<1> QED
  BY <1>5, <1>6, <1>7, <1>9

LEMMA ActiveIsOfTarget ==
    ASSUME ScrapedInv, NEW w \in Now("core_active")
    PROVE  w.labels \in Targets
<1>1. w \in now /\ w.metric = "core_active"
  BY DEF Now, Selected
<1>2. PICK t, x : t \in Targets /\ w = Labelled(x, t) /\ IsOf(w, t) /\ Exposed(x) /\ Typical(x)
  BY <1>1, SampleOrigin DEF ScrapedInv
<1> QED
  BY <1>1, <1>2, LabelledIsOf, PlainIsLabelledByTarget DEF Typical

\* Of samples with one for each target the maximum by target changes nothing.
LEMMA MaxOfTargets ==
    ASSUME NEW V, \A s \in V : s.labels \in Targets /\ s.value \in Int,
           \A s, u \in V : s.labels = u.labels => s = u
    PROVE  MaxBy(TargetGrouping, V) = {[labels |-> s.labels, value |-> s.value] : s \in V}
<1> DEFINE of(g) == Max({x.value : x \in Members(g, TargetGrouping, V)})
<1>1. \A s \in V : By(s, TargetGrouping) = s.labels
  BY TargetByItself
<1>2. ASSUME NEW s \in V PROVE of(s.labels) = s.value
  <2>1. Members(s.labels, TargetGrouping, V) = {s}
    BY <1>1 DEF Members
  <2>2. {x.value : x \in Members(s.labels, TargetGrouping, V)} = {s.value}
    BY <2>1
  <2>3. \A n \in Int : Max({n}) = n
    BY DEF Max
  <2> QED
    BY <2>2, <2>3
<1>3. Groups(TargetGrouping, V) = {s.labels : s \in V}
  BY <1>1 DEF Groups
<1>4. MaxBy(TargetGrouping, V) = {[labels |-> g, value |-> of(g)] : g \in Groups(TargetGrouping, V)}
  BY DEF MaxBy
<1> HIDE DEF of
<1> QED
  BY <1>2, <1>3, <1>4

\* What is recorded of the backlogs is what the leaders exposed.
LEMMA BacklogIsLeading ==
    ASSUME ScrapedInv
    PROVE  /\ BacklogRule.vector = Leading
           /\ IsFiniteSet(Leading)
           /\ \A s \in Leading : s.labels \in Targets /\ s.value \in {3, 5}
<1> DEFINE V == OfActive(TotalJobsMetric)
           N == Now(TotalJobsMetric)
<1>1. \A s \in N : /\ s.labels \in Targets /\ s.value \in {3, 5}
                   /\ \A u \in N : u.labels = s.labels => u = s
  BY BacklogSamples
<1>2. ASSUME NEW s \in N
      PROVE  (\E w \in Active : By(s, TargetGrouping) = By(w, TargetGrouping)) <=> Leads(s.labels)
  <2>1. \A w \in Active : w \in Now("core_active") /\ w.value = 1
    BY DEF Active
  <2>2. By(s, TargetGrouping) = s.labels /\ \A w \in Active : By(w, TargetGrouping) = w.labels
    BY <1>1, <2>1, ActiveIsOfTarget, TargetByItself
  <2> QED
    BY <2>2 DEF Active, Leads
<1>3. V = {s \in N : Leads(s.labels)}
  BY <1>2 DEF OfActive, And
<1> HIDE DEF N, V
<1>4. MaxBy(TargetGrouping, V) = {[labels |-> s.labels, value |-> s.value] : s \in V}
  <2>1. /\ \A s \in V : s.labels \in Targets /\ s.value \in Int
        /\ \A s, u \in V : s.labels = u.labels => s = u
    BY <1>1, <1>3
  <2> QED
    BY <2>1, MaxOfTargets
<1>5. BacklogRule.vector = Leading
  BY <1>3, <1>4 DEF BacklogRule, Rule, Leading, TotalJobsMetric, V, N
<1>6. IsFiniteSet(Leading)
  <2>1. V \subseteq now
    BY DEF V, OfActive, And, Now, Selected
  <2>2. IsFiniteSet(V)
    BY <2>1, FS_Subset DEF ScrapedInv, Scraped
  <2> DEFINE W == {[labels |-> s.labels, value |-> s.value] : s \in V}
  <2>3. [s \in V |-> [labels |-> s.labels, value |-> s.value]] \in Surjection(V, W)
    BY DEF Surjection
  <2> HIDE DEF W
  <2>4. IsFiniteSet(W)
    BY <2>2, <2>3, FS_Surjection
  <2> QED
    BY <1>3, <2>4 DEF W, Leading, TotalJobsMetric, N
<1> QED
  BY <1>1, <1>3, <1>5, <1>6 DEF Leading, TotalJobsMetric, N

\* A range of backlog records.
WithinRange(range) ==
    /\ IsFiniteSet(range)
    /\ \A s \in range : /\ s = [labels |-> s.labels, value |-> s.value, age |-> s.age]
                        /\ s.labels \in Targets /\ s.value \in {3, 5} /\ s.age \in Nat

LEMMA AgedIsWithinRange ==
    ASSUME NEW range, WithinRange(range), NEW V, IsFiniteSet(V),
           \A s \in V : s.labels \in Targets /\ s.value \in {3, 5}
    PROVE  WithinRange(Aged(range, V))
<1> DEFINE new(s) == [labels |-> s.labels, value |-> s.value, age |-> 1]
           older(s) == [s EXCEPT !.age = @ + 1]
           O == {s \in range : s.age < Rounds}
           A == {new(s) : s \in V}
           B == {older(s) : s \in O}
<1>1. Aged(range, V) = A \cup B
  BY DEF Aged
<1>2. [s \in V |-> new(s)] \in Surjection(V, A) /\ [s \in O |-> older(s)] \in Surjection(O, B)
  BY DEF Surjection
<1>3. IsFiniteSet(O)
  BY FS_Subset DEF WithinRange
<1>4. \A s \in A : /\ s = [labels |-> s.labels, value |-> s.value, age |-> s.age]
                   /\ s.labels \in Targets /\ s.value \in {3, 5} /\ s.age \in Nat
  OBVIOUS
<1>5. ASSUME NEW s \in O
      PROVE  older(s) = [labels |-> s.labels, value |-> s.value, age |-> s.age + 1]
  BY DEF WithinRange
<1>6. \A s \in B : /\ s = [labels |-> s.labels, value |-> s.value, age |-> s.age]
                   /\ s.labels \in Targets /\ s.value \in {3, 5} /\ s.age \in Nat
  <2> SUFFICES ASSUME NEW s \in O
               PROVE  LET b == older(s)
                      IN /\ b = [labels |-> b.labels, value |-> b.value, age |-> b.age]
                         /\ b.labels \in Targets /\ b.value \in {3, 5} /\ b.age \in Nat
    OBVIOUS
  <2>1. s.labels \in Targets /\ s.value \in {3, 5} /\ s.age + 1 \in Nat
    BY DEF WithinRange
  <2> QED
    BY <1>5, <2>1
<1> HIDE DEF A, B, O
<1>7. IsFiniteSet(A) /\ IsFiniteSet(B)
  BY <1>2, <1>3, FS_Surjection
<1>8. IsFiniteSet(Aged(range, V))
  BY <1>1, <1>7, FS_Union
<1>9. \A s \in Aged(range, V) : s \in A \/ s \in B
  BY <1>1
<1> QED
  BY <1>4, <1>6, <1>8, <1>9 DEF WithinRange

\* The pairs of samples of one series, the newer first.
IsPair(p) ==
    /\ p[1].age \in Nat /\ p[2].age \in Nat /\ p[1].age < p[2].age
    /\ p[1].value \in Int /\ p[2].value \in Int

LEMMA RiseOfPair ==
    ASSUME NEW p, IsPair(p)
    PROVE  /\ Rise(p).value \in Int /\ Run(p).value \in Int /\ Run(p).value > 0
           /\ p[1].value <= p[2].value => Rise(p).value <= 0
           /\ p[1].value >= p[2].value => Rise(p).value >= 0
<1> DEFINE d == p[2].age - p[1].age
           r == p[1].value - p[2].value
<1>1. d \in Int /\ d > 0 /\ r \in Int
  BY DEF IsPair
<1>2. /\ p[1].value <= p[2].value => r <= 0
      /\ p[1].value >= p[2].value => r >= 0
  BY DEF IsPair
<1>3. Rise(p).value = d * r /\ Run(p).value = d * d
  BY DEF Rise, Run
<1> HIDE DEF d, r
<1>4. d * r \in Int /\ d * d \in Int /\ d * d > 0
  BY <1>1
<1>5. (r <= 0 => d * r <= 0) /\ (r >= 0 => d * r >= 0)
  BY <1>1
<1> QED
  BY <1>2, <1>3, <1>4, <1>5

LEMMA QuotientSign ==
    ASSUME NEW n \in Int, NEW d \in Int, d > 0
    PROVE  /\ (1000 * n) \div d \in Int
           /\ n <= 0 => (1000 * n) \div d <= 0
           /\ n >= 0 => (1000 * n) \div d >= 0
<1> DEFINE k == (1000 * n) \div d
<1>1. k \in Int /\ d * k <= 1000 * n /\ 1000 * n < d * (k + 1)
  OBVIOUS
<1> HIDE DEF k
<1>2. ASSUME n <= 0 PROVE k <= 0
  <2> SUFFICES ASSUME k >= 1 PROVE FALSE
    BY <1>1
  <2>1. d * k >= d
    BY <1>1
  <2> QED
    BY <1>1, <1>2, <2>1
<1>3. ASSUME n >= 0 PROVE k >= 0
  <2> SUFFICES ASSUME k + 1 <= 0 PROVE FALSE
    BY <1>1
  <2>1. d * (k + 1) <= 0
    BY <1>1
  <2> QED
    BY <1>1, <1>3, <2>1
<1> QED
  BY <1>1, <1>2, <1>3 DEF k

\* A slope is positive only if some pair of samples rises, negative only if one falls.
LEMMA SlopeSign ==
    ASSUME NEW P, IsFiniteSet(P), P # {}, \A p \in P : IsPair(p)
    PROVE  /\ Slope(P) \in Int
           /\ Slope(P) > 0 => \E p \in P : p[1].value > p[2].value
           /\ Slope(P) < 0 => \E p \in P : p[1].value < p[2].value
<1> DEFINE rises == {Rise(p) : p \in P}
           runs == {Run(p) : p \in P}
           n == Total(rises)
           d == Total(runs)
<1>1. IsFiniteSet(rises) /\ IsFiniteSet(runs) /\ runs # {}
  <2>1. [p \in P |-> Rise(p)] \in Surjection(P, rises) /\ [p \in P |-> Run(p)] \in Surjection(P, runs)
    BY DEF Surjection
  <2>2. runs # {}
    OBVIOUS
  <2> HIDE DEF rises, runs
  <2> QED
    BY <2>1, <2>2, FS_Surjection
<1>2. (\A s \in rises : s.value \in Int) /\ \A s \in runs : s.value \in Int /\ s.value > 0
  BY RiseOfPair
<1>3. (\A p \in P : p[1].value <= p[2].value) => \A s \in rises : s.value <= 0
  BY RiseOfPair
<1>4. (\A p \in P : p[1].value >= p[2].value) => \A s \in rises : s.value >= 0
  BY RiseOfPair
<1>5. Slope(P) = (1000 * n) \div d
  BY SumIsTotal DEF Slope
<1> HIDE DEF rises, runs
<1>6. n \in Int /\ d \in Int /\ d > 0
  BY <1>1, <1>2, TotalOfSign
<1>7. /\ (\A p \in P : p[1].value <= p[2].value) => n <= 0
      /\ (\A p \in P : p[1].value >= p[2].value) => n >= 0
  BY <1>1, <1>2, <1>3, <1>4, TotalOfSign
<1> HIDE DEF n, d
<1>8. /\ Slope(P) \in Int
      /\ n <= 0 => Slope(P) <= 0
      /\ n >= 0 => Slope(P) >= 0
  BY <1>5, <1>6, QuotientSign
<1> QED
  BY <1>7, <1>8 DEF IsPair

LEMMA DerivSamples ==
    ASSUME NEW range, WithinRange(range)
    PROVE  /\ MaxBy(TargetGrouping, Deriv(range)) = Deriv(range)
           /\ \A s \in Deriv(range) :
                /\ s.labels \in Targets
                /\ s.value > 0 => \E p \in Apart(range) : p[1].labels = s.labels /\ p[1].value > p[2].value
                /\ s.value < 0 => \E p \in Apart(range) : p[1].labels = s.labels /\ p[1].value < p[2].value
<1> DEFINE A == Apart(range)
           Mine(l) == {p \in A : p[1].labels = l}
           L == {p[1].labels : p \in A}
           D == Deriv(range)
<1>1. D = {[labels |-> l, value |-> Slope(Mine(l))] : l \in L}
  BY DEF Deriv
<1>2. \A p \in A : p \in range \X range /\ p[1] \in range /\ p[2] \in range /\ p[1].age < p[2].age
  BY DEF Apart
<1>3. \A p \in A : IsPair(p) /\ p[1].labels \in Targets
  BY <1>2 DEF IsPair, WithinRange
<1>4. IsFiniteSet(A)
  <2>1. IsFiniteSet(range \X range)
    BY FS_Product DEF WithinRange
  <2> QED
    BY <1>2, <2>1, FS_Subset
<1> HIDE DEF A
<1>5. ASSUME NEW l \in L
      PROVE  /\ l \in Targets /\ Slope(Mine(l)) \in Int
             /\ Slope(Mine(l)) > 0 => \E p \in Mine(l) : p[1].value > p[2].value
             /\ Slope(Mine(l)) < 0 => \E p \in Mine(l) : p[1].value < p[2].value
  <2>1. IsFiniteSet(Mine(l)) /\ Mine(l) # {} /\ \A p \in Mine(l) : IsPair(p)
    BY <1>3, <1>4, FS_Subset
  <2>2. l \in Targets
    BY <1>3
  <2> HIDE DEF Mine
  <2> QED
    BY <2>1, <2>2, SlopeSign
<1>6. \A l : \A p \in Mine(l) : p \in A /\ p[1].labels = l
  OBVIOUS
<1> DEFINE of(l) == Slope(Mine(l))
<1>7. D = {[labels |-> l, value |-> of(l)] : l \in L}
  BY <1>1
<1> HIDE DEF Mine, D, L
<1>8. /\ \A s \in D : s.labels \in Targets /\ s.value \in Int
      /\ \A s \in D : s.labels \in L /\ s.value = of(s.labels)
  BY <1>5, <1>7
<1>9. ASSUME NEW s \in D
      PROVE  /\ s.value > 0 => \E p \in A : p[1].labels = s.labels /\ p[1].value > p[2].value
             /\ s.value < 0 => \E p \in A : p[1].labels = s.labels /\ p[1].value < p[2].value
  BY <1>5, <1>6, <1>8
<1> HIDE DEF of
<1>10. Vector(D)
  BY <1>7 DEF Vector
<1>11. MaxBy(TargetGrouping, D) = {[labels |-> s.labels, value |-> s.value] : s \in D}
  BY <1>8, <1>10, MaxOfTargets DEF Vector
<1>12. {[labels |-> s.labels, value |-> s.value] : s \in D} = D
  BY <1>10 DEF Vector
<1> QED
  BY <1>8, <1>9, <1>11, <1>12 DEF A, D

(* The records in range are the backlogs of the leaders of those rounds, and the
   net change on record is the slope of these. *)
BacklogInv ==
    /\ recent = led /\ WithinRange(led)
    /\ current => Recorded(NetChange, records) = MaxBy(TargetGrouping, Deriv(led))

LEMMA BacklogStep == ScrapedInv /\ BacklogInv /\ [Next]_vars => BacklogInv'
<1> SUFFICES ASSUME ScrapedInv, BacklogInv, [Next]_vars PROVE BacklogInv'
  OBVIOUS
<1>1. CASE Evaluate
  <2>1. records' = Evaluated /\ led' = Aged(led, Leading)
    BY <1>1 DEF Evaluate
  <2>2. BacklogChange.record = NetChange
    BY DEF BacklogChange, Reading, NetChange
  <2>3. /\ Recorded(TotalJobs, Evaluated) = Leading
        /\ Recorded(NetChange, Evaluated) = MaxBy(TargetGrouping, Deriv(Aged(recent, Leading)))
    BY <2>2, RecordsOfReaders, BacklogIsLeading
  <2>4. recent' = Aged(recent, Recorded(TotalJobs, records'))
    BY <1>1 DEF Evaluate, TotalJobs
  <2>5. recent' = led'
    BY <2>1, <2>3, <2>4 DEF BacklogInv
  <2>6. WithinRange(led')
    BY <2>1, AgedIsWithinRange, BacklogIsLeading DEF BacklogInv
  <2>7. Recorded(NetChange, records') = MaxBy(TargetGrouping, Deriv(led'))
    BY <2>1, <2>3 DEF BacklogInv
  <2> QED
    BY <2>5, <2>6, <2>7 DEF BacklogInv
<1>2. CASE \E t \in Targets : Scrape(t)
  BY <1>2 DEF Scrape, BacklogInv
<1>3. CASE UNCHANGED vars
  BY <1>3 DEF vars, BacklogInv
<1> QED
  BY <1>1, <1>2, <1>3 DEF Next

Inv == ScrapedInv /\ RoundInv /\ BacklogInv

(* Between an evaluation and the next scrape the records are what the rules
   yield on the samples of the last scrapes; all samples are some target's. *)
THEOREM RecordsAreOfTheSamples == Spec => []Inv
<1>1. Init => Inv
  <2>1. WithinRange({})
    BY FS_EmptySet DEF WithinRange
  <2> QED
    BY <2>1, NothingIsScraped DEF Init, Inv, ScrapedInv, RoundInv, BacklogInv
<1>2. Inv /\ [Next]_vars => Inv'
  BY ScrapedStep, RoundStep, BacklogStep DEF Inv
<1> QED
  BY <1>1, <1>2, PTL DEF Spec

LEMMA RecordIsSample ==
    ASSUME NEW r \in records
    PROVE  [labels |-> r.labels, value |-> r.value] \in Recorded(r.record, records)
BY DEF Recorded

(* The backlogs on record are those of the nodes that were active when they were
   last scraped.  A net change is recorded of the nodes that led in two of the
   rounds in range, the present leader or not, and its sign is that of a change
   of that node's own backlog between two rounds it led in. *)
THEOREM BacklogsAreOfLeaders == Spec => []BacklogOfLeaders
<1>1. Inv => BacklogOfLeaders
  <2> SUFFICES ASSUME Inv, current PROVE BacklogOfLeaders
    BY DEF BacklogOfLeaders
  <2> DEFINE changes == Recorded(NetChange, records)
             Twice(t) == {p \in led \X led : /\ p[1].labels = t /\ p[2].labels = t
                                             /\ p[1].age < p[2].age}
  <2>1. Recorded(TotalJobs, records) = Leading
    BY BacklogIsLeading DEF Inv, RoundInv
  <2>2. WithinRange(led) /\ changes = Deriv(led)
    BY DerivSamples DEF Inv, BacklogInv
  <2>3. \A t : Twice(t) = {p \in Apart(led) : p[1].labels = t}
    BY DEF Apart
  <2> HIDE DEF changes, Twice
  <2>4. {s.labels : s \in changes} = {t \in Targets : Twice(t) # {}}
    <3> DEFINE L == {p[1].labels : p \in Apart(led)}
               of(l) == Slope({p \in Apart(led) : p[1].labels = l})
    <3>1. {s.labels : s \in changes} = L
      <4>1. changes = {[labels |-> l, value |-> of(l)] : l \in L}
        BY <2>2 DEF Deriv
      <4> HIDE DEF of, L
      <4>2. \A s \in changes : s.labels \in L
        BY <4>1
      <4>3. ASSUME NEW l \in L PROVE \E s \in changes : s.labels = l
        <5>1. [labels |-> l, value |-> of(l)] \in changes
          BY <4>1
        <5> QED
          BY <5>1
      <4> QED
        BY <4>2, <4>3
    <3>2. \A s \in changes : s.labels \in Targets
      BY <2>2, DerivSamples
    <3>3. \A t : t \in L <=> Twice(t) # {}
      BY <2>3
    <3> HIDE DEF L
    <3> QED
      BY <3>1, <3>2, <3>3
  <2>5. ASSUME NEW s \in changes
        PROVE  /\ s.value > 0 => \E p \in Twice(s.labels) : p[1].value > p[2].value
               /\ s.value < 0 => \E p \in Twice(s.labels) : p[1].value < p[2].value
    BY <2>2, <2>3, DerivSamples
  <2> QED
    BY <2>1, <2>4, <2>5 DEF BacklogOfLeaders, changes, Twice, TotalJobs, NetChange
<1> QED
  BY <1>1, RecordsAreOfTheSamples, PTL

LEMMA IncreasesAreNat ==
    ASSUME ScrapedInv, NEW m, NEW part
    PROVE  /\ IsFiniteSet(IncreaseOf(m, part))
           /\ \A s \in IncreaseOf(m, part) : s.value \in Nat
<1> DEFINE P == Matched(Selected(now, m, part), Selected(before, m, part))
           grown(p) == Tenths * (IF p[1].value >= p[2].value THEN p[1].value - p[2].value ELSE p[1].value)
           sample(p) == [labels |-> p[1].labels, value |-> grown(p)]
           T == {sample(p) : p \in P}
<1>1. IncreaseOf(m, part) = T
  BY DEF IncreaseOf
<1>2. IsFiniteSet(P)
  <2>1. IsFiniteSet(now \X before)
    BY FS_Product DEF ScrapedInv, Scraped
  <2>2. P \subseteq now \X before
    BY DEF Matched, Selected
  <2> HIDE DEF P
  <2> QED
    BY <2>1, <2>2, FS_Subset
<1>3. \A p \in P : p[1].value \in Nat /\ p[2].value \in Nat
  BY DEF Matched, Selected, ScrapedInv, Scraped, IsOf
<1> HIDE DEF P
<1>4. \A p \in P : grown(p) \in Nat
  BY <1>3 DEF Tenths
<1> HIDE DEF grown
<1>5. \A s \in T : s.value \in Nat
  BY <1>4
<1> HIDE DEF sample
<1>6. IsFiniteSet(T)
  <2>1. [p \in P |-> sample(p)] \in Surjection(P, T)
    BY DEF Surjection
  <2> HIDE DEF T
  <2> QED
    BY <1>2, <2>1, FS_Surjection
<1> QED
  BY <1>1, <1>5, <1>6

LEMMA SumsAreNat ==
    ASSUME NEW labels, NEW V, IsFiniteSet(V), \A s \in V : s.value \in Nat
    PROVE  \A s \in SumBy(labels, V) : s.value \in Nat
<1> SUFFICES ASSUME NEW g \in Groups(labels, V) PROVE Total(Members(g, labels, V)) \in Nat
  BY SumByIsTotal
<1>1. IsFiniteSet(Members(g, labels, V)) /\ \A s \in Members(g, labels, V) : s.value \in Nat
  BY FS_Subset DEF Members
<1> QED
  BY <1>1, TotalIsNat

LEMMA QuotientInRange ==
    ASSUME NEW n \in Nat, NEW d \in Nat, n <= d, d > 0
    PROVE  Quotient(n, d) \in 0 .. 1000
<1> DEFINE k == (1000 * n) \div d
<1>1. k \in Int /\ d * k <= 1000 * n /\ 1000 * n < d * (k + 1)
  OBVIOUS
<1> HIDE DEF k
<1>2. k >= 0
  <2> SUFFICES ASSUME k + 1 <= 0 PROVE FALSE
    BY <1>1
  <2>1. d * (k + 1) <= 0
    BY <1>1
  <2> QED
    BY <1>1, <2>1
<1>3. k <= 1000
  <2> SUFFICES ASSUME k >= 1001 PROVE FALSE
    BY <1>1
  <2>1. d * k >= d * 1001
    BY <1>1
  <2> QED
    BY <1>1, <2>1
<1> QED
  BY <1>1, <1>2, <1>3 DEF Quotient, k

LEMMA GreatestOfTwo ==
    ASSUME NEW x \in Int, NEW y \in Int
    PROVE  Max({x, y}) = IF x >= y THEN x ELSE y
BY DEF Max

LEMMA HitRatioInRange ==
    ASSUME ScrapedInv, NEW b \in CacheHitRatio
    PROVE  b.value \in 0 .. 1000
<1> DEFINE hits == ClusterIncrease("cache_hit")
           misses == ClusterIncrease("cache_miss")
<1>1. Vector(hits) /\ \A s \in hits \cup misses : s.value \in Nat
  BY IncreasesAreNat, SumsAreNat, AggregationsAreVectors DEF ClusterIncrease, Increase
<1>2. CacheHitRatio = Over(hits, ClampMin(Plus(hits, misses), 3))
  BY DEF CacheHitRatio
<1> HIDE DEF hits, misses
<1>3. PICK h \in hits, d \in ClampMin(Plus(hits, misses), 3) :
          h.labels = d.labels /\ b.value = Quotient(h.value, d.value)
  BY <1>2 DEF Over, Matched
<1>4. PICK s \in Plus(hits, misses) : d.labels = s.labels /\ d.value = Max({s.value, 3})
  BY <1>3 DEF ClampMin
<1>5. PICK u \in hits, v \in misses : s.labels = u.labels /\ s.value = u.value + v.value
  BY <1>4 DEF Plus, Matched
<1>6. u = h
  BY <1>1, <1>3, <1>4, <1>5 DEF Vector
<1>7. h.value \in Nat /\ v.value \in Nat
  BY <1>1
<1>8. d.value \in Nat /\ d.value > 0 /\ h.value <= d.value
  <2>1. s.value \in Int /\ s.value >= h.value
    BY <1>5, <1>6, <1>7
  <2>2. Max({s.value, 3}) = IF s.value >= 3 THEN s.value ELSE 3
    BY <2>1, GreatestOfTwo
  <2> QED
    BY <1>4, <1>7, <2>1, <2>2
<1>9. \A n, e : n \in Nat /\ e \in Nat /\ n <= e /\ e > 0 => Quotient(n, e) \in 0 .. 1000
  BY QuotientInRange
<1>10. Quotient(h.value, d.value) \in 0 .. 1000
  BY <1>7, <1>8, <1>9, Zenon
<1> QED
  BY <1>3, <1>10, Zenon

\* A maximum by labels is the value of one of the samples.
LEMMA MaxIsOfMember ==
    ASSUME NEW labels, NEW V, IsFiniteSet(V), \A s \in V : s.value \in Int, NEW b \in MaxBy(labels, V)
    PROVE  \E s \in V : b.labels = By(s, labels) /\ b.value = s.value
<1>1. PICK g \in Groups(labels, V) :
          b = [labels |-> g, value |-> Max({s.value : s \in Members(g, labels, V)})]
  BY DEF MaxBy
<1> DEFINE W == Members(g, labels, V)
           M == {s.value : s \in W}
<1>2. W # {} /\ \A s \in W : s \in V /\ By(s, labels) = g
  BY GroupsHaveMembers
<1>3. IsFiniteSet(W)
  BY FS_Subset DEF Members
<1> HIDE DEF W
<1>4. [s \in W |-> s.value] \in Surjection(W, M)
  BY DEF Surjection
<1>5. M # {} /\ Integers(M)
  BY <1>2 DEF Integers
<1> HIDE DEF M
<1>6. IsFiniteSet(M)
  BY <1>3, <1>4, FS_Surjection
<1>7. Max(M) \in M
  BY <1>5, <1>6, FiniteHasGreatest
<1>8. PICK s \in W : s.value = Max(M)
  BY <1>7 DEF M
<1> QED
  BY <1>1, <1>2, <1>8 DEF M, W

LEMMA ClampedSample ==
    ASSUME NEW V, NEW n, NEW b \in ClampMin(V, n)
    PROVE  \E s \in V : b.value = Max({s.value, n})
<1> DEFINE v(s) == Max({s.value, n})
<1>1. ClampMin(V, n) = {[labels |-> s.labels, value |-> v(s)] : s \in V}
  BY DEF ClampMin
<1> HIDE DEF v
<1>2. \E s \in V : b.value = v(s)
  BY <1>1
<1> QED
  BY <1>2 DEF v

LEMMA ApplyGapIsNat ==
    ASSUME ScrapedInv, NEW b \in RaftStorageApplyGap
    PROVE  b.value >= 0
<1> DEFINE C == Now("raft_storage_stats_commit_index")
           A == Now("raft_storage_stats_applied_index")
           labels == TargetGrouping \cup {"peer_id"}
           P == Matched(C, A)
           D == Minus(C, A)
<1>1. P \subseteq now \X now
  BY DEF Matched, Now, Selected
<1>2. IsFiniteSet(P)
  <2>1. IsFiniteSet(now \X now)
    BY FS_Product DEF ScrapedInv, Scraped
  <2> HIDE DEF P
  <2> QED
    BY <1>1, <2>1, FS_Subset
<1>3. \A p \in P : p[1].value \in Nat /\ p[2].value \in Nat
  BY DEF Matched, Now, Selected, ScrapedInv, Scraped, IsOf
<1>4. D = {[labels |-> p[1].labels, value |-> p[1].value - p[2].value] : p \in P}
  BY DEF Minus
<1>5. RaftStorageApplyGap = ClampMin(MaxBy(labels, D), 0)
  BY DEF RaftStorageApplyGap
<1> HIDE DEF P, D, labels
<1>6. \A s \in D : s.value \in Int
  BY <1>3, <1>4
<1>7. IsFiniteSet(D)
  <2> DEFINE f == [p \in P |-> [labels |-> p[1].labels, value |-> p[1].value - p[2].value]]
  <2>1. f \in Surjection(P, D)
    BY <1>4 DEF Surjection
  <2> HIDE DEF f
  <2> QED
    BY <1>2, <2>1, FS_Surjection
<1>8. PICK g \in MaxBy(labels, D) : b.value = Max({g.value, 0})
  BY <1>5, ClampedSample
<1>9. g.value \in Int
  <2>1. \E s \in D : g.labels = By(s, labels) /\ g.value = s.value
    BY <1>6, <1>7, <1>8, MaxIsOfMember
  <2> QED
    BY <1>6, <2>1
<1>10. Max({g.value, 0}) = IF g.value >= 0 THEN g.value ELSE 0
  BY <1>9, GreatestOfTwo
<1> QED
  BY <1>8, <1>9, <1>10

(* A cache hit ratio lies between 0 and 1, an apply gap is never negative, and
   no round records two samples for one series. *)
THEOREM RecordsStayInRange == Spec => []RecordsInRange
<1>1. Inv => RecordsInRange
  <2> SUFFICES ASSUME Inv, current PROVE RecordsInRange
    BY DEF RecordsInRange
  <2>1. ASSUME NEW r \in records, r.record = HitRatioName PROVE r.value \in 0 .. 1000
    <3> DEFINE s == [labels |-> r.labels, value |-> r.value]
    <3>1. s \in CacheHitRatio
      BY <2>1, RecordIsSample DEF Inv, RoundInv
    <3> QED
      BY <3>1, HitRatioInRange DEF Inv
  <2>2. ASSUME NEW r \in records, r.record = ApplyGapName PROVE r.value >= 0
    <3> DEFINE s == [labels |-> r.labels, value |-> r.value]
    <3>1. s \in RaftStorageApplyGap
      BY <2>2, RecordIsSample DEF Inv, RoundInv
    <3> QED
      BY <3>1, ApplyGapIsNat DEF Inv
  <2>3. \A r, s \in records : r.record = s.record /\ r.labels = s.labels => r = s
    BY DEF Inv, RoundInv
  <2> QED
    BY <2>1, <2>2, <2>3 DEF RecordsInRange, HitRatioName, ApplyGapName
<1> QED
  BY <1>1, RecordsAreOfTheSamples, PTL

------------------------------------------------------------------------------
(* Mounts. *)

MountGrouping == ClusterGrouping \cup {"mount_point"}
\* A count of mount a, at most 2, or of mount b.
OfMount(s) ==
    /\ {"cluster", "mount_point"} \subseteq DOMAIN s.labels
    /\ \/ s.labels["mount_point"] = "a" /\ s.value \in {1, 2}
       \/ s.labels["mount_point"] = "b" /\ s.value \in {1}

LEMMA MountSamples ==
    ASSUME ScrapedInv, NEW s \in now \cup before, s.metric = "secret_kv_count"
    PROVE  OfMount(s)
<1>1. PICK t, x : t \in Targets /\ s = Labelled(x, t) /\ Exposed(x) /\ Typical(x)
  BY SampleOrigin DEF ScrapedInv
<1>2. /\ s.metric = x.metric /\ s.value = x.value
      /\ DOMAIN s.labels = DOMAIN x.labels \cup {"cluster", "instance"}
      /\ \A l \in DOMAIN x.labels : s.labels[l] = x.labels[l]
  BY <1>1, LabelledIsOf
<1>3. x \in {Mount("a", 1), Mount("a", 2), Mount("b", 1)}
  BY <1>1, <1>2 DEF Typical
<1>4. /\ DOMAIN x.labels = {"mount_point"}
      /\ \/ x.labels["mount_point"] = "a" /\ x.value \in {1, 2}
         \/ x.labels["mount_point"] = "b" /\ x.value \in {1}
  BY <1>3 DEF Mount, Sample
<1> QED
  BY <1>2, <1>4 DEF OfMount

LEMMA GreatestCount ==
    ASSUME NEW S, S # {}, S \subseteq {1, 2}
    PROVE  Max(S) \in S
<1>1. CASE 2 \in S
  <2>1. \A y \in S : y = 1 \/ y = 2
    OBVIOUS
  <2>2. \A y \in S : 2 >= y
    BY <2>1
  <2>3. \E x \in S : \A y \in S : x >= y
    BY <1>1, <2>2
  <2> QED
    BY <2>3 DEF Max
<1>2. CASE 2 \notin S
  <2>1. S = {1}
    BY <1>2
  <2> QED
    BY <2>1 DEF Max
<1> QED
  BY <1>1, <1>2

\* The greatest of counts of one mount is a count of that mount.
LEMMA GreatestOfMount ==
    ASSUME NEW W, W # {}, NEW l, NEW v, \A s \in W : OfMount(s),
           \A s \in W : s.labels["mount_point"] = v.labels["mount_point"],
           {"cluster", "mount_point"} \subseteq DOMAIN v.labels,
           v.value = Max({s.value : s \in W})
    PROVE  OfMount(v)
<1> DEFINE M == {s.value : s \in W}
<1>1. M # {}
  OBVIOUS
<1>2. \/ v.labels["mount_point"] = "a" /\ M \subseteq {1, 2}
      \/ v.labels["mount_point"] = "b" /\ M \subseteq {1}
  BY DEF OfMount
<1>3. M \subseteq {1, 2}
  BY <1>2
<1>4. v.value = Max(M)
  OBVIOUS
<1> HIDE DEF M
<1>5. v.value \in M
  BY <1>1, <1>3, <1>4, GreatestCount
<1> QED
  BY <1>2, <1>5 DEF OfMount

LEMMA MountsOverTime ==
    ASSUME ScrapedInv, NEW o \in MaxOverTime("secret_kv_count")
    PROVE  OfMount(o)
<1> DEFINE S == Now("secret_kv_count") \cup Before("secret_kv_count")
<1>1. \A s \in S : OfMount(s)
  BY MountSamples DEF Now, Before, Selected
<1>2. PICK l \in {s.labels : s \in S} :
          o = [labels |-> l, value |-> Max({s.value : s \in {s \in S : s.labels = l}})]
  BY DEF MaxOverTime
<1> DEFINE W == {s \in S : s.labels = l}
<1> HIDE DEF S
<1>3. PICK s \in W : s.labels = l
  BY <1>2
<1>4. \A u \in W : OfMount(u) /\ u.labels = o.labels
  BY <1>1, <1>2
<1>5. {"cluster", "mount_point"} \subseteq DOMAIN o.labels
  BY <1>3, <1>4 DEF OfMount
<1>6. o.value = Max({u.value : u \in W})
  BY <1>2
<1> HIDE DEF W
<1> QED
  BY <1>3, <1>4, <1>5, <1>6, GreatestOfMount

LEMMA MountsOfClusters ==
    ASSUME ScrapedInv, NEW x \in MaxBy(MountGrouping, MaxOverTime("secret_kv_count"))
    PROVE  /\ OfMount(x)
           /\ x.labels = [l \in {"cluster", "mount_point"} |-> x.labels[l]]
<1> DEFINE V == MaxOverTime("secret_kv_count")
<1>1. PICK g \in Groups(MountGrouping, V) :
          x = [labels |-> g, value |-> Max({s.value : s \in Members(g, MountGrouping, V)})]
  BY DEF MaxBy
<1> DEFINE W == Members(g, MountGrouping, V)
<1>2. W # {} /\ \A s \in W : s \in V /\ By(s, MountGrouping) = g
  BY GroupsHaveMembers
<1>3. \A s \in W : OfMount(s)
  BY <1>2, MountsOverTime
<1>4. \A s \in W : g = [l \in {"cluster", "mount_point"} |-> s.labels[l]]
  <2> SUFFICES ASSUME NEW s \in W PROVE g = [l \in {"cluster", "mount_point"} |-> s.labels[l]]
    OBVIOUS
  <2> HIDE DEF W
  <2>1. MountGrouping \cap DOMAIN s.labels = {"cluster", "mount_point"}
    BY <1>3, Grouping DEF OfMount, MountGrouping
  <2> QED
    BY <1>2, <2>1 DEF By, Restrict
<1>5. x.labels = g /\ x.value = Max({s.value : s \in W})
  BY <1>1
<1> HIDE DEF W
<1>6. PICK s \in W : TRUE
  BY <1>2
<1>7. g = [l \in {"cluster", "mount_point"} |-> g[l]]
  BY <1>4, <1>6
<1>8. \A u \in W : u.labels["mount_point"] = x.labels["mount_point"]
  BY <1>4, <1>5
<1>9. {"cluster", "mount_point"} \subseteq DOMAIN x.labels
  BY <1>5, <1>7
<1> QED
  BY <1>2, <1>3, <1>5, <1>7, <1>8, <1>9, GreatestOfMount

LEMMA MountsOnce ==
    ASSUME ScrapedInv, NEW b \in SecretKVCount
    PROVE  b.value <= 3
<1> DEFINE X == MaxBy(MountGrouping, MaxOverTime("secret_kv_count"))
<1>1. SecretKVCount = SumBy(ClusterGrouping, X)
  BY DEF SecretKVCount, MountGrouping
<1>2. /\ Vector(X)
      /\ \A x \in X : OfMount(x) /\ x.labels = [l \in {"cluster", "mount_point"} |-> x.labels[l]]
  BY AggregationsAreVectors, MountsOfClusters
<1> HIDE DEF X
<1>3. PICK g \in Groups(ClusterGrouping, X) : b.value = Total(Members(g, ClusterGrouping, X))
  BY <1>1, SumByIsTotal
<1> DEFINE W == Members(g, ClusterGrouping, X)
<1>4. W # {} /\ \A x \in W : x \in X /\ By(x, ClusterGrouping) = g
  BY GroupsHaveMembers
<1> HIDE DEF W
<1>5. \A x \in W : x.labels["cluster"] = g["cluster"]
  <2> SUFFICES ASSUME NEW x \in W PROVE x.labels["cluster"] = g["cluster"]
    OBVIOUS
  <2>1. ClusterGrouping \cap DOMAIN x.labels = {"cluster"}
    BY <1>2, <1>4, Grouping
  <2> QED
    BY <1>4, <2>1 DEF By, Restrict
<1>6. \A x, y \in W : x.labels["mount_point"] = y.labels["mount_point"] => x = y
  <2> SUFFICES ASSUME NEW x \in W, NEW y \in W, x.labels["mount_point"] = y.labels["mount_point"]
               PROVE  x = y
    OBVIOUS
  <2>1. x.labels = y.labels
    <3>1. \A l \in {"cluster", "mount_point"} : x.labels[l] = y.labels[l]
      BY <1>5
    <3>2. /\ x.labels = [l \in {"cluster", "mount_point"} |-> x.labels[l]]
          /\ y.labels = [l \in {"cluster", "mount_point"} |-> y.labels[l]]
      BY <1>2, <1>4
    <3> DEFINE f == x.labels
               h == y.labels
    <3> HIDE DEF f, h
    <3>3. f = [l \in {"cluster", "mount_point"} |-> f[l]] /\ h = [l \in {"cluster",
                                                                         "mount_point"} |-> h[l]]
      BY <3>2 DEF f, h
    <3>4. \A l \in {"cluster", "mount_point"} : f[l] = h[l]
      BY <3>1 DEF f, h
    <3>5. f = h
      BY <3>3, <3>4
    <3> QED
      BY <3>5 DEF f, h
  <2> QED
    BY <1>2, <1>4, <2>1 DEF Vector
<1>7. \A x \in W : /\ x.labels["mount_point"] = "a" \/ x.labels["mount_point"] = "b"
                   /\ x.value \in {1, 2} /\ (x.labels["mount_point"] = "b" => x.value = 1)
  BY <1>2, <1>4 DEF OfMount
<1>8. PICK x \in W : TRUE
  BY <1>4
<1>9. CASE W = {x}
  BY <1>3, <1>7, <1>9, TotalOfOne DEF W
<1>10. CASE W # {x}
  <2>1. PICK y \in W : y # x
    BY <1>8, <1>10
  <2>2. x.labels["mount_point"] # y.labels["mount_point"]
    BY <1>6, <2>1
  <2>3. W = {x, y}
    BY <1>6, <1>7, <1>8, <2>1, <2>2
  <2>4. Total({x, y}) = x.value + y.value
    BY <1>7, <2>1, TotalOfTwo
  <2>5. x.value + y.value <= 3
    BY <1>7, <2>2
  <2>6. Total(W) <= 3
    BY <2>3, <2>4, <2>5
  <2> QED
    BY <1>3, <2>6 DEF W
<1> QED
  BY <1>9, <1>10

(* A secret mount counts once per cluster, however many nodes expose it and
   however often a node was scraped. *)
THEOREM MountsAreCountedOnce == Spec => []MountsCountedOnce
<1>1. Inv => MountsCountedOnce
  <2> SUFFICES ASSUME Inv, current, NEW r \in records, r.record = MountsName PROVE r.value <= 2 + 1
    BY DEF MountsCountedOnce, MountsName
  <2> DEFINE s == [labels |-> r.labels, value |-> r.value]
  <2>1. s \in SecretKVCount
    BY RecordIsSample DEF Inv, RoundInv
  <2>2. s.value <= 3
    BY <2>1, MountsOnce DEF Inv
  <2> QED
    BY <2>2
<1> QED
  BY <1>1, RecordsAreOfTheSamples, PTL

------------------------------------------------------------------------------
(* The seal state. *)

LEMMA LeastOfFew ==
    ASSUME NEW S, S # {}, S \subseteq {0, 1}
    PROVE  Min(S) \in S
<1>1. CASE 0 \in S
  <2>1. \A y \in S : y = 0 \/ y = 1
    OBVIOUS
  <2>2. \A y \in S : 0 <= y
    BY <2>1
  <2>3. \E x \in S : \A y \in S : x <= y
    BY <1>1, <2>2
  <2> QED
    BY <2>3 DEF Min
<1>2. CASE 0 \notin S
  <2>1. S = {1}
    BY <1>2
  <2> QED
    BY <2>1 DEF Min
<1> QED
  BY <1>1, <1>2

\* What a target contributes to the state of its nodes.
LEMMA SealSources ==
    ASSUME ScrapedInv, NEW sources, NEW s \in FromSource(sources)
    PROVE  s \in now /\ s.value \in {0, 1} /\ By(s, TargetGrouping) \in Targets
<1>1. s \in now /\ s.metric = "core_unsealed"
  BY DEF FromSource, Now, Selected
<1>2. PICK t, x : t \in Targets /\ s = Labelled(x, t) /\ IsOf(s, t) /\ Exposed(x) /\ Typical(x)
  BY <1>1, SampleOrigin DEF ScrapedInv
<1>3. s.value = x.value /\ SealSample(x)
  BY <1>1, <1>2, LabelledIsOf DEF Typical
<1>4. x.value \in {0, 1}
  BY <1>3 DEF SealSample, Startup, Cluster, Plain, Sample
<1> QED
  BY <1>1, <1>2, <1>3, <1>4 DEF IsOf

LEMMA LeastOfSources ==
    ASSUME ScrapedInv, NEW sources, NEW b \in MinBy(TargetGrouping, FromSource(sources))
    PROVE  b.labels \in Targets /\ b.value \in {0, 1}
<1> DEFINE V == FromSource(sources)
<1>1. PICK g \in Groups(TargetGrouping, V) :
          b = [labels |-> g, value |-> Min({s.value : s \in Members(g, TargetGrouping, V)})]
  BY DEF MinBy
<1> DEFINE W == Members(g, TargetGrouping, V)
           M == {s.value : s \in W}
<1>2. W # {} /\ \A s \in W : s \in V /\ By(s, TargetGrouping) = g
  BY GroupsHaveMembers
<1>3. g \in Targets
  BY <1>2, SealSources
<1>4. M # {} /\ M \subseteq {0, 1}
  BY <1>2, SealSources
<1>5. b.labels = g /\ b.value = Min(M)
  BY <1>1
<1> HIDE DEF M
<1>6. b.value \in {0, 1}
  BY <1>4, <1>5, LeastOfFew
<1> QED
  BY <1>3, <1>5, <1>6

LEMMA UnsealedStates ==
    ASSUME ScrapedInv
    PROVE  /\ \A b \in UnsealedState : b.labels \in Targets /\ b.value \in {0, 1}
           /\ IsFiniteSet(UnsealedState)
<1>1. \A b \in UnsealedState : b.labels \in Targets /\ b.value \in {0, 1}
  BY LeastOfSources DEF UnsealedState, Or
<1>2. [b \in UnsealedState |-> b.labels] \in Injection(UnsealedState, Targets)
  BY <1>1, ComposedAreVectors DEF Injection, IsInjective, Vector
<1> QED
  BY <1>1, <1>2, RulesAssumption, FS_Injection

LEMMA ClusterOfTarget ==
    ASSUME NEW t \in Targets, NEW s, s.labels = t
    PROVE  By(s, ClusterGrouping) = [cluster |-> t.cluster]
<1>1. By(s, ClusterGrouping) = [l \in {"cluster"} |-> t[l]]
  BY TargetIsRecord, Grouping DEF By, Restrict
<1> QED
  BY <1>1, TargetIsRecord

(* The sum of a round counts the nodes the same round records as unsealed. *)
THEOREM CountIsOfThisRound == Spec => []CountOfThisRound
<1>1. Inv => CountOfThisRound
  <2> SUFFICES ASSUME Inv, current, NEW t \in Targets
               PROVE  LET c == t.cluster
                          mine == {s \in Recorded(UnsealedMin, records) : s.labels.cluster = c}
                      IN Values(UnsealedSum, [cluster |-> c]) =
                           (IF mine = {} THEN {} ELSE {Cardinality({s \in mine : s.value = 1})})
    BY DEF CountOfThisRound, UnsealedMin, UnsealedSum
  <2> DEFINE c == t.cluster
             g == [cluster |-> c]
             U == UnsealedState
             mine == {s \in U : s.labels.cluster = c}
  <2>1. Recorded(UnsealedMin, records) = U /\ Recorded(UnsealedSum,
                                                       records) = SumBy(ClusterGrouping, U)
    BY DEF Inv, RoundInv
  <2>2. IsFiniteSet(U) /\ \A s \in U : s.labels \in Targets /\ s.value \in {0, 1}
    BY UnsealedStates DEF Inv
  <2> HIDE DEF U
  <2>3. mine = Members(g, ClusterGrouping, U)
    <3>1. \A s \in U : By(s, ClusterGrouping) = [cluster |-> s.labels.cluster]
      BY <2>2, ClusterOfTarget
    <3>2. \A x, y : [cluster |-> x] = [cluster |-> y] => x = y
      OBVIOUS
    <3> QED
      BY <3>1, <3>2 DEF Members
  <2>4. IsFiniteSet(mine) /\ \A s \in mine : s.value \in {0, 1}
    BY <2>2, FS_Subset
  <2>5. Total(mine) = Cardinality({s \in mine : s.value = 1})
    <3> HIDE DEF mine
    <3> QED
      BY <2>4, TotalCounts
  <2>6. Values(UnsealedSum, g) = {s.value : s \in {s \in SumBy(ClusterGrouping, U) : s.labels = g}}
    BY <2>1 DEF Values
  <2>7. g \in Groups(ClusterGrouping, U) <=> mine # {}
    BY <2>3 DEF Groups, Members
  <2> DEFINE T == SumBy(ClusterGrouping, U)
             of(h) == Total(Members(h, ClusterGrouping, U))
  <2>8. T = {[labels |-> h, value |-> of(h)] : h \in Groups(ClusterGrouping, U)}
    BY SumByIsTotal
  <2>9. of(g) = Cardinality({s \in mine : s.value = 1})
    BY <2>3, <2>5
  <2> HIDE DEF mine, g, of, T
  <2>10. {s.value : s \in {s \in T : s.labels = g}} = IF mine = {} THEN {} ELSE {of(g)}
    <3>1. CASE mine = {}
      BY <2>7, <2>8, <3>1
    <3>2. CASE mine # {}
      <4>1. [labels |-> g, value |-> of(g)] \in T
        BY <2>7, <2>8, <3>2
      <4>2. \A s \in T : s.labels = g => s.value = of(g)
        BY <2>8
      <4> QED
        BY <3>2, <4>1, <4>2
    <3> QED
      BY <3>1, <3>2
  <2> QED
    BY <2>1, <2>6, <2>9, <2>10 DEF T, mine, g
<1> QED
  BY <1>1, RecordsAreOfTheSamples, PTL

------------------------------------------------------------------------------
(* The latency of a node. *)

\* A target has one sample of a part of the latency on record.
LEMMA LatencySamples ==
    ASSUME focus \in Focuses, focus = "latency", NEW v, Scraped(v), NEW part,
           NEW s \in Selected(v, "core_handle_request", part)
    PROVE  /\ s.labels \in Targets /\ s.value \in Nat
           /\ \A u \in Selected(v, "core_handle_request", part) : u.labels = s.labels => u = s
<1>1. \A u \in Selected(v, "core_handle_request", part) :
          u \in v /\ u.metric = "core_handle_request" /\ u.part = part
  BY DEF Selected
<1>2. PICK t \in Targets : \E e \in Expositions(t) : \E x \in e :
          Of(t, v) = Attach(t, e) /\ s = Labelled(x, t) /\ IsOf(s, t) /\ Exposed(x) /\ Typical(x)
  BY <1>1, SampleOrigin
<1>3. PICK e \in Expositions(t) : \E x \in e :
          Of(t, v) = Attach(t, e) /\ s = Labelled(x, t) /\ IsOf(s, t) /\ Exposed(x) /\ Typical(x)
  BY <1>2
<1>4. PICK x \in e :
          Of(t, v) = Attach(t, e) /\ s = Labelled(x, t) /\ IsOf(s, t) /\ Exposed(x) /\ Typical(x)
  BY <1>3
<1>5. s.metric = x.metric /\ s.part = x.part
  BY <1>4, LabelledIsOf
<1>6. s.labels = t
  BY <1>1, <1>4, <1>5, PlainIsLabelledByTarget DEF Typical
<1>7. \A y \in e : y.part = part => y = x
  <2>1. PICK a, b : e = Summary("core_handle_request", a, b)
    BY <1>4 DEF Expositions, LatencyExpositions
  <2> DEFINE y1 == [Plain("core_handle_request", a) EXCEPT !.part = "sum"]
             y2 == [Plain("core_handle_request", b) EXCEPT !.part = "count"]
  <2>2. e = {y1, y2}
    BY <2>1 DEF Summary
  <2>3. y1.part = "sum" /\ y2.part = "count"
    BY DEF Plain, Sample
  <2> HIDE DEF y1, y2
  <2> QED
    BY <1>1, <1>4, <1>5, <2>2, <2>3
<1>8. ASSUME NEW u \in Selected(v, "core_handle_request", part), u.labels = s.labels PROVE u = s
  <2>1. PICK t2 \in Targets : IsOf(u, t2)
    BY <1>1 DEF Scraped
  <2>2. By(u, TargetGrouping) = t
    BY <1>6, <1>8, TargetByItself
  <2>3. u \in Attach(t, e)
    BY <1>1, <1>4, <2>2 DEF Of
  <2>4. PICK y \in e : u = Labelled(y, t)
    BY <2>3 DEF Attach, Labelled
  <2>5. y.part = part
    <3>1. Exposed(y)
      BY ExpositionsExposed
    <3> QED
      BY <1>1, <2>4, <3>1, LabelledIsOf
  <2> QED
    BY <1>4, <1>7, <2>4, <2>5
<1>9. s.value \in Nat
  BY <1>4 DEF IsOf
<1> QED
  BY <1>6, <1>8, <1>9

LEMMA LatencyIncreases ==
    ASSUME ScrapedInv, focus = "latency", NEW part
    PROVE  /\ Vector(IncreaseOf("core_handle_request", part))
           /\ \A s \in IncreaseOf("core_handle_request",
                                  part) : s.labels \in Targets /\ s.value \in Nat
<1> DEFINE V == Selected(now, "core_handle_request", part)
           W == Selected(before, "core_handle_request", part)
           P == Matched(V, W)
           grown(p) == Tenths * (IF p[1].value >= p[2].value THEN p[1].value - p[2].value ELSE p[1].value)
<1>1. IncreaseOf("core_handle_request", part) = {[labels |-> p[1].labels,
                                                  value |-> grown(p)] : p \in P}
  BY DEF IncreaseOf
<1>2. /\ \A s \in V : s.labels \in Targets /\ \A u \in V : u.labels = s.labels => u = s
      /\ \A s \in W : s.labels \in Targets /\ \A u \in W : u.labels = s.labels => u = s
  BY LatencySamples DEF ScrapedInv
<1>3. \A p \in P : p[1] \in V /\ p[2] \in W /\ p[1].labels = p[2].labels /\ p = <<p[1], p[2]>>
  BY DEF Matched
<1> HIDE DEF P, V, W, grown
<1>4. \A p, q \in P : p[1].labels = q[1].labels => p = q
  BY <1>2, <1>3
<1>5. Vector({[labels |-> p[1].labels, value |-> grown(p)] : p \in P})
  BY <1>4 DEF Vector
<1>6. \A s \in IncreaseOf("core_handle_request", part) : s.labels \in Targets
  BY <1>1, <1>2, <1>3
<1> QED
  BY <1>1, <1>5, <1>6, IncreasesAreNat

\* Of vectors with one sample of each target the sum by target changes nothing.
LEMMA SumOfTargets ==
    ASSUME NEW I, Vector(I), \A s \in I : s.labels \in Targets /\ s.value \in Nat
    PROVE  SumBy(TargetGrouping, I) = I
<1>1. \A s \in I : By(s, TargetGrouping) = s.labels
  BY TargetByItself
<1>2. ASSUME NEW s \in I PROVE Members(s.labels, TargetGrouping, I) = {s}
  BY <1>1, <1>2 DEF Members, Vector
<1>3. \A s \in I : Total(Members(s.labels, TargetGrouping, I)) = s.value
  <2> SUFFICES ASSUME NEW s \in I PROVE Total(Members(s.labels, TargetGrouping, I)) = s.value
    OBVIOUS
  <2>1. Total({s}) = s.value
    BY TotalOfOne
  <2> QED
    BY <1>2, <2>1
<1>4. Groups(TargetGrouping, I) = {s.labels : s \in I}
  BY <1>1 DEF Groups
<1> DEFINE of(g) == Total(Members(g, TargetGrouping, I))
<1>5. SumBy(TargetGrouping, I) = {[labels |-> g, value |-> of(g)] : g \in Groups(TargetGrouping, I)}
  BY SumByIsTotal
<1>6. \A s \in I : of(s.labels) = s.value
  BY <1>3
<1> HIDE DEF of
<1>7. SumBy(TargetGrouping, I) \subseteq I
  BY <1>4, <1>5, <1>6 DEF Vector
<1>8. I \subseteq SumBy(TargetGrouping, I)
  <2> SUFFICES ASSUME NEW s \in I PROVE s \in SumBy(TargetGrouping, I)
    OBVIOUS
  <2>1. [labels |-> s.labels, value |-> of(s.labels)] \in SumBy(TargetGrouping, I)
    BY <1>4, <1>5
  <2> QED
    BY <1>6, <2>1 DEF Vector
<1> QED
  BY <1>7, <1>8

(* A node that handled requests in the window has the latency of its own sum and
   count, an idle one has none. *)
THEOREM LatencyIsOfTheNode == Spec => []LatencyOfTheNode
<1>1. Inv => LatencyOfTheNode
  <2> SUFFICES ASSUME Inv, current, focus = "latency", NEW t \in Targets
               PROVE  LET Grown(part) ==
                              {s.value : s \in {s \in IncreaseOf("core_handle_request",
                                                                 part) : s.labels = t}}
                      IN Values(LatencyName, t) =
                           (IF \E n \in Grown("count") : n > 0
                            THEN {Quotient(sum, n) : sum \in Grown("sum"),
                                  n \in Grown("count")} ELSE {})
    BY DEF LatencyOfTheNode, LatencyName
  <2> DEFINE S == IncreaseOf("core_handle_request", "sum")
             C == IncreaseOf("core_handle_request", "count")
             sums == {s.value : s \in {s \in S : s.labels = t}}
             counts == {s.value : s \in {s \in C : s.labels = t}}
             A == And(Over(S, C), TargetGrouping, {s \in C : s.value > 0})
  <2>1. /\ Vector(S) /\ \A s \in S : s.labels \in Targets /\ s.value \in Nat
        /\ Vector(C) /\ \A s \in C : s.labels \in Targets /\ s.value \in Nat
    BY LatencyIncreases DEF Inv
  <2>2. SumBy(TargetGrouping, S) = S /\ SumBy(TargetGrouping, C) = C
    BY <2>1, SumOfTargets
  <2>3. TargetSummaryAverage("core_handle_request") = A
    BY <2>2 DEF TargetSummaryAverage
  <2>4. Recorded(LatencyName, records) = A
    BY <2>3 DEF Inv, RoundInv
  <2>5. Values(LatencyName, t) = {s.value : s \in {s \in A : s.labels = t}}
    <3> HIDE DEF A
    <3> QED
      BY <2>4 DEF Values
  <2> HIDE DEF S, C
  <2>6. \A v \in Over(S, C) : \E s \in S, n \in C :
            /\ s.labels = n.labels /\ v.labels = s.labels /\ v.value = Quotient(s.value, n.value)
    BY DEF Over, Matched
  <2>7. \A v \in Over(S, C) : v.labels \in Targets
    BY <2>1, <2>6
  <2>8. \A v \in A : /\ v \in Over(S, C)
                     /\ \E w \in C : w.value > 0 /\ w.labels = v.labels
    BY <2>1, <2>7, TargetByItself DEF And
  <2>9. \A v \in Over(S, C) : \A w \in C : w.value > 0 /\ w.labels = v.labels => v \in A
    BY <2>1, <2>7, TargetByItself DEF And
  <2> HIDE DEF A
  <2>10. CASE \E n \in counts : n > 0
    <3>1. PICK w \in C : w.labels = t /\ w.value > 0
      BY <2>10
    <3>2. ASSUME NEW v \in A, v.labels = t
          PROVE  v.value \in {Quotient(sum, n) : sum \in sums, n \in counts}
      <4>1. PICK s \in S, n \in C : s.labels = t /\ n.labels = t /\ v.value = Quotient(s.value, n.value)
        BY <2>6, <2>8, <3>2
      <4>2. s.value \in sums /\ n.value \in counts
        BY <4>1
      <4> QED
        BY <4>1, <4>2
    <3>3. ASSUME NEW sum \in sums, NEW n \in counts
          PROVE  \E v \in A : v.labels = t /\ v.value = Quotient(sum, n)
      <4>1. PICK s \in S, c \in C : s.labels = t /\ s.value = sum /\ c.labels = t /\ c.value = n
        BY <3>3
      <4> DEFINE v == [labels |-> s.labels, value |-> Quotient(s.value, c.value)]
      <4>2. <<s, c>> \in Matched(S, C)
        BY <4>1 DEF Matched
      <4>3. v \in Over(S, C)
        BY <4>2 DEF Over
      <4>4. v.labels = t /\ v.value = Quotient(sum, n)
        BY <4>1
      <4> HIDE DEF v
      <4> QED
        BY <2>9, <3>1, <4>3, <4>4
    <3> DEFINE Q == {Quotient(sum, n) : sum \in sums, n \in counts}
    <3>4. \A q \in Q : \E sum \in sums, n \in counts : q = Quotient(sum, n)
      OBVIOUS
    <3>5. \A q \in Q : \E v \in A : v.labels = t /\ v.value = q
      <4> HIDE DEF Q, sums, counts
      <4> QED
        BY <3>3, <3>4
    <3> HIDE DEF Q, sums, counts
    <3>6. {s.value : s \in {s \in A : s.labels = t}} = Q
      BY <3>2, <3>5 DEF Q
    <3> QED
      BY <2>5, <2>10, <3>6 DEF Q, sums, counts, S, C
  <2>11. CASE ~\E n \in counts : n > 0
    <3>1. \A v \in A : v.labels # t
      BY <2>8, <2>11
    <3>2. {s.value : s \in {s \in A : s.labels = t}} = {}
      BY <3>1
    <3> QED
      BY <2>5, <2>11, <3>2 DEF S, C
  <2> QED
    BY <2>10, <2>11
<1> QED
  BY <1>1, RecordsAreOfTheSamples, PTL

------------------------------------------------------------------------------
(* The seal state of a node. *)

FromStartup(s) == "seal_state_source" \in DOMAIN s.labels /\ s.labels["seal_state_source"] = "startup"

LEMMA SealLabels ==
    ASSUME NEW t \in Targets, NEW x, SealSample(x)
    PROVE  LET s == Labelled(x, t)
           IN /\ s.metric = "core_unsealed" /\ s.part = Whole /\ s.value = x.value
              /\ "cluster" \in DOMAIN s.labels
              /\ FromStartup(s) <=> x = Startup
              /\ ~FromStartup(s) => \/ "seal_state_source" \notin DOMAIN s.labels
                                    \/ s.labels["seal_state_source"] = "cluster"
<1> DEFINE s == Labelled(x, t)
<1>1. Exposed(x)
  BY PlainIsExposed DEF SealSample, Startup, Cluster, Sample, Exposed
<1>2. /\ s.metric = x.metric /\ s.part = x.part /\ s.value = x.value
      /\ DOMAIN s.labels = DOMAIN x.labels \cup {"cluster", "instance"}
      /\ \A l \in DOMAIN x.labels : s.labels[l] = x.labels[l]
  BY <1>1, LabelledIsOf
<1> HIDE DEF s
<1>3. x.metric = "core_unsealed" /\ x.part = Whole
  BY DEF SealSample, Startup, Cluster, Plain, Sample
<1>4. CASE x = Startup
  <2>1. DOMAIN x.labels = {"seal_state_source"} /\ x.labels["seal_state_source"] = "startup"
    BY <1>4 DEF Startup, Sample
  <2> QED
    BY <1>2, <1>3, <1>4, <2>1 DEF FromStartup, s
<1>5. CASE x \in {Cluster(0), Cluster(1)}
  <2>1. DOMAIN x.labels = {"seal_state_source"} /\ x.labels["seal_state_source"] = "cluster"
    BY <1>5 DEF Cluster, Sample
  <2>2. x # Startup
    BY <2>1 DEF Startup, Sample
  <2> QED
    BY <1>2, <1>3, <2>1, <2>2 DEF FromStartup, s
<1>6. CASE x \in {Plain("core_unsealed", 0), Plain("core_unsealed", 1)}
  <2>1. DOMAIN x.labels = {}
    BY <1>6 DEF Plain, Sample
  <2>2. x # Startup
    BY <2>1 DEF Startup, Sample
  <2> QED
    BY <1>2, <1>3, <2>1, <2>2 DEF FromStartup, s
<1> QED
  BY <1>4, <1>5, <1>6 DEF SealSample

\* The minimum over the sources of one target.
LEMMA LeastOfTarget ==
    ASSUME NEW t, NEW V
    PROVE  {s \in MinBy(TargetGrouping, V) : s.labels = t} =
             (IF Members(t, TargetGrouping, V) = {} THEN {}
              ELSE {[labels |-> t, value |-> Min({s.value : s \in Members(t, TargetGrouping, V)})]})
<1> DEFINE v(g) == Min({s.value : s \in Members(g, TargetGrouping, V)})
           T == MinBy(TargetGrouping, V)
<1>1. T = {[labels |-> g, value |-> v(g)] : g \in Groups(TargetGrouping, V)}
  BY DEF MinBy
<1>2. t \in Groups(TargetGrouping, V) <=> Members(t, TargetGrouping, V) # {}
  BY DEF Groups, Members
<1> HIDE DEF v, T
<1>3. {s \in T : s.labels = t} = IF Members(t, TargetGrouping,
                                            V) = {} THEN {} ELSE {[labels |-> t, value |-> v(t)]}
  BY <1>1, <1>2
<1> QED
  BY <1>3 DEF v, T

LEMMA LeastOfEqual ==
    ASSUME NEW W, W # {}, NEW n \in {0, 1}, \A s \in W : s.value = n
    PROVE  Min({s.value : s \in W}) = n
<1> DEFINE M == {s.value : s \in W}
<1>1. M = {n}
  OBVIOUS
<1> HIDE DEF M
<1>2. M # {} /\ M \subseteq {0, 1}
  BY <1>1
<1>3. Min(M) \in M
  BY <1>2, LeastOfFew
<1> QED
  BY <1>1, <1>3 DEF M

\* The state of a node that exposes e: of its cluster gauge, else its startup one.
LEMMA StateOfExposition ==
    ASSUME ScrapedInv, NEW t \in Targets, NEW e, \A x \in e : SealSample(x),
           Of(t, now) = Attach(t, e), NEW n \in {0, 1},
           \/ (\E x \in e : x # Startup) /\ \A x \in e : x # Startup => x.value = n
           \/ e = {Startup} /\ n = 0
    PROVE  {s.value : s \in {s \in UnsealedState : s.labels = t}} = {n}
<1> DEFINE A == FromSource({"", "cluster"})
           B == FromSource({"startup"})
           a == Members(t, TargetGrouping, A)
           b == Members(t, TargetGrouping, B)
<1>1. Of(t, now) = {Labelled(x, t) : x \in e}
  BY DEF Attach, Labelled
<1>2. a = {s \in Of(t, now) : ~FromStartup(s)} /\ b = {s \in Of(t, now) : FromStartup(s)}
  <2>1. \A s \in Of(t, now) :
            /\ s.metric = "core_unsealed" /\ s.part = Whole /\ "cluster" \in DOMAIN s.labels
            /\ ~FromStartup(s) => \/ "seal_state_source" \notin DOMAIN s.labels
                                  \/ s.labels["seal_state_source"] = "cluster"
    BY <1>1, SealLabels
  <2>2. \A s \in A : s \in now /\ ~FromStartup(s)
    BY DEF FromSource, Now, Selected, FromStartup
  <2>3. \A s \in B : s \in now /\ FromStartup(s)
    BY DEF FromSource, Now, Selected, FromStartup
  <2>4. \A s \in Of(t, now) : s \in now /\ By(s, TargetGrouping) = t
    BY DEF Of
  <2>5. \A s \in now : By(s, TargetGrouping) = t => s \in Of(t, now)
    BY DEF Of
  <2>6. \A s \in Of(t, now) : ~FromStartup(s) => s \in A
    BY <2>1, <2>4 DEF FromSource, Now, Selected
  <2>7. \A s \in Of(t, now) : FromStartup(s) => s \in B
    BY <2>1, <2>4 DEF FromSource, Now, Selected, FromStartup
  <2> HIDE DEF A, B
  <2> QED
    BY <2>2, <2>3, <2>4, <2>5, <2>6, <2>7 DEF Members
<1>3. UnsealedState = Or(MinBy(TargetGrouping, A), MinBy(TargetGrouping, B))
  BY DEF UnsealedState
<1> DEFINE At(V) == {s \in MinBy(TargetGrouping, V) : s.labels = t}
           U == {s \in UnsealedState : s.labels = t}
<1>4. U = IF At(A) = {} THEN At(B) ELSE At(A)
  <2> HIDE DEF A, B
  <2> QED
    BY <1>3 DEF Or
<1> HIDE DEF A, B
<1>5. /\ At(A) = (IF a = {} THEN {} ELSE {[labels |-> t, value |-> Min({s.value : s \in a})]})
      /\ At(B) = (IF b = {} THEN {} ELSE {[labels |-> t, value |-> Min({s.value : s \in b})]})
  BY LeastOfTarget
<1>6. \A x \in e : LET s == Labelled(x, t)
                   IN s \in Of(t, now) /\ s.value = x.value /\ (FromStartup(s) <=> x = Startup)
  BY <1>1, SealLabels
<1> HIDE DEF At, U, a, b
<1>7. CASE (\E x \in e : x # Startup) /\ \A x \in e : x # Startup => x.value = n
  <2>1. a # {}
    BY <1>2, <1>6, <1>7
  <2>2. \A s \in a : s.value = n
    BY <1>1, <1>2, <1>6, <1>7
  <2>3. Min({s.value : s \in a}) = n
    BY <2>1, <2>2, LeastOfEqual
  <2>4. U = {[labels |-> t, value |-> n]}
    BY <1>4, <1>5, <2>1, <2>3
  <2>5. {s.value : s \in U} = {n}
    BY <2>4
  <2> QED
    BY <2>5 DEF U
<1>8. CASE e = {Startup} /\ n = 0
  <2>1. a = {}
    BY <1>1, <1>2, <1>6, <1>8
  <2>2. b # {}
    BY <1>2, <1>6, <1>8
  <2>3. Startup.value = 0
    BY DEF Startup, Sample
  <2>4. \A s \in b : s.value = n
    BY <1>1, <1>2, <1>6, <1>8, <2>3
  <2>5. Min({s.value : s \in b}) = n
    BY <2>2, <2>4, LeastOfEqual
  <2>6. U = {[labels |-> t, value |-> n]}
    BY <1>4, <1>5, <2>1, <2>2, <2>5
  <2>7. {s.value : s \in U} = {n}
    BY <2>6
  <2> QED
    BY <2>7 DEF U
<1> QED
  BY <1>7, <1>8

LEMMA StateOfNothing ==
    ASSUME NEW t \in Targets, Of(t, now) = {}
    PROVE  {s.value : s \in {s \in UnsealedState : s.labels = t}} = {}
<1>1. \A sources : Members(t, TargetGrouping, FromSource(sources)) = {}
  BY DEF Members, FromSource, Now, Selected, Of
<1>2. \A sources : {s \in MinBy(TargetGrouping, FromSource(sources)) : s.labels = t} = {}
  BY <1>1, LeastOfTarget
<1>3. \A s \in UnsealedState : s.labels # t
  BY <1>2 DEF UnsealedState, Or
<1> QED
  BY <1>3

(* A node is recorded unsealed if it was when scraped, however long its startup
   zero lingers, sealed from its start on, and not at all if it exposes neither. *)
THEOREM SealStateIsOfTheNode == Spec => []SealStateOfTheNode
<1>1. Inv => SealStateOfTheNode
  <2> SUFFICES ASSUME Inv, current, focus = "seal", NEW t \in Targets
               PROVE  Values(UnsealedMin, t) = (IF Exposes(t, UnsealedExpositions) THEN {1}
                                                ELSE IF Exposes(t, SealedExpositions) THEN {0} ELSE {})
    BY DEF SealStateOfTheNode, UnsealedMin
  <2>1. Values(UnsealedMin, t) = {s.value : s \in {s \in UnsealedState : s.labels = t}}
    BY DEF Values, Inv, RoundInv
  <2>2. \A e : e \in UnsealedExpositions \/ e \in SealedExpositions => \A x \in e : SealSample(x)
    BY SealExposed
  <2>3. /\ \A n \in {0, 1} : Cluster(n) # Startup /\ Plain("core_unsealed", n) # Startup
        /\ \A n : Cluster(n).value = n /\ Plain("core_unsealed", n).value = n
    <3>1. /\ Startup.labels = [seal_state_source |-> "startup"]
          /\ \A n : Cluster(n).labels = [seal_state_source |-> "cluster"]
          /\ \A n : DOMAIN Plain("core_unsealed", n).labels = {}
      BY DEF Startup, Cluster, Plain, Sample
    <3>2. /\ [seal_state_source |-> "startup"] # [seal_state_source |-> "cluster"]
          /\ DOMAIN [seal_state_source |-> "startup"] # {}
      OBVIOUS
    <3>3. \A n : Cluster(n).value = n /\ Plain("core_unsealed", n).value = n
      BY DEF Cluster, Plain, Sample
    <3> QED
      BY <3>1, <3>2, <3>3
  <2>4. CASE Exposes(t, UnsealedExpositions)
    <3>1. PICK e \in UnsealedExpositions : Of(t, now) = Attach(t, e)
      BY <2>4 DEF Exposes
    <3>2. (\E x \in e : x # Startup) /\ \A x \in e : x # Startup => x.value = 1
      BY <2>3, <3>1 DEF UnsealedExpositions
    <3> QED
      BY <2>1, <2>2, <2>4, <3>1, <3>2, StateOfExposition DEF Inv
  <2>5. CASE ~Exposes(t, UnsealedExpositions) /\ Exposes(t, SealedExpositions)
    <3>1. PICK e \in SealedExpositions : Of(t, now) = Attach(t, e)
      BY <2>5 DEF Exposes
    <3>2. \/ (\E x \in e : x # Startup) /\ \A x \in e : x # Startup => x.value = 0
          \/ e = {Startup}
      BY <2>3, <3>1 DEF SealedExpositions
    <3> QED
      BY <2>1, <2>2, <2>5, <3>1, <3>2, StateOfExposition DEF Inv
  <2>6. CASE ~Exposes(t, UnsealedExpositions) /\ ~Exposes(t, SealedExpositions)
    <3>1. Of(t, now) = {}
      <4>1. Of(t, now) = {} \/ \E e \in Expositions(t) : Of(t, now) = Attach(t, e)
        BY OfScraped DEF Inv, ScrapedInv
      <4>2. Expositions(t) = {{}} \cup UnsealedExpositions \cup SealedExpositions
        BY DEF Expositions
      <4>3. Attach(t, {}) = {}
        BY DEF Attach
      <4> QED
        BY <2>6, <4>1, <4>2, <4>3 DEF Exposes
    <3> QED
      BY <2>1, <2>6, <3>1, StateOfNothing
  <2> QED
    BY <2>4, <2>5, <2>6
<1> QED
  BY <1>1, RecordsAreOfTheSamples, PTL
=============================================================================
