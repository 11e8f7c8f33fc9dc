---------------------------- MODULE PlacementProofs ----------------------------
(***************************************************************************)
(* Proofs about LoadBalancing: the walk around the ring for the replicas   *)
(* of a token finds nodes that Cassandra places replicas on, and with one  *)
(* token per node all of them.                                             *)
(*                                                                         *)
(* The invariant of the walk counts, for each datacenter, the racks and    *)
(* the nodes passed so far: what was taken is never ahead of them, and     *)
(* with one token per node never behind.                                   *)
(***************************************************************************)
EXTENDS LoadBalancing, FiniteSetTheorems, TLAPS

-----------------------------------------------------------------------------
(***************************************************************************)
(* Numbers in ascending order.                                             *)
(***************************************************************************)
\* o lists the numbers of S, each once, from the least to the greatest.
IsOrder(o, S) ==
    /\ o \in [1..Cardinality(S) -> S]
    /\ \A i, j \in 1..Cardinality(S) : i < j => o[i] < o[j]
    /\ \A s \in S : \E i \in 1..Cardinality(S) : o[i] = s

\* How many numbers of S are less than t.
Rank(S, t) == Cardinality({s \in S : s < t})

\* Ranks count up from 0 without gaps, since there are as many as numbers.
LEMMA Ranks ==
    ASSUME NEW S \in SUBSET Int, IsFiniteSet(S)
    PROVE  /\ Cardinality(S) \in Nat
           /\ \A t \in S : Rank(S, t) \in 0..(Cardinality(S) - 1)
           /\ \A t, u \in S : t < u => Rank(S, t) < Rank(S, u)
           /\ \A i \in 0..(Cardinality(S) - 1) : \E t \in S : Rank(S, t) = i
<1> DEFINE Below(t) == {s \in S : s < t}
<1>0. Cardinality(S) \in Nat
  BY FS_CardinalityType, Zenon
<1>b. \A t, s : s \in Below(t) <=> s \in S /\ s < t
  BY Zenon
<1>r. \A t : Rank(S, t) = Cardinality(Below(t))
  BY Zenon DEF Rank
<1> HIDE DEF Below
<1>1. ASSUME NEW t \in Int PROVE IsFiniteSet(Below(t)) /\ Rank(S, t) \in Nat
  <2>1. Below(t) \in SUBSET S
    BY <1>b, Zenon
  <2>2. IsFiniteSet(Below(t))
    BY <2>1, FS_Subset, Zenon
  <2> QED
    BY <1>r, <2>2, FS_CardinalityType, Zenon
<1>2. ASSUME NEW t \in S, NEW u \in S, t < u PROVE Rank(S, t) < Rank(S, u)
  <2>0. t \in Int /\ u \in Int /\ t \notin Below(t)
    BY <1>b
  <2>1. IsFiniteSet(Below(t) \cup {t}) /\ Cardinality(Below(t) \cup {t}) = Rank(S, t) + 1
    BY <1>1, <1>r, <2>0, FS_AddElement, ZenonT(30)
  <2>2. Below(t) \cup {t} \in SUBSET Below(u)
    <3>1. ASSUME NEW s \in S, s < t PROVE s < u
      BY <1>2, <3>1
    <3> QED
      BY <1>2, <1>b, <3>1, Zenon
  <2>3. Cardinality(Below(t) \cup {t}) <= Cardinality(Below(u))
    BY <1>1, <2>0, <2>2, FS_Subset, Zenon
  <2>4. Rank(S, t) \in Nat /\ Rank(S, u) \in Nat
    BY <1>1, <2>0, Zenon
  <2> QED
    BY <1>r, <2>1, <2>3, <2>4
<1>3. ASSUME NEW t \in S PROVE Rank(S, t) \in 0..(Cardinality(S) - 1)
  <2>1. Below(t) \in SUBSET (S \ {t}) /\ t \in Int
    BY <1>b
  <2>2. IsFiniteSet(S \ {t}) /\ Cardinality(S \ {t}) = Cardinality(S) - 1
    BY FS_RemoveElement, Zenon
  <2>3. Cardinality(Below(t)) <= Cardinality(S) - 1
    BY <2>1, <2>2, FS_Subset
  <2> QED
    BY <1>0, <1>1, <1>r, <2>1, <2>3
<1>4. ASSUME NEW i \in 0..(Cardinality(S) - 1) PROVE \E t \in S : Rank(S, t) = i
  <2> DEFINE T == 0..(Cardinality(S) - 1)
             f == [t \in S |-> Rank(S, t)]
  <2>1. f \in Injection(S, T)
    <3>1. f \in [S -> T]
      BY <1>3, Zenon
    <3>2. ASSUME NEW a \in S, NEW b \in S, f[a] = f[b] PROVE a = b
      <4>1. a < b => Rank(S, a) < Rank(S, b)
        BY <1>2, Zenon
      <4>2. b < a => Rank(S, b) < Rank(S, a)
        BY <1>2, Zenon
      <4>3. Rank(S, a) = Rank(S, b) /\ Rank(S, a) \in Nat /\ Rank(S, b) \in Nat
        BY <1>1, <3>2, Zenon
      <4> QED
        BY <4>1, <4>2, <4>3
    <3> QED
      BY <3>1, <3>2, Zenon DEF Injection, IsInjective
  <2>2. IsFiniteSet(T) /\ Cardinality(T) = Cardinality(S)
    BY <1>0, FS_Interval
  <2> HIDE DEF f, T
  <2>3. f \in Surjection(S, T)
    BY <2>1, <2>2, FS_Injection, Zenon
  <2> QED
    BY <2>3, Zenon DEF Surjection, f, T
<1> QED
  BY <1>0, <1>2, <1>3, <1>4, Zenon

\* Ascending sorts.
LEMMA AscendingSorts ==
    ASSUME NEW S \in SUBSET Int, IsFiniteSet(S)
    PROVE  IsOrder(Ascending(S), S) /\ Ascending(S) \in Seq(S) /\ Len(Ascending(S)) = Cardinality(S)
<1> DEFINE n == Cardinality(S)
           o == Ascending(S)
<1>0. n \in Nat /\ o = [i \in 1..n |-> CHOOSE t \in S : Rank(S, t) = i - 1]
  BY Ranks, Zenon DEF Ascending, Rank
<1> HIDE DEF o
<1>1. ASSUME NEW i \in 1..n PROVE o[i] \in S /\ Rank(S, o[i]) = i - 1
  <2>1. \E t \in S : Rank(S, t) = i - 1
    BY <1>0, Ranks
  <2> QED
    BY <1>0, <2>1, Zenon
<1>2. ASSUME NEW i \in 1..n, NEW j \in 1..n, i < j PROVE o[i] < o[j]
  <2>1. o[i] \in S /\ o[j] \in S /\ Rank(S, o[i]) = i - 1 /\ Rank(S, o[j]) = j - 1
    BY <1>1, Zenon
  <2>2. o[j] < o[i] => Rank(S, o[j]) < Rank(S, o[i])
    BY <2>1, Ranks, Zenon
  <2>3. o[i] # o[j] /\ ~(o[j] < o[i])
    BY <1>0, <1>2, <2>1, <2>2
  <2>4. o[i] \in Int /\ o[j] \in Int
    BY <2>1, Zenon
  <2> QED
    BY <2>3, <2>4
<1>3. ASSUME NEW s \in S PROVE \E i \in 1..n : o[i] = s
  <2> DEFINE i == Rank(S, s) + 1
  <2>1. i \in 1..n
    BY <1>0, Ranks
  <2>2. Rank(S, o[i]) = Rank(S, s) /\ o[i] \in S
    BY <1>1, <2>1, Ranks
  <2> HIDE DEF i
  <2>3. o[i] = s
    <3>1. /\ o[i] < s => Rank(S, o[i]) < Rank(S, s)
          /\ s < o[i] => Rank(S, s) < Rank(S, o[i])
      BY <2>2, Ranks, Zenon
    <3>2. Rank(S, s) \in Nat
      <4>1. Rank(S, s) \in 0..(Cardinality(S) - 1)
        BY Ranks, Zenon
      <4> QED
        BY <1>0, <4>1
    <3>3. o[i] \in Int /\ s \in Int
      BY <2>2, Zenon
    <3> QED
      BY <2>2, <3>1, <3>2, <3>3
  <2> QED
    BY <2>1, <2>3, Zenon
<1>4. o \in [1..n -> S]
  BY <1>0, <1>1, Zenon
<1> QED
  <2>1. o \in Seq(S)
    <3> HIDE DEF o, n
    <3> QED
      BY <1>0, <1>4
  <2>2. Len(o) = n
    BY <1>0, <1>4, <2>1
  <2>3. IsOrder(o, S)
    BY <1>2, <1>3, <1>4, Zenon DEF IsOrder
  <2> QED
    BY <2>1, <2>2, <2>3, Zenon DEF o

\* A set of natural numbers has a least one.
LEMMA Least == ASSUME NEW S \in SUBSET Nat, S # {} PROVE \E x \in S : \A y \in S : x <= y
<1>1. IsWellFoundedOn(OpToRel(<, Nat), Nat)
  BY NatLessThanWellFounded, Zenon
<1>2. PICK x \in S : \A y \in S : ~(<<y, x>> \in OpToRel(<, Nat))
  BY <1>1, WFMin, Zenon
<1>3. ASSUME NEW y \in S PROVE x <= y
  <2>1. ~(<<y, x>> \in OpToRel(<, Nat))
    BY <1>2, Zenon
  <2> QED
    BY <2>1 DEF OpToRel
<1> QED
  BY <1>3, Zenon

-----------------------------------------------------------------------------
(***************************************************************************)
(* The ring.                                                               *)
(***************************************************************************)
N == {nodes[h] : h \in DOMAIN nodes}

\* The first entries of a sequence.
LEMMA CappedIs ==
    ASSUME NEW S, NEW seq \in Seq(S), NEW n \in Nat
    PROVE  LET c == Capped(seq, n)
           IN  /\ c \in Seq(S) /\ Len(c) = (IF n < Len(seq) THEN n ELSE Len(seq))
               /\ \A i \in DOMAIN c : i \in DOMAIN seq /\ c[i] = seq[i]
<1> DEFINE m == IF n < Len(seq) THEN n ELSE Len(seq)
<1>1. m \in Nat /\ m <= Len(seq) /\ Len(seq) \in Nat /\ DOMAIN seq = 1..Len(seq)
  OBVIOUS
<1>2. Capped(seq, n) = SubSeq(seq, 1, m)
  BY Zenon DEF Capped
<1> HIDE DEF m
<1>3. m \in Int /\ 1 \in Int /\ \A i \in 1..m : seq[i] \in S
  BY <1>1
<1>4. /\ SubSeq(seq, 1, m) \in Seq(S) /\ Len(SubSeq(seq, 1, m)) = m
      /\ \A i \in 1..m : SubSeq(seq, 1, m)[i] = seq[i]
  BY <1>1, <1>3
<1>5. DOMAIN SubSeq(seq, 1, m) = 1..m
  BY <1>4
<1>6. \A i \in DOMAIN SubSeq(seq, 1, m) : i \in DOMAIN seq /\ SubSeq(seq, 1, m)[i] = seq[i]
  BY <1>1, <1>4, <1>5
<1> QED
  BY <1>2, <1>4, <1>6, Zenon DEF m

\* There are finitely many hosts, since a map yields them one by one.
LEMMA HostsFinite == IsFiniteSet(Hosts)
<1>1. Order \in [1..Len(Order) -> Hosts] /\ Len(Order) \in Nat /\ DOMAIN Order = 1..Len(Order)
  BY OrderAssumption
<1>2. Order \in Surjection(1..Len(Order), Hosts)
  BY <1>1, OrderAssumption, Zenon DEF Surjection
<1>3. IsFiniteSet(1..Len(Order))
  BY <1>1, FS_Interval
<1> QED
  BY <1>2, <1>3, FS_Surjection, Zenon

\* The tokens of a ring: finitely many, each with its node.
LEMMA RingOK ==
    ASSUME nodes \in Clusters
    PROVE  /\ IsFiniteSet(DOMAIN nodes) /\ IsFiniteSet(DOMAIN Ring) /\ DOMAIN Ring \in SUBSET Int
           /\ \A t \in DOMAIN Ring : Ring[t] \in N /\ t \in Ring[t].tokens
           /\ \A h \in DOMAIN nodes : \A t \in nodes[h].tokens : t \in DOMAIN Ring /\ Ring[t] = nodes[h]
<1>0. IsNodeMap(nodes)
  BY ClustersAssumption, Zenon
<1>1. IsFiniteSet(DOMAIN nodes)
  <2>1. DOMAIN nodes \in SUBSET Hosts
    BY Zenon DEF Hosts
  <2> QED
    BY <2>1, HostsFinite, FS_Subset, Zenon
<1> DEFINE T == {nodes[h].tokens : h \in DOMAIN nodes}
           f == [h \in DOMAIN nodes |-> nodes[h].tokens]
<1>2. IsFiniteSet(T)
  <2>1. f \in Surjection(DOMAIN nodes, T)
    BY Zenon DEF Surjection
  <2> HIDE DEF f, T
  <2> QED
    BY <1>1, <2>1, FS_Surjection, Zenon
<1>3. \A s \in T : IsFiniteSet(s)
  BY <1>0 DEF IsNodeMap
<1>4. IsFiniteSet(UNION T)
  <2> HIDE DEF T
  <2> QED
    BY <1>2, <1>3, FS_UNION, Zenon
<1>5. DOMAIN Ring = UNION T /\ \A t \in UNION T : Ring[t] = nodes[CHOOSE h \in DOMAIN nodes : t \in nodes[h].tokens]
  BY Zenon DEF Ring, TokenMapNew, AllTokens
<1>6. UNION T \in SUBSET Int
  BY <1>0 DEF IsNodeMap
<1>7. ASSUME NEW h \in DOMAIN nodes, NEW t \in nodes[h].tokens
      PROVE  t \in UNION T /\ Ring[t] = nodes[h]
  <2>1. t \in UNION T
    BY Zenon
  <2> DEFINE g == CHOOSE x \in DOMAIN nodes : t \in nodes[x].tokens
  <2>2. g \in DOMAIN nodes /\ t \in nodes[g].tokens
    BY <1>7, Zenon
  <2>3. Ring[t] = nodes[g]
    BY <1>5, <2>1, Zenon
  <2> HIDE DEF g
  <2>4. g = h
    BY <1>0, <1>7, <2>2, Zenon DEF IsNodeMap
  <2> QED
    BY <2>1, <2>3, <2>4, Zenon
<1>8. ASSUME NEW t \in UNION T PROVE Ring[t] \in N /\ t \in Ring[t].tokens
  <2>1. PICK h \in DOMAIN nodes : t \in nodes[h].tokens
    BY <1>8, Zenon
  <2> QED
    BY <1>7, <2>1, Zenon DEF N
<1> HIDE DEF T
<1> QED
  BY <1>1, <1>4, <1>5, <1>6, <1>7, <1>8, Zenon

\* Once around the ring, from a token and from the first one.
LEMMA AroundTheRing ==
    ASSUME nodes \in Clusters, NEW token
    PROVE  /\ FromToken(token) \in Seq(DOMAIN Ring) /\ Cardinality(DOMAIN Ring) \in Nat
           /\ \A n \in Nat : NodesForTokenCapped(token, n) \in Seq(N)
<1> DEFINE D == DOMAIN Ring
           A == {t \in D : t >= token}
<1>1. IsFiniteSet(D) /\ D \in SUBSET Int /\ \A t \in D : Ring[t] \in N
  BY RingOK, Zenon
<1>2. A \in SUBSET D
  BY Zenon
<1>3. FromToken(token) = Ascending(A) \o Ascending(D)
  BY Zenon DEF FromToken
<1> HIDE DEF A, D
<1>4. IsFiniteSet(A) /\ A \in SUBSET Int /\ Cardinality(D) \in Nat
  BY <1>1, <1>2, FS_Subset, FS_CardinalityType, Zenon
<1>5. Ascending(A) \in Seq(A) /\ Ascending(D) \in Seq(D)
  BY <1>1, <1>4, AscendingSorts, Zenon
<1>6. Ascending(A) \in Seq(D)
  BY <1>2, <1>5
<1>7. FromToken(token) \in Seq(D)
  BY <1>3, <1>5, <1>6
<1>8. ASSUME NEW n \in Nat PROVE NodesForTokenCapped(token, n) \in Seq(N)
  <2> DEFINE c == Capped(FromToken(token), n)
             r == NodesForTokenCapped(token, n)
  <2>1. c \in Seq(D)
    BY <1>7, CappedIs, Zenon
  <2>2. r = [i \in DOMAIN c |-> Ring[c[i]]]
    BY Zenon DEF NodesForTokenCapped
  <2> HIDE DEF c, r
  <2>3. DOMAIN c = 1..Len(c) /\ Len(c) \in Nat /\ \A i \in 1..Len(c) : c[i] \in D
    BY <2>1
  <2>4. r \in [1..Len(c) -> N]
    BY <1>1, <2>2, <2>3, Zenon
  <2>5. r \in Seq(N)
    BY <2>3, <2>4
  <2> QED
    BY <2>5, Zenon DEF r
<1> QED
  BY <1>4, <1>7, <1>8, Zenon DEF D

-----------------------------------------------------------------------------
(***************************************************************************)
(* Recursion along a sequence.                                             *)
(***************************************************************************)
\* What holds of 0 and of the successor of what it holds of, holds of all.
LEMMA Induction ==
    ASSUME NEW S, 0 \in S, \A n \in Nat : n \in S => n + 1 \in S
    PROVE  Nat \subseteq S
<1> SUFFICES ASSUME Nat \ S # {} PROVE FALSE
  BY Zenon
<1>1. Nat \ S \in SUBSET Nat
  BY Zenon
<1>2. PICK x \in Nat \ S : \A y \in Nat \ S : x <= y
  BY <1>1, Least, Zenon
<1>3. x # 0 /\ x - 1 \in Nat /\ x - 1 \in S
  BY <1>2
<1> QED
  BY <1>3

\* g lists the values that the steps f make of a, up to index m.
Follows(g, m, S, a, f) ==
    g \in [0..m -> S] /\ g[0] = a /\ \A i \in 1..m : g[i] = f[i][g[i - 1]]

\* A value for every index, each made from the one before.
LEMMA Recursion ==
    ASSUME NEW S, NEW a \in S, NEW n \in Nat, NEW f \in [1..n -> [S -> S]]
    PROVE  \E g : Follows(g, n, S, a, f)
<1> DEFINE T == {m \in Nat : m <= n => \E g : Follows(g, m, S, a, f)}
<1>1. 0 \in T
  <2>1. Follows([i \in 0..0 |-> a], 0, S, a, f)
    BY DEF Follows
  <2> QED
    BY <2>1, Zenon
<1>2. ASSUME NEW m \in Nat, m \in T PROVE m + 1 \in T
  <2> SUFFICES ASSUME m + 1 <= n PROVE \E g : Follows(g, m + 1, S, a, f)
    OBVIOUS
  <2>1. PICK g : Follows(g, m, S, a, f)
    BY <1>2
  <2>2. /\ g \in [0..m -> S] /\ g[0] = a /\ \A i \in 1..m : g[i] = f[i][g[i - 1]]
        /\ m \in 0..m /\ m + 1 \in 1..n /\ g[m] \in S
    BY <2>1 DEF Follows
  <2> DEFINE v == f[m + 1][g[m]]
             h == [i \in 0..(m + 1) |-> IF i = m + 1 THEN v ELSE g[i]]
  <2>3. v \in S
    BY <2>2, Zenon
  <2>4. h[m + 1] = f[m + 1][g[m]] /\ \A i \in 0..m : h[i] = g[i]
    OBVIOUS
  <2> HIDE DEF v
  <2>5. h \in [0..(m + 1) -> S]
    BY <2>2, <2>3
  <2> HIDE DEF h
  <2>6. ASSUME NEW i \in 1..(m + 1) PROVE h[i] = f[i][h[i - 1]]
    <3>1. CASE i = m + 1
      BY <2>4, <3>1
    <3>2. CASE i # m + 1
      <4>1. i \in 1..m /\ i \in 0..m /\ i - 1 \in 0..m
        BY <3>2
      <4> QED
        BY <2>2, <2>4, <4>1, Zenon
    <3> QED
      BY <3>1, <3>2, Zenon
  <2>7. Follows(h, m + 1, S, a, f)
    BY <2>2, <2>4, <2>5, <2>6 DEF Follows
  <2> QED
    BY <2>7, Zenon
<1>3. Nat \subseteq T
  <2> HIDE DEF T
  <2> QED
    BY <1>1, <1>2, Induction, Zenon
<1> QED
  BY <1>3

-----------------------------------------------------------------------------
(***************************************************************************)
(* The walk around the ring for replicas.                                  *)
(***************************************************************************)
\* The datacenters and the racks of the cluster.
Dcs == {n.dc : n \in N}
Racks == {n.rack : n \in N}

\* A replication factor for each of some datacenters.
IsFactors(rf) == rf \in [DOMAIN rf -> Nat]

\* What is known at some point of the walk.
Accs(rf) == [rf : [DOMAIN rf -> Int], same : [DOMAIN rf -> Int], used : SUBSET (Dcs \X Racks),
             result : Seq(N), done : BOOLEAN]

\* What is known before the first node.
Start(rf) == [rf |-> rf, same |-> SameRackReplicas(rf), used |-> {}, result |-> <<>>, done |-> FALSE]

\* As many replicas may share a rack as there are more of them than racks: a
\* number for every datacenter, and never a negative one.
LEMMA SameRackOK ==
    ASSUME nodes \in Clusters, NEW rf, IsFactors(rf)
    PROVE  SameRackReplicas(rf) \in [DOMAIN rf -> Nat]
<1> DEFINE info == BuildDatacenterInfo(nodes)
           racks(dc) == {nodes[h].rack : h \in {g \in DOMAIN nodes : nodes[g].dc = dc}}
<1>1. ASSUME NEW dc PROVE Cardinality(racks(dc)) \in Nat
  <2> DEFINE H == {g \in DOMAIN nodes : nodes[g].dc = dc}
             f == [h \in H |-> nodes[h].rack]
             R == racks(dc)
  <2>1. H \in SUBSET DOMAIN nodes
    BY Zenon
  <2>2. f \in Surjection(H, R)
    BY Zenon DEF Surjection
  <2> HIDE DEF H, f, R
  <2>3. IsFiniteSet(H)
    BY <2>1, RingOK, FS_Subset, Zenon
  <2>4. Cardinality(R) \in Nat
    BY <2>2, <2>3, FS_Surjection, FS_CardinalityType, Zenon
  <2> QED
    BY <2>4, Zenon DEF R
<1>2. \A dc \in DOMAIN info : info[dc] = Cardinality(racks(dc))
  BY Zenon DEF BuildDatacenterInfo
<1>3. \A dc \in DOMAIN info : info[dc] \in Nat
  BY <1>1, <1>2, Zenon
<1> HIDE DEF info
<1>4. ASSUME NEW dc \in DOMAIN rf
      PROVE  SaturatingSub(rf[dc], IF dc \in DOMAIN info THEN info[dc] ELSE 0) \in Nat
  <2>1. rf[dc] \in Nat
    BY Zenon DEF IsFactors
  <2>2. (IF dc \in DOMAIN info THEN info[dc] ELSE 0) \in Nat
    BY <1>3, Zenon
  <2> QED
    BY <2>1, <2>2 DEF SaturatingSub
<1>5. SameRackReplicas(rf) = [dc \in DOMAIN rf |-> SaturatingSub(rf[dc], IF dc \in DOMAIN info THEN info[dc] ELSE 0)]
  BY Zenon DEF SameRackReplicas, info
<1> QED
  BY <1>4, <1>5, Zenon

\* The state of a walk by its parts, and what an update of one part makes of it.
Acc(r, s, u, l, d) == [rf |-> r, same |-> s, used |-> u, result |-> l, done |-> d]

\* What a visit makes of the state of the walk, case by case.
Visited(r, s, u, l, d, n, desired) ==
    LET next == Visit(Acc(r, s, u, l, d), n, desired)
        skip == d \/ n.dc \notin DOMAIN r \/ r[n.dc] = 0
        rack == <<n.dc, n.rack>>
        taken == [r EXCEPT ![n.dc] = r[n.dc] - 1]
        less == [s EXCEPT ![n.dc] = s[n.dc] - 1]
        more == Append(l, n)
    IN  /\ skip => next = Acc(r, s, u, l, d)
        /\ ~skip /\ rack \notin u => next = Acc(taken, s, u \cup {rack}, more, Len(more) = desired)
        /\ ~skip /\ rack \in u /\ s[n.dc] > 0 => next = Acc(taken, less, u, more, Len(more) = desired)
        /\ ~skip /\ rack \in u /\ ~(s[n.dc] > 0) => next = Acc(r, s, u, l, Len(l) = desired)

\* Visit does what its cases say.
LEMMA VisitSteps ==
    ASSUME NEW r, NEW s, NEW u, NEW l, NEW d, NEW n, NEW desired
    PROVE  Visited(r, s, u, l, d, n, desired)
<1> DEFINE acc == Acc(r, s, u, l, d)
           next == Visit(acc, n, desired)
           skip == d \/ n.dc \notin DOMAIN r \/ r[n.dc] = 0
           rack == <<n.dc, n.rack>>
           taken == [r EXCEPT ![n.dc] = r[n.dc] - 1]
           less == [s EXCEPT ![n.dc] = s[n.dc] - 1]
           more == Append(l, n)
           one == [Take(acc, n) EXCEPT !.used = @ \cup {rack}]
           two == [Take(acc, n) EXCEPT !.same[n.dc] = @ - 1]
           step == IF rack \notin acc.used THEN one ELSE IF acc.same[n.dc] > 0 THEN two ELSE acc
<1>1. acc.rf = r /\ acc.same = s /\ acc.used = u /\ acc.result = l /\ acc.done = d
  BY Zenon DEF Acc
<1>2. Take(acc, n) = Acc(taken, s, u, more, d)
  <2>1. [acc EXCEPT !.rf = taken] = Acc(taken, s, u, l, d)
    <3> HIDE DEF taken
    <3> QED
      BY DEF Acc
  <2>2. [Acc(taken, s, u, l, d) EXCEPT !.result = more] = Acc(taken, s, u, more, d)
    <3> HIDE DEF taken, more
    <3> QED
      BY DEF Acc
  <2>3. Take(acc, n) = [[acc EXCEPT !.rf = [acc.rf EXCEPT ![n.dc] = acc.rf[n.dc] - 1]]
                          EXCEPT !.result = Append(acc.result, n)]
    BY Zenon DEF Take
  <2> HIDE DEF acc
  <2> QED
    BY <1>1, <2>1, <2>2, <2>3, Zenon
<1>3. one = Acc(taken, s, u \cup {rack}, more, d)
  <2> HIDE DEF taken, more, rack
  <2>1. one = [Acc(taken, s, u, more, d) EXCEPT !.used = u \cup {rack}]
    <3>1. Acc(taken, s, u, more, d).used = u
      BY Zenon DEF Acc
    <3> QED
      BY <1>2, <3>1, Zenon
  <2>2. [Acc(taken, s, u, more, d) EXCEPT !.used = u \cup {rack}] = Acc(taken, s, u \cup {rack}, more, d)
    BY DEF Acc
  <2> QED
    BY <2>1, <2>2, Zenon
<1>4. two = Acc(taken, less, u, more, d)
  <2>1. two = [Acc(taken, s, u, more, d) EXCEPT !.same = less]
    <3> HIDE DEF taken, more
    <3>1. Acc(taken, s, u, more, d).same = s
      BY Zenon DEF Acc
    <3> QED
      BY <1>2, <3>1, Zenon
  <2> HIDE DEF taken, more, less
  <2>2. [Acc(taken, s, u, more, d) EXCEPT !.same = less] = Acc(taken, less, u, more, d)
    BY DEF Acc
  <2> QED
    BY <2>1, <2>2, Zenon
<1>5. skip => next = acc
  BY <1>1, Zenon DEF Visit
<1>6. ~skip => next = [step EXCEPT !.done = Len(step.result) = desired]
  <2> HIDE DEF acc
  <2> QED
    BY <1>1, Zenon DEF Visit
<1> HIDE DEF taken, more, less, rack, one, two, skip, next
<1>7. \A a, b, c, x : [Acc(a, b, c, x, d) EXCEPT !.done = Len(Acc(a, b, c, x, d).result) = desired]
                          = Acc(a, b, c, x, Len(x) = desired)
  <2> TAKE a, b, c, x
  <2>1. Acc(a, b, c, x, d).result = x
    BY Zenon DEF Acc
  <2> QED
    BY <2>1 DEF Acc
<1>8. rack \notin u => step = Acc(taken, s, u \cup {rack}, more, d)
  BY <1>1, <1>3, Zenon
<1>9. rack \in u /\ s[n.dc] > 0 => step = Acc(taken, less, u, more, d)
  BY <1>1, <1>4, Zenon
<1>10. rack \in u /\ ~(s[n.dc] > 0) => step = acc
  BY <1>1, Zenon
<1> HIDE DEF step
<1>11. ASSUME ~skip, rack \notin u PROVE next = Acc(taken, s, u \cup {rack}, more, Len(more) = desired)
  <2> DEFINE racks == u \cup {rack}
  <2>1. step = Acc(taken, s, racks, more, d)
    BY <1>8, <1>11, Zenon
  <2> HIDE DEF racks
  <2>2. [Acc(taken, s, racks, more, d) EXCEPT !.done = Len(Acc(taken, s, racks, more, d).result) = desired]
            = Acc(taken, s, racks, more, Len(more) = desired)
    BY <1>7
  <2> QED
    BY <1>6, <1>11, <2>1, <2>2, Zenon DEF racks
<1>12. ASSUME ~skip, rack \in u, s[n.dc] > 0 PROVE next = Acc(taken, less, u, more, Len(more) = desired)
  <2>1. step = Acc(taken, less, u, more, d)
    BY <1>9, <1>12, Zenon
  <2>2. [Acc(taken, less, u, more, d) EXCEPT !.done = Len(Acc(taken, less, u, more, d).result) = desired]
            = Acc(taken, less, u, more, Len(more) = desired)
    BY <1>7
  <2> QED
    BY <1>6, <1>12, <2>1, <2>2, Zenon
<1>13. ASSUME ~skip, rack \in u, ~(s[n.dc] > 0) PROVE next = Acc(r, s, u, l, Len(l) = desired)
  <2>1. step = Acc(r, s, u, l, d)
    BY <1>10, <1>13, Zenon
  <2>2. [Acc(r, s, u, l, d) EXCEPT !.done = Len(Acc(r, s, u, l, d).result) = desired]
            = Acc(r, s, u, l, Len(l) = desired)
    BY <1>7
  <2> QED
    BY <1>6, <1>13, <2>1, <2>2, Zenon
<1> QED
  BY <1>5, <1>11, <1>12, <1>13, Zenon DEF taken, more, less, rack, skip, next, Visited

\* next is acc after a step of the walk, with all of its outcomes.
Visits(rf, acc, n, desired, next) ==
    LET skip == acc.done \/ n.dc \notin DOMAIN rf \/ acc.rf[n.dc] = 0
        new == <<n.dc, n.rack>> \notin acc.used
        taken == [acc.rf EXCEPT ![n.dc] = acc.rf[n.dc] - 1]
    IN  /\ next \in Accs(rf)
        /\ skip => next = acc
        /\ ~skip /\ new =>
              /\ next.rf = taken /\ next.same = acc.same
              /\ next.used = acc.used \cup {<<n.dc, n.rack>>} /\ next.result = Append(acc.result, n)
        /\ ~skip /\ ~new /\ acc.same[n.dc] > 0 =>
              /\ next.rf = taken /\ next.same = [acc.same EXCEPT ![n.dc] = acc.same[n.dc] - 1]
              /\ next.used = acc.used /\ next.result = Append(acc.result, n)
        /\ ~skip /\ ~new /\ ~(acc.same[n.dc] > 0) =>
              /\ next.rf = acc.rf /\ next.same = acc.same
              /\ next.used = acc.used /\ next.result = acc.result
        /\ ~skip => next.done = (Len(next.result) = desired)

\* Visit is such a step.
LEMMA VisitIs ==
    ASSUME NEW rf, NEW acc \in Accs(rf), NEW n \in N, NEW desired
    PROVE  Visits(rf, acc, n, desired, Visit(acc, n, desired))
<1> DEFINE Dc == n.dc
           Rack == <<n.dc, n.rack>>
           next == Visit(acc, n, desired)
<1>1. PICK r \in [DOMAIN rf -> Int], s \in [DOMAIN rf -> Int], u \in SUBSET (Dcs \X Racks),
           l \in Seq(N), d \in BOOLEAN : acc = Acc(r, s, u, l, d)
  BY Zenon DEF Accs, Acc
<1> DEFINE taken == [r EXCEPT ![Dc] = r[Dc] - 1]
           less == [s EXCEPT ![Dc] = s[Dc] - 1]
           more == Append(l, n)
           passed == d \/ Dc \notin DOMAIN r \/ r[Dc] = 0
<1>2. acc.rf = r /\ acc.same = s /\ acc.used = u /\ acc.result = l /\ acc.done = d
  BY <1>1, Zenon DEF Acc
<1>3. /\ passed => next = acc
      /\ ~passed /\ Rack \notin u => next = Acc(taken, s, u \cup {Rack}, more, Len(more) = desired)
      /\ ~passed /\ Rack \in u /\ s[Dc] > 0 => next = Acc(taken, less, u, more, Len(more) = desired)
      /\ ~passed /\ Rack \in u /\ ~(s[Dc] > 0) => next = Acc(r, s, u, l, Len(l) = desired)
  <2>1. Visited(r, s, u, l, d, n, desired)
    BY VisitSteps, Zenon
  <2> QED
    BY <1>1, <2>1, Zenon DEF Visited
<1>4. CASE passed
  BY <1>2, <1>3, <1>4, Zenon DEF Visits
<1>5. CASE ~passed
  <2>0. Dc \in DOMAIN rf /\ ~d /\ r[Dc] # 0 /\ DOMAIN r = DOMAIN rf
    BY <1>5, Zenon
  <2>1. taken \in [DOMAIN rf -> Int] /\ less \in [DOMAIN rf -> Int] /\ more \in Seq(N)
    BY <2>0
  <2>2. Rack \in Dcs \X Racks
    BY Zenon DEF Dcs, Racks
  <2> HIDE DEF taken, less, more, next, passed
  <2>7. CASE Rack \notin u
    <3>2. next = Acc(taken, s, u \cup {Rack}, more, Len(more) = desired)
      BY <1>3, <1>5, <2>7, Zenon
    <3> QED
      BY <1>2, <2>0, <2>1, <2>2, <2>7, <3>2, SMTT(20) DEF Visits, Accs, Acc, taken, more, next
  <2>8. CASE Rack \in u /\ s[Dc] > 0
    <3>2. next = Acc(taken, less, u, more, Len(more) = desired)
      BY <1>3, <1>5, <2>8, Zenon
    <3> QED
      BY <1>2, <2>0, <2>1, <2>8, <3>2, SMTT(20) DEF Visits, Accs, Acc, taken, less, more, next
  <2>9. CASE Rack \in u /\ ~(s[Dc] > 0)
    <3>2. next = Acc(r, s, u, l, Len(l) = desired)
      BY <1>3, <1>5, <2>9, Zenon
    <3> QED
      BY <1>2, <2>0, <2>9, <3>2, SMTT(20) DEF Visits, Accs, Acc, next
  <2> QED
    BY <2>7, <2>8, <2>9, Zenon
<1> QED
  BY <1>4, <1>5, Zenon

\* The walk is what its definition says, step by step.
LEMMA Walked ==
    ASSUME nodes \in Clusters, NEW replicas \in Seq(N), NEW rf, IsFactors(rf)
    PROVE  LET acc == Walk(replicas, rf)
           IN  /\ acc[0] = Start(rf) /\ acc[0] \in Accs(rf)
               /\ \A i \in 1..Len(replicas) :
                     acc[i] \in Accs(rf) /\ acc[i] = Visit(acc[i - 1], replicas[i], Total(rf))
<1> DEFINE n == Len(replicas)
           A == Accs(rf)
           start == Start(rf)
           F(g) == [i \in 0..n |-> IF i = 0 THEN start ELSE Visit(g[i - 1], replicas[i], Total(rf))]
           f == [i \in 1..n |-> [x \in A |-> Visit(x, replicas[i], Total(rf))]]
           acc == Walk(replicas, rf)
<1>0. n \in Nat /\ \A i \in 1..n : replicas[i] \in N
  OBVIOUS
<1>1. start \in A
  BY SameRackOK DEF Accs, Start, IsFactors
<1>2. \A i \in 1..n : \A x \in A : Visit(x, replicas[i], Total(rf)) \in A
  BY <1>0, VisitIs, Zenon DEF Visits
<1>3. f \in [1..n -> [A -> A]]
  <2> HIDE DEF A
  <2> QED
    BY <1>2, Zenon
<1>4. acc = F(acc)
  <2>1. PICK g : Follows(g, n, A, start, f)
    <3> HIDE DEF A, f, n, start
    <3> QED
      BY <1>0, <1>1, <1>3, Recursion, Zenon
  <2>2. g = F(g)
    <3>1. g \in [0..n -> A] /\ g[0] = start /\ \A i \in 1..n : g[i] = f[i][g[i - 1]]
      BY <2>1, Zenon DEF Follows
    <3>2. ASSUME NEW i \in 0..n, i # 0 PROVE g[i] = Visit(g[i - 1], replicas[i], Total(rf))
      <4>1. i \in 1..n /\ i - 1 \in 0..n
        BY <1>0, <3>2
      <4>2. g[i - 1] \in A /\ g[i] = f[i][g[i - 1]]
        BY <3>1, <4>1, Zenon
      <4> HIDE DEF A, n
      <4> QED
        BY <4>1, <4>2, Zenon
    <3> HIDE DEF A, f, start, n
    <3> QED
      BY <3>1, <3>2, Zenon
  <2> QED
    BY <2>2, Zenon DEF Walk, Start
<1> HIDE DEF acc, A, start, n
<1>5. acc[0] = start
  BY <1>0, <1>4
<1>6. \A i \in 1..n : acc[i] = Visit(acc[i - 1], replicas[i], Total(rf))
  BY <1>0, <1>4
<1> DEFINE T == {i \in Nat : i <= n => acc[i] \in A}
<1>7. 0 \in T
  BY <1>1, <1>5, Zenon
<1>8. ASSUME NEW i \in Nat, i \in T PROVE i + 1 \in T
  <2> SUFFICES ASSUME i + 1 <= n PROVE acc[i + 1] \in A
    OBVIOUS
  <2>1. i + 1 \in 1..n /\ (i + 1) - 1 = i /\ acc[i] \in A
    BY <1>0, <1>8
  <2>2. acc[i + 1] = Visit(acc[(i + 1) - 1], replicas[i + 1], Total(rf))
    BY <1>6, <2>1, Zenon
  <2> QED
    BY <1>2, <2>1, <2>2, Zenon
<1>9. Nat \subseteq T
  <2> HIDE DEF T
  <2> QED
    BY <1>7, <1>8, Induction, Zenon
<1>10. \A i \in 1..n : acc[i] \in A
  BY <1>0, <1>9
<1> QED
  BY <1>1, <1>5, <1>6, <1>10, Zenon DEF acc, A, start, n

\* The replicas of a token are nodes.
LEMMA ReplicasAreNodes ==
    ASSUME nodes \in Clusters, NEW token, NEW rf, IsFactors(rf)
    PROVE  NodesForToken(token) \in Seq(N) /\ NetworkTopologyReplicas(token, rf) \in Seq(N)
<1> DEFINE r == NodesForToken(token)
           n == Len(r)
<1>1. r \in Seq(N)
  BY AroundTheRing, Zenon DEF NodesForToken
<1>2. NetworkTopologyReplicas(token, rf) = Walk(r, rf)[n].result
  BY Zenon DEF NetworkTopologyReplicas
<1> HIDE DEF r
<1>3. n \in Nat
  BY <1>1
<1> HIDE DEF n
<1>4. Walk(r, rf)[n] \in Accs(rf)
  <2>1. Walk(r, rf)[0] \in Accs(rf) /\ \A i \in 1..n : Walk(r, rf)[i] \in Accs(rf)
    BY <1>1, Walked, Zenon DEF n
  <2> QED
    BY <1>3, <2>1
<1>5. Walk(r, rf)[n].result \in Seq(N)
  BY <1>4, Zenon DEF Accs
<1> QED
  BY <1>1, <1>2, <1>5, Zenon DEF r

-----------------------------------------------------------------------------
(***************************************************************************)
(* Cassandra's placement, for one datacenter and one round of the ring.    *)
(***************************************************************************)
Hosted(d) == {h \in DOMAIN nodes : nodes[h].dc = d /\ nodes[h].tokens # {}}

\* The first node of every rack, and the others.
Firsts(w, d) ==
    {h \in Hosted(d) : \A g \in Hosted(d) : nodes[g].rack = nodes[h].rack => FirstAt(w, h) <= FirstAt(w, g)}
Others(w, d) == Hosted(d) \ Firsts(w, d)

Nearer(w, S, h) == {g \in S : FirstAt(w, g) < FirstAt(w, h)}
Nearest(w, S, m) == {h \in S : Cardinality(Nearer(w, S, h)) < m}

Placed(w, d, m) ==
    Nearest(w, Firsts(w, d), m)
    \cup Nearest(w, Others(w, d), SaturatingSub(m, Cardinality(Firsts(w, d))))

\* The nodes of S that come within i steps.
Passed(w, S, i) == {h \in S : FirstAt(w, h) <= i}

\* A round names the nodes that have tokens, and no others.
IsRound(w) ==
    /\ w \in Seq(N)
    /\ \A i \in DOMAIN w : w[i].tokens # {}
    /\ \A h \in DOMAIN nodes : nodes[h].tokens # {} => \E i \in DOMAIN w : w[i] = nodes[h]

\* Placement, datacenter by datacenter.
LEMMA PlacementIs ==
    ASSUME NEW token, NEW rf
    PROVE  Placement(token, rf) = UNION {Placed(NodesForToken(token), d, rf[d]) : d \in DOMAIN rf}
<1> DEFINE w == NodesForToken(token)
           place(d) == [h \in Hosted(d) |-> FirstAt(w, h)]
           first(d) == {h \in Hosted(d) : \A g \in Hosted(d) :
                            nodes[g].rack = nodes[h].rack => place(d)[h] <= place(d)[g]}
           near(d, S, n) == {h \in S : Cardinality({g \in S : place(d)[g] < place(d)[h]}) < n}
           placed(d) == near(d, first(d), rf[d])
                        \cup near(d, Hosted(d) \ first(d), SaturatingSub(rf[d], Cardinality(first(d))))
<1>1. Placement(token, rf) = UNION {placed(d) : d \in DOMAIN rf}
  BY Zenon DEF Placement, Hosted
<1> HIDE DEF w
<1>2. ASSUME NEW d PROVE placed(d) = Placed(w, d, rf[d])
  <2>1. \A h \in Hosted(d) : place(d)[h] = FirstAt(w, h)
    BY Zenon
  <2> HIDE DEF place
  <2>2. first(d) = Firsts(w, d)
    BY <2>1, Zenon DEF Firsts
  <2>3. ASSUME NEW S \in SUBSET Hosted(d), NEW n PROVE near(d, S, n) = Nearest(w, S, n)
    <3>1. \A h \in S : {g \in S : place(d)[g] < place(d)[h]} = Nearer(w, S, h)
      BY <2>1, Zenon DEF Nearer
    <3> QED
      BY <3>1, Zenon DEF Nearest
  <2>4. Firsts(w, d) \in SUBSET Hosted(d) /\ Hosted(d) \ Firsts(w, d) \in SUBSET Hosted(d)
    BY Zenon DEF Firsts
  <2> HIDE DEF first, near
  <2> QED
    BY <2>2, <2>3, <2>4, Zenon DEF Placed, Others
<1> HIDE DEF placed
<1> QED
  BY <1>1, <1>2, Zenon DEF w

\* Where a node comes first.
LEMMA FirstAtIs ==
    ASSUME nodes \in Clusters, NEW w, IsRound(w), NEW h \in DOMAIN nodes, nodes[h].tokens # {}
    PROVE  /\ FirstAt(w, h) \in DOMAIN w /\ w[FirstAt(w, h)] = nodes[h]
           /\ \A i \in DOMAIN w : w[i].host = h => FirstAt(w, h) <= i
<1> DEFINE At == {i \in DOMAIN w : w[i].host = h}
<1>0. IsNodeMap(nodes)
  BY ClustersAssumption, Zenon
<1>1. w \in Seq(N) /\ DOMAIN w = 1..Len(w) /\ Len(w) \in Nat
  BY DEF IsRound
<1>2. At \in SUBSET Nat /\ At # {}
  BY <1>0, <1>1 DEF IsRound, IsNodeMap
<1>3. PICK x \in At : \A y \in At : x <= y
  BY <1>2, Least, Zenon
<1>4. x \in DOMAIN w /\ w[x].host = h /\ \A j \in 1..(x - 1) : w[j].host # h
  BY <1>1, <1>3
<1> DEFINE f == FirstAt(w, h)
<1>5. f \in DOMAIN w /\ w[f].host = h /\ \A j \in 1..(f - 1) : w[j].host # h
  BY <1>4, Zenon DEF FirstAt
<1> HIDE DEF f
<1>6. ASSUME NEW i \in DOMAIN w, w[i].host = h PROVE f <= i
  BY <1>1, <1>5, <1>6
<1>7. w[f] \in N
  BY <1>1, <1>5
<1>8. PICK g \in DOMAIN nodes : w[f] = nodes[g]
  BY <1>7, Zenon DEF N
<1>9. g = h
  BY <1>0, <1>5, <1>8, Zenon DEF IsNodeMap
<1> QED
  BY <1>5, <1>6, <1>8, <1>9, Zenon DEF f

\* Nodes are known by their hosts.
LEMMA NodeIs ==
    ASSUME nodes \in Clusters, NEW n \in N
    PROVE  n.host \in DOMAIN nodes /\ nodes[n.host] = n
<1>1. PICK g \in DOMAIN nodes : n = nodes[g]
  BY Zenon DEF N
<1>2. nodes[g].host = g
  BY ClustersAssumption, Zenon DEF IsNodeMap
<1> QED
  BY <1>1, <1>2, Zenon

\* The hosts of a datacenter are finitely many.
LEMMA HostedFinite ==
    ASSUME nodes \in Clusters, NEW d, NEW S \in SUBSET Hosted(d)
    PROVE  IsFiniteSet(S) /\ Cardinality(S) \in Nat
<1>1. S \in SUBSET DOMAIN nodes
  BY Zenon DEF Hosted
<1> QED
  BY <1>1, RingOK, FS_Subset, FS_CardinalityType, Zenon

\* A step of a round passes at most one node.
LEMMA PassedNext ==
    ASSUME nodes \in Clusters, NEW w, IsRound(w), NEW d, NEW S \in SUBSET Hosted(d),
           NEW i \in Nat, i + 1 \in DOMAIN w
    PROVE  LET h == w[i + 1].host
           IN  /\ h \notin S => Passed(w, S, i + 1) = Passed(w, S, i)
               /\ h \in S => Passed(w, S, i + 1) = Passed(w, S, i) \cup {h}
<1> DEFINE h == w[i + 1].host
<1>1. ASSUME NEW g \in S
      PROVE  /\ FirstAt(w, g) \in Nat /\ w[FirstAt(w, g)].host = g
             /\ \A j \in DOMAIN w : w[j].host = g => FirstAt(w, g) <= j
  <2>1. g \in DOMAIN nodes /\ nodes[g].tokens # {} /\ nodes[g].host = g
    BY ClustersAssumption, Zenon DEF Hosted, IsNodeMap
  <2>2. DOMAIN w \in SUBSET Nat
    BY DEF IsRound
  <2> QED
    BY <2>1, <2>2, FirstAtIs, Zenon
<1>2. ASSUME NEW g \in S, g # h PROVE FirstAt(w, g) <= i + 1 <=> FirstAt(w, g) <= i
  <2>1. FirstAt(w, g) # i + 1
    BY <1>1, <1>2, Zenon
  <2> QED
    BY <1>1, <2>1
<1>3. ASSUME h \in S PROVE FirstAt(w, h) <= i + 1
  BY <1>1, <1>3, Zenon
<1>4. ASSUME NEW g \in S, FirstAt(w, g) <= i PROVE FirstAt(w, g) <= i + 1
  BY <1>1, <1>4
<1> HIDE DEF h
<1>5. h \notin S => Passed(w, S, i + 1) = Passed(w, S, i)
  BY <1>2, Zenon DEF Passed
<1>6. h \in S => Passed(w, S, i + 1) = Passed(w, S, i) \cup {h}
  BY <1>2, <1>3, <1>4, Zenon DEF Passed
<1> QED
  BY <1>5, <1>6, Zenon DEF h

\* How many nodes are passed.
LEMMA PassedCount ==
    ASSUME nodes \in Clusters, NEW w, IsRound(w), NEW d, NEW S \in SUBSET Hosted(d),
           NEW i \in Nat, i + 1 \in DOMAIN w
    PROVE  LET h == w[i + 1].host
               now == Cardinality(Passed(w, S, i))
               then == Cardinality(Passed(w, S, i + 1))
           IN  /\ now \in Nat /\ then \in Nat /\ now <= Cardinality(S)
               /\ h \in S /\ h \notin Passed(w, S, i) => then = now + 1
               /\ ~(h \in S /\ h \notin Passed(w, S, i)) => then = now
<1> DEFINE h == w[i + 1].host
           P == Passed(w, S, i)
           Q == Passed(w, S, i + 1)
<1>1. P \in SUBSET Hosted(d) /\ Q \in SUBSET Hosted(d) /\ P \in SUBSET S
  BY Zenon DEF Passed
<1>2. IsFiniteSet(P) /\ Cardinality(P) \in Nat /\ Cardinality(Q) \in Nat /\ IsFiniteSet(S)
  BY <1>1, HostedFinite, Zenon
<1>3. h \notin S => Q = P
  BY PassedNext
<1>4. h \in S => Q = P \cup {h}
  BY PassedNext
<1> HIDE DEF h, P, Q
<1>5. ASSUME h \in S, h \notin P PROVE Cardinality(Q) = Cardinality(P) + 1
  BY <1>2, <1>4, <1>5, FS_AddElement, Zenon
<1>6. ASSUME ~(h \in S /\ h \notin P) PROVE Q = P
  BY <1>3, <1>4, <1>6, Zenon
<1>7. Cardinality(P) <= Cardinality(S)
  BY <1>1, <1>2, FS_Subset, Zenon
<1> QED
  BY <1>2, <1>5, <1>6, <1>7, Zenon DEF h, P, Q

\* Nothing is passed at first.
LEMMA PassedNone ==
    ASSUME nodes \in Clusters, NEW w, IsRound(w), NEW d, NEW S \in SUBSET Hosted(d)
    PROVE  Passed(w, S, 0) = {} /\ Cardinality(Passed(w, S, 0)) = 0
<1>1. ASSUME NEW g \in S PROVE ~(FirstAt(w, g) <= 0)
  <2>1. g \in DOMAIN nodes /\ nodes[g].tokens # {}
    BY Zenon DEF Hosted
  <2>2. FirstAt(w, g) \in DOMAIN w
    BY <2>1, FirstAtIs, Zenon
  <2>3. DOMAIN w = 1..Len(w)
    BY DEF IsRound
  <2> QED
    BY <2>2, <2>3
<1>2. Passed(w, S, 0) = {}
  BY <1>1, Zenon DEF Passed
<1> QED
  BY <1>2, FS_EmptySet, Zenon

\* What has been passed while there were no more than m is among the m nearest.
LEMMA PassedAreNearest ==
    ASSUME nodes \in Clusters, NEW w, IsRound(w), NEW d, NEW S \in SUBSET Hosted(d),
           NEW i \in Nat, NEW m \in Nat, Cardinality(Passed(w, S, i)) <= m
    PROVE  Passed(w, S, i) \subseteq Nearest(w, S, m)
<1> DEFINE P == Passed(w, S, i)
<1>1. P \in SUBSET Hosted(d) /\ P \in SUBSET S
  BY Zenon DEF Passed
<1>2. IsFiniteSet(P) /\ Cardinality(P) \in Nat
  BY <1>1, HostedFinite, Zenon
<1>3. \A g \in S : FirstAt(w, g) \in Nat
  <2>1. DOMAIN w \in SUBSET Nat
    BY DEF IsRound
  <2> QED
    BY <2>1, FirstAtIs, Zenon DEF Hosted
<1>4. ASSUME NEW h \in P PROVE Cardinality(Nearer(w, S, h)) < m
  <2> DEFINE C == Nearer(w, S, h)
  <2>1. C \in SUBSET (P \ {h})
    BY <1>3, <1>4 DEF Nearer, Passed
  <2> HIDE DEF C, P
  <2>2. IsFiniteSet(P \ {h}) /\ Cardinality(P \ {h}) = Cardinality(P) - 1
    BY <1>2, <1>4, FS_RemoveElement, Zenon
  <2>3. Cardinality(C) <= Cardinality(P) - 1 /\ Cardinality(C) \in Nat
    BY <2>1, <2>2, FS_Subset, FS_CardinalityType
  <2> QED
    BY <1>2, <2>3 DEF C, P
<1> QED
  BY <1>1, <1>4, Zenon DEF Nearest
-----------------------------------------------------------------------------
(***************************************************************************)
(* From a token, the walk goes around the ring exactly once.               *)
(***************************************************************************)
\* c lists the tokens of the ring in the order of the walk w.
IsTokens(c, w) ==
    LET n == Cardinality(DOMAIN Ring)
    IN  /\ c \in Surjection(1..n, DOMAIN Ring) /\ n \in Nat
        /\ w = [i \in 1..n |-> Ring[c[i]]]

\* Sequences one after the other, entry by entry.
Joins(c, a, b, S) ==
    /\ c \in Seq(S) /\ Len(c) = Len(a) + Len(b)
    /\ \A i \in 1..Len(a) : c[i] = a[i]
    /\ \A i \in 1..Len(b) : c[Len(a) + i] = b[i]

\* Concatenation joins.
LEMMA OneAfterTheOther ==
    ASSUME NEW S, NEW a \in Seq(S), NEW b \in Seq(S)
    PROVE  Joins(a \o b, a, b, S)
BY DEF Joins

\* A walk comes to every token.
LEMMA OnceAround ==
    ASSUME nodes \in Clusters, NEW token \in Int
    PROVE  \E c : IsTokens(c, NodesForToken(token))
<1> DEFINE D == DOMAIN Ring
           n == Cardinality(D)
           A == {t \in D : t >= token}
           B == {t \in D : ~(t >= token)}
           k == Cardinality(A)
           a == Ascending(A)
           o == Ascending(D)
           s == FromToken(token)
           c == Capped(s, n)
<1>1. IsFiniteSet(D) /\ D \in SUBSET Int
  BY RingOK, Zenon
<1>2. A \in SUBSET D /\ B \in SUBSET D /\ A \cup B = D /\ A \cap B = {}
  BY Zenon
<1>b. \A t \in D : t \in B <=> ~(t >= token)
  BY Zenon
<1>3. s = a \o o
  BY Zenon DEF FromToken
<1> HIDE DEF A, B, D, s
<1>4. IsFiniteSet(A) /\ IsFiniteSet(B) /\ A \in SUBSET Int /\ n \in Nat /\ k \in Nat /\ Cardinality(B) \in Nat
  BY <1>1, <1>2, FS_Subset, FS_CardinalityType, Zenon
<1>5. n = k + Cardinality(B) /\ k <= n
  <2>1. Cardinality(A \cup B) = Cardinality(A) + Cardinality(B) - Cardinality(A \cap B)
    BY <1>4, FS_Union, Zenon
  <2>2. Cardinality(A \cap B) = 0
    BY <1>2, FS_EmptySet, Zenon
  <2>3. n = Cardinality(A \cup B)
    BY <1>2, Zenon
  <2> HIDE DEF n
  <2> QED
    BY <1>4, <2>1, <2>2, <2>3
<1>6. IsOrder(a, A) /\ a \in Seq(A) /\ Len(a) = k
  BY <1>4, AscendingSorts, Zenon
<1>7. IsOrder(o, D) /\ o \in Seq(D) /\ Len(o) = n
  BY <1>1, AscendingSorts, Zenon
<1>8. /\ \A t \in A : \E i \in 1..k : a[i] = t
      /\ \A t \in D : \E i \in 1..n : o[i] = t
      /\ \A i, j \in 1..n : i < j => o[i] < o[j]
      /\ \A i \in 1..n : o[i] \in D
  BY <1>6, <1>7, Zenon DEF IsOrder
<1> HIDE DEF a, o
<1>9. /\ s \in Seq(D) /\ Len(s) = k + n
      /\ \A i \in 1..k : s[i] = a[i]
      /\ \A i \in 1..n : s[k + i] = o[i]
  <2>1. a \in Seq(D)
    BY <1>2, <1>6
  <2>2. Joins(s, a, o, D)
    BY <1>3, <1>7, <2>1, OneAfterTheOther, Zenon
  <2>3. Len(a) = k /\ Len(o) = n
    BY <1>6, <1>7, Zenon
  <2> HIDE DEF k, n
  <2> QED
    BY <2>2, <2>3, Zenon DEF Joins
<1>10. /\ c \in Seq(D) /\ Len(c) = n /\ DOMAIN c = 1..n
       /\ \A i \in 1..n : c[i] = s[i]
  <2> HIDE DEF n, k
  <2>1. /\ c \in Seq(D) /\ Len(c) = (IF n < Len(s) THEN n ELSE Len(s))
        /\ \A i \in DOMAIN c : c[i] = s[i]
    BY <1>4, <1>9, CappedIs, Zenon
  <2>2. Len(c) = n
    BY <1>4, <1>9, <2>1
  <2>3. DOMAIN c = 1..n
    BY <1>4, <2>1, <2>2
  <2> QED
    BY <2>1, <2>2, <2>3, Zenon
<1> HIDE DEF c, s
<1>11. ASSUME NEW j \in 1..n, o[j] \in B PROVE k + j <= n
  <2> DEFINE f == [i \in 1..j |-> o[i]]
  <2>1. ASSUME NEW i \in 1..j PROVE o[i] \in B
    <3>1. i \in 1..n /\ (i = j \/ i < j)
      BY <1>4, <1>11
    <3>2. o[i] \in D /\ o[j] \in D /\ o[i] \in Int /\ o[j] \in Int /\ ~(o[j] >= token)
      BY <1>1, <1>8, <1>b, <1>11, <3>1, Zenon
    <3>3. i = j \/ o[i] < o[j]
      BY <1>8, <3>1, Zenon
    <3> QED
      BY <1>b, <3>2, <3>3
  <2>2. ASSUME NEW x \in 1..j, NEW y \in 1..j, o[x] = o[y] PROVE x = y
    <3>1. x \in 1..n /\ y \in 1..n
      BY <1>4, <1>11
    <3>2. o[x] \in Int /\ o[y] \in Int
      BY <1>1, <1>8, <3>1, Zenon
    <3>3. ~(x < y) /\ ~(y < x)
      BY <1>8, <2>2, <3>1, <3>2
    <3> QED
      BY <3>1, <3>3
  <2>3. f \in Injection(1..j, B)
    BY <2>1, <2>2, Zenon DEF Injection, IsInjective
  <2>4. Cardinality(1..j) = j
    BY <1>4, <1>11, FS_Interval
  <2> HIDE DEF f
  <2>5. Cardinality(1..j) <= Cardinality(B)
    BY <1>4, <2>3, FS_Injection, Zenon
  <2> HIDE DEF n, k
  <2> QED
    BY <1>4, <1>5, <2>4, <2>5
<1>12. ASSUME NEW t \in D PROVE \E i \in 1..n : c[i] = t
  <2>1. CASE t \in A
    <3>1. PICK i \in 1..k : a[i] = t
      BY <1>8, <2>1, Zenon
    <3>2. i \in 1..n
      BY <1>4, <1>5
    <3> QED
      BY <1>9, <1>10, <3>1, <3>2, Zenon
  <2>2. CASE t \in B
    <3>1. PICK j \in 1..n : o[j] = t
      BY <1>8, Zenon
    <3>2. k + j \in 1..n
      <4>1. k + j <= n
        BY <1>11, <2>2, <3>1, Zenon
      <4> QED
        BY <1>4, <4>1
    <3> QED
      BY <1>9, <1>10, <3>1, <3>2, Zenon
  <2> QED
    BY <1>2, <2>1, <2>2, Zenon
<1>13. c \in [1..n -> D]
  BY <1>4, <1>10
<1>14. c \in Surjection(1..n, D)
  BY <1>12, <1>13, Zenon DEF Surjection
<1>15. NodesForToken(token) = [i \in 1..n |-> Ring[c[i]]]
  <2>1. NodesForToken(token) = [i \in DOMAIN c |-> Ring[c[i]]]
    BY Zenon DEF NodesForToken, NodesForTokenCapped, c, s, D
  <2> QED
    BY <1>10, <2>1, Zenon
<1>16. IsTokens(c, NodesForToken(token))
  BY <1>4, <1>14, <1>15, Zenon DEF IsTokens, D
<1> QED
  BY <1>16, Zenon

\* Every node has one token.
OneToken == \A h \in DOMAIN nodes : Cardinality(nodes[h].tokens) = 1

\* A walk is a round, and comes to a node as often as it has tokens.
LEMMA WalkIsRound ==
    ASSUME nodes \in Clusters, NEW token \in Int
    PROVE  LET w == NodesForToken(token)
           IN  /\ IsRound(w)
               /\ OneToken => \A i, j \in DOMAIN w : w[i].host = w[j].host => i = j
<1> DEFINE w == NodesForToken(token)
           D == DOMAIN Ring
           n == Cardinality(D)
<1>1. PICK c : IsTokens(c, w)
  BY OnceAround, Zenon
<1> HIDE DEF w
<1>2. n \in Nat /\ c \in Surjection(1..n, D) /\ w = [i \in 1..n |-> Ring[c[i]]]
  BY <1>1, Zenon DEF IsTokens
<1>3. /\ \A t \in D : Ring[t] \in N /\ t \in Ring[t].tokens
      /\ \A h \in DOMAIN nodes : \A t \in nodes[h].tokens : t \in D /\ Ring[t] = nodes[h]
  BY RingOK, Zenon
<1> HIDE DEF D, n
<1>4. DOMAIN w = 1..n /\ \A i \in 1..n : c[i] \in D /\ w[i] = Ring[c[i]]
  BY <1>2, Zenon DEF Surjection
<1>5. \A t \in D : \E i \in 1..n : c[i] = t
  BY <1>2, Zenon DEF Surjection
<1>6. w \in [1..n -> N]
  BY <1>2, <1>3, <1>4, Zenon
<1>7. w \in Seq(N)
  BY <1>2, <1>6
<1>8. \A i \in 1..n : w[i].tokens # {}
  BY <1>3, <1>4, Zenon
<1>9. ASSUME NEW h \in DOMAIN nodes, nodes[h].tokens # {} PROVE \E i \in 1..n : w[i] = nodes[h]
  <2>1. PICK t \in nodes[h].tokens : TRUE
    BY <1>9, Zenon
  <2>2. PICK i \in 1..n : c[i] = t
    BY <1>3, <1>5, Zenon
  <2> QED
    BY <1>3, <1>4, <2>2
<1>10. IsRound(w)
  BY <1>4, <1>7, <1>8, <1>9, Zenon DEF IsRound
<1>11. ASSUME OneToken, NEW i \in 1..n, NEW j \in 1..n, w[i].host = w[j].host PROVE i = j
  <2>1. c \in Injection(1..n, D)
    <3>1. IsFiniteSet(1..n) /\ Cardinality(1..n) = n
      BY <1>2, FS_Interval
    <3> QED
      BY <1>2, <3>1, FS_Surjection, Zenon DEF n
  <2>2. w[i] \in N /\ w[j] \in N
    BY <1>6, Zenon
  <2>3. w[i] = w[j] /\ w[i].host \in DOMAIN nodes /\ w[i] = nodes[w[i].host]
    BY <1>11, <2>2, NodeIs, Zenon
  <2>4. c[i] \in w[i].tokens /\ c[j] \in w[i].tokens
    BY <1>3, <1>4, <2>3
  <2>5. PICK t : w[i].tokens = {t}
    <3>1. IsFiniteSet(w[i].tokens) /\ Cardinality(w[i].tokens) = 1
      BY <1>11, <2>3, ClustersAssumption DEF OneToken, IsNodeMap
    <3> QED
      BY <3>1, FS_Singleton, Zenon
  <2>6. c[i] = c[j]
    BY <2>4, <2>5, Zenon
  <2> QED
    BY <2>1, <2>6, Zenon DEF Injection, IsInjective
<1> QED
  BY <1>4, <1>10, <1>11, Zenon DEF w

\* There are as many first nodes as racks that have a token.
LEMMA FirstsAndRacks ==
    ASSUME nodes \in Clusters, NEW w, IsRound(w), NEW rf, IsFactors(rf), NEW d \in DOMAIN rf
    PROVE  /\ SameRackReplicas(rf)[d] \in Nat
           /\ SameRackReplicas(rf)[d] <= SaturatingSub(rf[d], Cardinality(Firsts(w, d)))
           /\ OneToken => SameRackReplicas(rf)[d] = SaturatingSub(rf[d], Cardinality(Firsts(w, d)))
<1> DEFINE info == BuildDatacenterInfo(nodes)
           H == {g \in DOMAIN nodes : nodes[g].dc = d}
           R == {nodes[h].rack : h \in H}
           C == Firsts(w, d)
           f == [h \in C |-> nodes[h].rack]
<1>1. IsFiniteSet(R) /\ Cardinality(R) \in Nat
  <2> DEFINE e == [h \in H |-> nodes[h].rack]
  <2>1. H \in SUBSET DOMAIN nodes
    BY Zenon
  <2>2. e \in Surjection(H, R)
    BY Zenon DEF Surjection
  <2> HIDE DEF H, e, R
  <2>3. IsFiniteSet(H)
    BY <2>1, RingOK, FS_Subset, Zenon
  <2> QED
    BY <2>2, <2>3, FS_Surjection, FS_CardinalityType, Zenon
<1>2. C \in SUBSET Hosted(d) /\ C \in SUBSET H
  BY Zenon DEF Firsts, Hosted
<1>3. IsFiniteSet(C) /\ Cardinality(C) \in Nat
  BY <1>2, HostedFinite, Zenon
<1>4. ASSUME NEW h \in C, NEW g \in C, nodes[h].rack = nodes[g].rack PROVE h = g
  <2>1. h \in Hosted(d) /\ g \in Hosted(d) /\ FirstAt(w, h) <= FirstAt(w, g) /\ FirstAt(w, g) <= FirstAt(w, h)
    BY <1>4, Zenon DEF Firsts
  <2>2. /\ h \in DOMAIN nodes /\ nodes[h].tokens # {} /\ nodes[h].host = h
        /\ g \in DOMAIN nodes /\ nodes[g].tokens # {} /\ nodes[g].host = g
    BY <2>1, ClustersAssumption, Zenon DEF Hosted, IsNodeMap
  <2>3. /\ FirstAt(w, h) \in DOMAIN w /\ w[FirstAt(w, h)] = nodes[h]
        /\ FirstAt(w, g) \in DOMAIN w /\ w[FirstAt(w, g)] = nodes[g]
    BY <2>2, FirstAtIs, Zenon
  <2>4. DOMAIN w \in SUBSET Int
    BY DEF IsRound
  <2>5. FirstAt(w, h) = FirstAt(w, g)
    BY <2>1, <2>3, <2>4
  <2> QED
    BY <2>2, <2>3, <2>5, Zenon
<1>5. f \in Injection(C, R)
  <2>1. \A h \in C : nodes[h].rack \in R
    BY <1>2, Zenon
  <2> HIDE DEF R, C
  <2> QED
    BY <1>4, <2>1, Zenon DEF Injection, IsInjective
<1>6. Cardinality(C) <= Cardinality(R) /\ (f \in Surjection(C, R) => Cardinality(C) = Cardinality(R))
  <2> HIDE DEF C, R, f
  <2> QED
    BY <1>1, <1>5, FS_Injection, Zenon
<1>7. ASSUME OneToken, NEW r \in R PROVE \E h \in C : nodes[h].rack = r
  <2> DEFINE P == {FirstAt(w, h) : h \in {g \in Hosted(d) : nodes[g].rack = r}}
  <2>1. ASSUME NEW h \in H PROVE h \in Hosted(d)
    <3>1. nodes[h].tokens # {}
      BY <1>7, FS_EmptySet DEF OneToken
    <3> QED
      BY <3>1, Zenon DEF Hosted
  <2>2. P # {}
    BY <1>7, <2>1, Zenon
  <2>3. \A h \in Hosted(d) : FirstAt(w, h) \in Nat
    <3>1. DOMAIN w \in SUBSET Nat
      BY DEF IsRound
    <3> QED
      BY <3>1, FirstAtIs, Zenon DEF Hosted
  <2>4. PICK x \in P : \A y \in P : x <= y
    <3>1. P \in SUBSET Nat
      BY <2>3, Zenon
    <3> HIDE DEF P
    <3> QED
      BY <2>2, <3>1, Least, Zenon
  <2>5. PICK h \in Hosted(d) : nodes[h].rack = r /\ x = FirstAt(w, h)
    BY <2>4, Zenon
  <2>6. h \in C
    BY <2>4, <2>5, Zenon DEF Firsts
  <2> QED
    BY <2>5, <2>6, Zenon
<1>8. OneToken => f \in Surjection(C, R)
  <2> HIDE DEF C, R
  <2> QED
    BY <1>5, <1>7, Zenon DEF Injection, Surjection
<1> DEFINE racks == IF d \in DOMAIN info THEN info[d] ELSE 0
<1>9. racks = Cardinality(R)
  <2>1. CASE d \in DOMAIN info
    BY <2>1, Zenon DEF BuildDatacenterInfo
  <2>2. CASE d \notin DOMAIN info
    <3>1. H = {}
      BY <2>2, Zenon DEF BuildDatacenterInfo
    <3>2. R = {}
      BY <3>1, Zenon
    <3> HIDE DEF R, info
    <3> QED
      BY <2>2, <3>2, FS_EmptySet, Zenon
  <2> QED
    BY <2>1, <2>2, Zenon
<1>10. SameRackReplicas(rf)[d] = SaturatingSub(rf[d], racks)
  BY Zenon DEF SameRackReplicas
<1>11. rf[d] \in Nat
  BY Zenon DEF IsFactors
<1> HIDE DEF C, R, f, racks
<1> QED
  BY <1>1, <1>3, <1>6, <1>8, <1>9, <1>10, <1>11 DEF SaturatingSub, C
-----------------------------------------------------------------------------
(***************************************************************************)
(* The sum of the factors: what the walk still has to find.                *)
(***************************************************************************)
Units(rf) == UNION {{d} \X (1..rf[d]) : d \in DOMAIN rf}

\* The sum is a number, is zero only if all are, and goes down with each.
LEMMA TotalIs ==
    ASSUME NEW rf, IsFactors(rf), IsFiniteSet(DOMAIN rf)
    PROVE  /\ Total(rf) \in Nat
           /\ Total(rf) = 0 => \A d \in DOMAIN rf : rf[d] = 0
           /\ \A d \in DOMAIN rf : rf[d] # 0 => Total([rf EXCEPT ![d] = rf[d] - 1]) = Total(rf) - 1
<1>0. \A d \in DOMAIN rf : rf[d] \in Nat
  BY Zenon DEF IsFactors
<1>1. Total(rf) = Cardinality(Units(rf))
  BY Zenon DEF Total, Units
<1>2. IsFiniteSet(Units(rf))
  <2> DEFINE part(d) == {d} \X (1..rf[d])
             P == {part(d) : d \in DOMAIN rf}
             f == [d \in DOMAIN rf |-> part(d)]
  <2>1. \A d \in DOMAIN rf : IsFiniteSet(part(d))
    <3> TAKE d \in DOMAIN rf
    <3> DEFINE g == [i \in 1..rf[d] |-> <<d, i>>]
    <3>1. g \in Surjection(1..rf[d], part(d))
      BY DEF Surjection
    <3>2. IsFiniteSet(1..rf[d])
      BY <1>0, FS_Interval
    <3> HIDE DEF g, part
    <3> QED
      BY <3>1, <3>2, FS_Surjection, Zenon
  <2> HIDE DEF part
  <2>2. f \in Surjection(DOMAIN rf, P)
    BY Zenon DEF Surjection
  <2>3. \A s \in P : IsFiniteSet(s)
    BY <2>1, Zenon
  <2> HIDE DEF f, P
  <2>4. IsFiniteSet(P)
    BY <2>2, FS_Surjection, Zenon
  <2>5. IsFiniteSet(UNION P)
    BY <2>3, <2>4, FS_UNION, Zenon
  <2> QED
    BY <2>5, Zenon DEF Units, P, part
<1>3. Cardinality(Units(rf)) \in Nat
  BY <1>2, FS_CardinalityType, Zenon
<1>4. ASSUME Total(rf) = 0, NEW d \in DOMAIN rf PROVE rf[d] = 0
  <2>1. Units(rf) = {}
    BY <1>1, <1>2, <1>4, FS_EmptySet, Zenon
  <2>2. 1 \in 1..rf[d] => <<d, 1>> \in Units(rf)
    <3>1. 1 \in 1..rf[d] => <<d, 1>> \in {d} \X (1..rf[d])
      BY Zenon
    <3> QED
      BY <3>1, Zenon DEF Units
  <2> QED
    BY <1>0, <2>1, <2>2
<1>5. ASSUME NEW d \in DOMAIN rf, rf[d] # 0
      PROVE  Total([rf EXCEPT ![d] = rf[d] - 1]) = Total(rf) - 1
  <2> DEFINE less == [rf EXCEPT ![d] = rf[d] - 1]
             u == <<d, rf[d]>>
  <2>1. /\ DOMAIN less = DOMAIN rf /\ less[d] = rf[d] - 1
        /\ \A e \in DOMAIN rf : e # d => less[e] = rf[e]
    BY <1>5, Zenon DEF IsFactors
  <2>2. Total(less) = Cardinality(Units(less))
    BY Zenon DEF Total, Units
  <2> HIDE DEF less
  <2>3. u \in Units(rf)
    <3>1. rf[d] \in 1..rf[d]
      BY <1>0, <1>5
    <3> QED
      BY <3>1 DEF Units
  <2>4. Units(less) = Units(rf) \ {u}
    <3>0. 1..less[d] = (1..rf[d]) \ {rf[d]}
      BY <1>0, <1>5, <2>1
    <3>1. ASSUME NEW x \in Units(less) PROVE x \in Units(rf) \ {u}
      <4>1. PICK e \in DOMAIN rf : x \in {e} \X (1..less[e])
        BY <2>1, <3>1, Zenon DEF Units
      <4>2. x \in {e} \X (1..rf[e]) /\ x # u
        BY <2>1, <3>0, <4>1
      <4> QED
        BY <4>2, Zenon DEF Units
    <3>2. ASSUME NEW x \in Units(rf) \ {u} PROVE x \in Units(less)
      <4>1. PICK e \in DOMAIN rf : x \in {e} \X (1..rf[e])
        BY <3>2, Zenon DEF Units
      <4>2. x \in {e} \X (1..less[e])
        BY <2>1, <3>0, <3>2, <4>1
      <4> QED
        BY <2>1, <4>2, Zenon DEF Units
    <3> QED
      BY <3>1, <3>2, Zenon
  <2> HIDE DEF u
  <2>5. Cardinality(Units(less)) = Cardinality(Units(rf)) - 1
    BY <1>2, <2>3, <2>4, FS_RemoveElement, Zenon
  <2> QED
    BY <1>1, <2>2, <2>5, Zenon DEF less
<1> QED
  BY <1>1, <1>3, <1>4, <1>5, Zenon
-----------------------------------------------------------------------------
(***************************************************************************)
(* What the walk has found after i steps, in one datacenter: a and s are   *)
(* the replicas still to find, in all and in racks that are used already.  *)
(***************************************************************************)
Seen(w, d, i, rack) == \E j \in 1..i : w[j].dc = d /\ w[j].rack = rack

\* As long as the walk goes on, it has used the racks that it has seen and
\* taken the first node of each of them, and others only when it could.
Counts(w, rf, d, i, a, s, used, done) ==
    /\ a \in 0..rf[d] /\ s \in 0..SameRackReplicas(rf)[d]
    /\ ~done /\ a # 0 =>
          /\ \A rack : <<d, rack>> \in used <=> Seen(w, d, i, rack)
          /\ Cardinality(Passed(w, Firsts(w, d), i)) <= rf[d] - a
          /\ s # 0 => Cardinality(Passed(w, Others(w, d), i)) <= SameRackReplicas(rf)[d] - s

OnlyPlaced(w, rf, result) ==
    \A k \in DOMAIN result :
        result[k].dc \in DOMAIN rf /\ result[k].host \in Placed(w, result[k].dc, rf[result[k].dc])

\* Which node comes at a step, by whether its rack has been seen.
LEMMA Arrival ==
    ASSUME nodes \in Clusters, NEW w, IsRound(w), NEW i \in Nat, i + 1 \in DOMAIN w
    PROVE  LET n == w[i + 1]
               d == n.dc
               h == n.host
           IN  /\ n \in N /\ h \in Hosted(d) /\ nodes[h] = n
               /\ ~Seen(w, d, i, n.rack) => h \in Firsts(w, d) /\ h \notin Passed(w, Firsts(w, d), i)
               /\ Seen(w, d, i, n.rack) /\ h \in Firsts(w, d) => h \in Passed(w, Firsts(w, d), i)
<1> DEFINE n == w[i + 1]
           d == n.dc
           h == n.host
<1>1. w \in Seq(N) /\ DOMAIN w = 1..Len(w) /\ Len(w) \in Nat
  BY DEF IsRound
<1>2. n \in N /\ n.tokens # {}
  BY <1>1 DEF IsRound
<1> HIDE DEF n
<1>3. h \in DOMAIN nodes /\ nodes[h] = n /\ nodes[h].dc = d
  BY <1>2, NodeIs, Zenon
<1> HIDE DEF h, d
<1>4. h \in Hosted(d)
  BY <1>2, <1>3, Zenon DEF Hosted
<1>5. FirstAt(w, h) \in DOMAIN w /\ FirstAt(w, h) <= i + 1 /\ w[FirstAt(w, h)] = n
  <2>1. w[i + 1].host = h
    BY Zenon DEF n, h
  <2> QED
    BY <1>2, <1>3, <2>1, FirstAtIs, Zenon
<1>6. ASSUME ~Seen(w, d, i, n.rack) PROVE h \in Firsts(w, d) /\ h \notin Passed(w, Firsts(w, d), i)
  <2>1. ASSUME NEW g \in Hosted(d), nodes[g].rack = n.rack PROVE FirstAt(w, g) \in Nat /\ FirstAt(w, g) >= i + 1
    <3>1. g \in DOMAIN nodes /\ nodes[g].tokens # {} /\ nodes[g].dc = d
      BY Zenon DEF Hosted
    <3>2. FirstAt(w, g) \in DOMAIN w /\ w[FirstAt(w, g)] = nodes[g]
      BY <3>1, FirstAtIs, Zenon
    <3>3. FirstAt(w, g) \notin 1..i
      BY <1>6, <2>1, <3>1, <3>2, Zenon DEF Seen
    <3> QED
      BY <1>1, <3>2, <3>3
  <2>2. ASSUME NEW g \in Hosted(d), nodes[g].rack = n.rack PROVE FirstAt(w, h) <= FirstAt(w, g)
    BY <1>1, <1>5, <2>1, <2>2
  <2>3. FirstAt(w, h) >= i + 1 /\ FirstAt(w, h) \in Nat
    BY <1>3, <1>4, <2>1, Zenon
  <2>4. ~(FirstAt(w, h) <= i)
    BY <2>3
  <2> QED
    BY <1>3, <1>4, <2>2, <2>4, Zenon DEF Firsts, Passed
<1>7. ASSUME Seen(w, d, i, n.rack), h \in Firsts(w, d) PROVE h \in Passed(w, Firsts(w, d), i)
  <2>1. PICK j \in 1..i : w[j].dc = d /\ w[j].rack = n.rack
    BY <1>7, Zenon DEF Seen
  <2>2. j \in DOMAIN w
    BY <1>1
  <2>3. w[j] \in N /\ w[j].tokens # {}
    BY <1>1, <2>2 DEF IsRound
  <2> DEFINE g == w[j].host
  <2>4. g \in DOMAIN nodes /\ nodes[g] = w[j]
    BY <2>3, NodeIs, Zenon
  <2>5. FirstAt(w, g) <= j /\ FirstAt(w, g) \in DOMAIN w
    BY <2>2, <2>3, <2>4, FirstAtIs, Zenon
  <2>6. g \in Hosted(d)
    BY <2>1, <2>3, <2>4, Zenon DEF Hosted
  <2> HIDE DEF g
  <2>7. FirstAt(w, h) <= FirstAt(w, g)
    BY <1>3, <1>7, <2>1, <2>4, <2>6, Zenon DEF Firsts
  <2>8. FirstAt(w, h) <= i
    BY <1>1, <1>5, <2>5, <2>7, SMTT(30)
  <2> QED
    BY <1>7, <2>8, Zenon DEF Passed
<1> QED
  BY <1>2, <1>3, <1>4, <1>6, <1>7, Zenon DEF n, d, h

\* When every node has one token, what has been taken has been passed.
Once(w) == \A i, j \in DOMAIN w : w[i].host = w[j].host => i = j

Got(w, rf, d, i, a, s) ==
    /\ rf[d] - a <= Cardinality(Passed(w, Firsts(w, d), i)) + (SameRackReplicas(rf)[d] - s)
    /\ SameRackReplicas(rf)[d] - s <= Cardinality(Passed(w, Others(w, d), i))

\* The sets the walk counts, and how a step changes the counts.
LEMMA Steps ==
    ASSUME nodes \in Clusters, NEW w, IsRound(w), NEW rf, IsFactors(rf), NEW d \in DOMAIN rf,
           NEW i \in Nat, i + 1 \in DOMAIN w
    PROVE  LET h == w[i + 1].host
               F(k) == Cardinality(Passed(w, Firsts(w, d), k))
               O(k) == Cardinality(Passed(w, Others(w, d), k))
           IN  /\ F(i) \in Nat /\ F(i + 1) \in Nat /\ F(i) <= F(i + 1) /\ F(i + 1) <= F(i) + 1
               /\ O(i) \in Nat /\ O(i + 1) \in Nat /\ O(i) <= O(i + 1) /\ O(i + 1) <= O(i) + 1
               /\ h \in Firsts(w, d) /\ h \notin Passed(w, Firsts(w, d), i) => F(i + 1) = F(i) + 1
               /\ h \in Others(w, d) /\ h \notin Passed(w, Others(w, d), i) => O(i + 1) = O(i) + 1
               /\ h \notin Firsts(w, d) \/ h \in Passed(w, Firsts(w, d), i) => F(i + 1) = F(i)
               /\ h \notin Others(w, d) => O(i + 1) = O(i)
               /\ rf[d] \in Nat /\ SameRackReplicas(rf)[d] \in Nat
<1>1. Firsts(w, d) \in SUBSET Hosted(d) /\ Others(w, d) \in SUBSET Hosted(d)
  BY Zenon DEF Firsts, Others
<1> DEFINE h == w[i + 1].host
           F(k) == Cardinality(Passed(w, Firsts(w, d), k))
           O(k) == Cardinality(Passed(w, Others(w, d), k))
<1>2. /\ F(i) \in Nat /\ F(i + 1) \in Nat
      /\ h \in Firsts(w, d) /\ h \notin Passed(w, Firsts(w, d), i) => F(i + 1) = F(i) + 1
      /\ ~(h \in Firsts(w, d) /\ h \notin Passed(w, Firsts(w, d), i)) => F(i + 1) = F(i)
  BY <1>1, PassedCount, Zenon
<1>3. /\ O(i) \in Nat /\ O(i + 1) \in Nat
      /\ h \in Others(w, d) /\ h \notin Passed(w, Others(w, d), i) => O(i + 1) = O(i) + 1
      /\ ~(h \in Others(w, d) /\ h \notin Passed(w, Others(w, d), i)) => O(i + 1) = O(i)
  BY <1>1, PassedCount, Zenon
<1>4. rf[d] \in Nat /\ SameRackReplicas(rf)[d] \in Nat
  BY FirstsAndRacks, Zenon DEF IsFactors
<1> HIDE DEF h
<1> QED
  BY <1>2, <1>3, <1>4, SMTT(30) DEF h

\* What is passed while the counts allow it is placed.
LEMMA CountedArePlaced ==
    ASSUME nodes \in Clusters, NEW w, IsRound(w), NEW rf, IsFactors(rf), NEW d \in DOMAIN rf, NEW i \in Nat
    PROVE  /\ Cardinality(Passed(w, Firsts(w, d), i)) <= rf[d] =>
                 Passed(w, Firsts(w, d), i) \subseteq Placed(w, d, rf[d])
           /\ Cardinality(Passed(w, Others(w, d), i)) <= SameRackReplicas(rf)[d] =>
                 Passed(w, Others(w, d), i) \subseteq Placed(w, d, rf[d])
<1> DEFINE m == SaturatingSub(rf[d], Cardinality(Firsts(w, d)))
           P == Passed(w, Others(w, d), i)
<1>1. Firsts(w, d) \in SUBSET Hosted(d) /\ Others(w, d) \in SUBSET Hosted(d)
  BY Zenon DEF Firsts, Others
<1>2. rf[d] \in Nat /\ SameRackReplicas(rf)[d] \in Nat /\ SameRackReplicas(rf)[d] <= m
  BY FirstsAndRacks, Zenon DEF IsFactors
<1>3. Cardinality(Firsts(w, d)) \in Nat
  BY <1>1, HostedFinite, ZenonT(30)
<1>4. m \in Nat
  BY <1>2, <1>3 DEF SaturatingSub
<1>5. P \in SUBSET Hosted(d)
  BY <1>1, Zenon DEF Passed
<1>6. Cardinality(P) \in Nat
  BY <1>5, HostedFinite, Zenon
<1> HIDE DEF m
<1>7. Cardinality(P) <= SameRackReplicas(rf)[d] => Cardinality(P) <= m
  BY <1>2, <1>4, <1>6
<1>8. Cardinality(P) <= m => P \subseteq Nearest(w, Others(w, d), m)
  BY <1>1, <1>4, PassedAreNearest, Zenon
<1>9. Cardinality(Passed(w, Firsts(w, d), i)) <= rf[d] =>
          Passed(w, Firsts(w, d), i) \subseteq Nearest(w, Firsts(w, d), rf[d])
  BY <1>1, <1>2, PassedAreNearest, Zenon
<1> QED
  BY <1>7, <1>8, <1>9, Zenon DEF Placed, m

\* A step of the walk in another datacenter.
LEMMA Elsewhere ==
    ASSUME nodes \in Clusters, NEW w, IsRound(w), NEW rf, IsFactors(rf), NEW d \in DOMAIN rf,
           NEW i \in Nat, i + 1 \in DOMAIN w, w[i + 1].dc # d,
           NEW a, NEW s, NEW used, NEW u, \A rack : <<d, rack>> \in u <=> <<d, rack>> \in used
    PROVE  /\ \A done : Counts(w, rf, d, i, a, s, used, done) => Counts(w, rf, d, i + 1, a, s, u, done)
           /\ Got(w, rf, d, i, a, s) => Got(w, rf, d, i + 1, a, s)
<1> DEFINE h == w[i + 1].host
<1>1. h \in Hosted(w[i + 1].dc)
  BY Arrival, Zenon
<1>2. h \notin Hosted(d)
  BY <1>1, Zenon DEF Hosted
<1>3. h \notin Firsts(w, d) /\ h \notin Others(w, d)
  BY <1>2, Zenon DEF Firsts, Others
<1>4. /\ Cardinality(Passed(w, Firsts(w, d), i + 1)) = Cardinality(Passed(w, Firsts(w, d), i))
      /\ Cardinality(Passed(w, Others(w, d), i + 1)) = Cardinality(Passed(w, Others(w, d), i))
  BY <1>3, Steps, SMTT(30)
<1>5. \A rack : Seen(w, d, i + 1, rack) <=> Seen(w, d, i, rack)
  BY DEF Seen
<1> QED
  BY <1>4, <1>5, Zenon DEF Counts, Got

\* A node that comes up once has not been passed before.
LEMMA NotYet ==
    ASSUME nodes \in Clusters, NEW w, IsRound(w), Once(w), NEW i \in Nat, i + 1 \in DOMAIN w
    PROVE  /\ FirstAt(w, w[i + 1].host) = i + 1
           /\ \A S : w[i + 1].host \notin Passed(w, S, i)
<1> DEFINE n == w[i + 1]
           h == n.host
<1>1. n \in N /\ h \in Hosted(n.dc)
  BY Arrival, Zenon
<1>2. h \in DOMAIN nodes /\ nodes[h].tokens # {}
  BY <1>1, Zenon DEF Hosted
<1>3. FirstAt(w, h) \in DOMAIN w /\ w[FirstAt(w, h)].host = h
  BY <1>1, <1>2, FirstAtIs, NodeIs, Zenon
<1> HIDE DEF h
<1>4. FirstAt(w, h) = i + 1
  BY <1>3, Zenon DEF Once, h
<1>5. \A S : h \notin Passed(w, S, i)
  BY <1>4 DEF Passed
<1> QED
  BY <1>4, <1>5, Zenon DEF h

\* A node in a new rack is the first of it.
LEMMA TakesNew ==
    ASSUME nodes \in Clusters, NEW w, IsRound(w), NEW rf, IsFactors(rf), NEW d \in DOMAIN rf,
           NEW i \in Nat, i + 1 \in DOMAIN w, w[i + 1].dc = d,
           NEW a, NEW s, NEW used, a # 0, Counts(w, rf, d, i, a, s, used, FALSE),
           <<d, w[i + 1].rack>> \notin used
    PROVE  /\ \A done : Counts(w, rf, d, i + 1, a - 1, s, used \cup {<<d, w[i + 1].rack>>}, done)
           /\ Got(w, rf, d, i, a, s) => Got(w, rf, d, i + 1, a - 1, s)
           /\ w[i + 1].host \in Placed(w, d, rf[d])
<1> DEFINE n == w[i + 1]
           h == n.host
           F(k) == Cardinality(Passed(w, Firsts(w, d), k))
           O(k) == Cardinality(Passed(w, Others(w, d), k))
           S == SameRackReplicas(rf)[d]
           u == used \cup {<<d, n.rack>>}
<1>0. /\ a \in 0..rf[d] /\ s \in 0..S /\ F(i) <= rf[d] - a /\ (s # 0 => O(i) <= S - s)
      /\ \A rack : <<d, rack>> \in used <=> Seen(w, d, i, rack)
  BY Zenon DEF Counts
<1>1. ~Seen(w, d, i, n.rack)
  BY <1>0, Zenon
<1>2. h \in Firsts(w, d) /\ h \notin Passed(w, Firsts(w, d), i) /\ h \in Hosted(d)
  BY <1>1, Arrival, Zenon
<1>3. h \notin Others(w, d)
  BY <1>2, ZenonT(30) DEF Others
<1>4. F(i + 1) = F(i) + 1 /\ O(i + 1) = O(i) /\ F(i) \in Nat /\ O(i) \in Nat /\ rf[d] \in Nat /\ S \in Nat
  BY <1>2, <1>3, Steps, SMTT(30)
<1>5. \A rack : <<d, rack>> \in u <=> Seen(w, d, i + 1, rack)
  <2>1. \A rack : Seen(w, d, i + 1, rack) <=> Seen(w, d, i, rack) \/ rack = n.rack
    BY DEF Seen
  <2>2. \A rack : <<d, rack>> \in u <=> <<d, rack>> \in used \/ rack = n.rack
    BY ZenonT(30)
  <2> QED
    BY <1>0, <2>1, <2>2, ZenonT(30)
<1>6. a - 1 \in 0..rf[d] /\ F(i + 1) <= rf[d] - (a - 1) /\ (s # 0 => O(i + 1) <= S - s) /\ F(i + 1) <= rf[d]
  BY <1>0, <1>4
<1>7. \A done : Counts(w, rf, d, i + 1, a - 1, s, u, done)
  BY <1>0, <1>5, <1>6, ZenonT(30) DEF Counts
<1>8. Got(w, rf, d, i, a, s) => Got(w, rf, d, i + 1, a - 1, s)
  BY <1>0, <1>4 DEF Got
<1>9. h \in Passed(w, Firsts(w, d), i + 1)
  <2>1. Passed(w, Firsts(w, d), i + 1) = Passed(w, Firsts(w, d), i) \cup {h}
    <3>1. Firsts(w, d) \in SUBSET Hosted(d)
      BY Zenon DEF Firsts
    <3> QED
      BY <1>2, <3>1, PassedNext
  <2> QED
    BY <2>1, Zenon
<1>10. h \in Placed(w, d, rf[d])
  <2>1. i + 1 \in Nat
    OBVIOUS
  <2> QED
    BY <1>6, <1>9, <2>1, CountedArePlaced, Zenon
<1> QED
  BY <1>7, <1>8, <1>10, Zenon

\* A node in a rack that has been seen.
LEMMA InSeenRack ==
    ASSUME nodes \in Clusters, NEW w, IsRound(w), NEW rf, IsFactors(rf), NEW d \in DOMAIN rf,
           NEW i \in Nat, i + 1 \in DOMAIN w, w[i + 1].dc = d,
           NEW a, NEW s, NEW used, a # 0, Counts(w, rf, d, i, a, s, used, FALSE),
           <<d, w[i + 1].rack>> \in used
    PROVE  /\ \A rack : <<d, rack>> \in used <=> Seen(w, d, i + 1, rack)
           /\ \/ /\ w[i + 1].host \in Firsts(w, d)
                 /\ w[i + 1].host \in Passed(w, Firsts(w, d), i)
                 /\ w[i + 1].host \in Passed(w, Firsts(w, d), i + 1)
              \/ /\ w[i + 1].host \in Others(w, d)
                 /\ w[i + 1].host \in Passed(w, Others(w, d), i + 1)
           /\ Cardinality(Passed(w, Firsts(w, d), i + 1)) = Cardinality(Passed(w, Firsts(w, d), i))
<1> DEFINE n == w[i + 1]
           h == n.host
<1>0. \A rack : <<d, rack>> \in used <=> Seen(w, d, i, rack)
  BY Zenon DEF Counts
<1>1. Seen(w, d, i, n.rack)
  BY <1>0, Zenon
<1>2. h \in Hosted(d) /\ (h \in Firsts(w, d) => h \in Passed(w, Firsts(w, d), i))
  BY <1>1, Arrival, Zenon
<1>3. \A rack : Seen(w, d, i + 1, rack) <=> Seen(w, d, i, rack)
  <2>1. \A rack : Seen(w, d, i + 1, rack) <=> Seen(w, d, i, rack) \/ rack = n.rack
    BY DEF Seen
  <2> QED
    BY <1>1, <2>1, Zenon
<1>4. Firsts(w, d) \in SUBSET Hosted(d) /\ Others(w, d) \in SUBSET Hosted(d)
  BY Zenon DEF Firsts, Others
<1>5. h \in Firsts(w, d) => h \in Passed(w, Firsts(w, d), i + 1)
  BY <1>4, PassedNext
<1>6. h \in Others(w, d) => h \in Passed(w, Others(w, d), i + 1)
  BY <1>4, PassedNext
<1>7. h \in Firsts(w, d) \/ h \in Others(w, d)
  BY <1>2, ZenonT(30) DEF Others
<1>8. Cardinality(Passed(w, Firsts(w, d), i + 1)) = Cardinality(Passed(w, Firsts(w, d), i))
  BY <1>2, Steps, SMTT(30)
<1> HIDE DEF h
<1>9. \A rack : <<d, rack>> \in used <=> Seen(w, d, i + 1, rack)
  BY <1>0, <1>3, Zenon
<1> QED
  BY <1>2, <1>5, <1>6, <1>7, <1>8, <1>9, Zenon DEF h

\* A node in such a rack is taken as one more of it, or passed over.
LEMMA TakesMore ==
    ASSUME nodes \in Clusters, NEW w, IsRound(w), NEW rf, IsFactors(rf), NEW d \in DOMAIN rf,
           NEW i \in Nat, i + 1 \in DOMAIN w, w[i + 1].dc = d,
           NEW a, NEW s, NEW used, a # 0, Counts(w, rf, d, i, a, s, used, FALSE),
           <<d, w[i + 1].rack>> \in used
    PROVE  /\ s > 0 =>
                 /\ \A done : Counts(w, rf, d, i + 1, a - 1, s - 1, used, done)
                 /\ Once(w) /\ Got(w, rf, d, i, a, s) => Got(w, rf, d, i + 1, a - 1, s - 1)
                 /\ w[i + 1].host \in Placed(w, d, rf[d])
           /\ ~(s > 0) =>
                 /\ \A done : Counts(w, rf, d, i + 1, a, s, used, done)
                 /\ Got(w, rf, d, i, a, s) => Got(w, rf, d, i + 1, a, s)
<1> DEFINE n == w[i + 1]
           h == n.host
           F(k) == Cardinality(Passed(w, Firsts(w, d), k))
           O(k) == Cardinality(Passed(w, Others(w, d), k))
           S == SameRackReplicas(rf)[d]
<1>0. a \in 0..rf[d] /\ s \in 0..S /\ F(i) <= rf[d] - a /\ (s # 0 => O(i) <= S - s)
  BY Zenon DEF Counts
<1>1. /\ \A rack : <<d, rack>> \in used <=> Seen(w, d, i + 1, rack)
      /\ \/ h \in Firsts(w, d) /\ h \in Passed(w, Firsts(w, d), i) /\ h \in Passed(w, Firsts(w, d), i + 1)
         \/ h \in Others(w, d) /\ h \in Passed(w, Others(w, d), i + 1)
      /\ F(i + 1) = F(i)
  BY InSeenRack, ZenonT(30)
<1>2. /\ F(i) \in Nat /\ O(i) \in Nat /\ O(i + 1) \in Nat /\ O(i) <= O(i + 1) /\ O(i + 1) <= O(i) + 1
      /\ h \in Others(w, d) /\ h \notin Passed(w, Others(w, d), i) => O(i + 1) = O(i) + 1
      /\ rf[d] \in Nat /\ S \in Nat
  BY Steps, SMTT(30)
<1>3. ASSUME s > 0
      PROVE  /\ \A done : Counts(w, rf, d, i + 1, a - 1, s - 1, used, done)
             /\ Once(w) /\ Got(w, rf, d, i, a, s) => Got(w, rf, d, i + 1, a - 1, s - 1)
             /\ h \in Placed(w, d, rf[d])
  <2>1. /\ a - 1 \in 0..rf[d] /\ s - 1 \in 0..S /\ F(i + 1) <= rf[d] - (a - 1) /\ O(i + 1) <= S - (s - 1)
        /\ F(i + 1) <= rf[d] /\ O(i + 1) <= S
    <3> HIDE DEF S, F, O, h
    <3> QED
      BY <1>0, <1>1, <1>2, <1>3, SMTT(30)
  <2>2. \A done : Counts(w, rf, d, i + 1, a - 1, s - 1, used, done)
    BY <1>1, <2>1, Zenon DEF Counts
  <2>3. ASSUME Once(w), Got(w, rf, d, i, a, s) PROVE Got(w, rf, d, i + 1, a - 1, s - 1)
    <3>1. h \notin Passed(w, Firsts(w, d), i) /\ h \notin Passed(w, Others(w, d), i)
      BY <2>3, NotYet, Zenon
    <3>2. O(i + 1) = O(i) + 1
      BY <1>1, <1>2, <3>1, Zenon
    <3>3. rf[d] - a <= F(i) + (S - s) /\ S - s <= O(i)
      BY <2>3, Zenon DEF Got
    <3>4. rf[d] - (a - 1) <= F(i + 1) + (S - (s - 1)) /\ S - (s - 1) <= O(i + 1)
      <4> HIDE DEF S, F, O, h
      <4> QED
        BY <1>0, <1>1, <1>2, <3>2, <3>3, SMTT(30)
    <3> QED
      BY <3>4, Zenon DEF Got
  <2>4. h \in Placed(w, d, rf[d])
    <3>1. i + 1 \in Nat
      OBVIOUS
    <3>2. Passed(w, Firsts(w, d), i + 1) \subseteq Placed(w, d, rf[d])
      BY <2>1, <3>1, CountedArePlaced, Zenon
    <3>3. Passed(w, Others(w, d), i + 1) \subseteq Placed(w, d, rf[d])
      BY <2>1, <3>1, CountedArePlaced, Zenon
    <3> HIDE DEF h
    <3> QED
      BY <1>1, <3>2, <3>3, Zenon
  <2> QED
    BY <2>2, <2>3, <2>4, ZenonT(30)
<1>4. ASSUME ~(s > 0)
      PROVE  /\ \A done : Counts(w, rf, d, i + 1, a, s, used, done)
             /\ Got(w, rf, d, i, a, s) => Got(w, rf, d, i + 1, a, s)
  <2>1. s = 0
    BY <1>0, <1>4
  <2>2. \A done : Counts(w, rf, d, i + 1, a, s, used, done)
    BY <1>0, <1>1, <2>1, Zenon DEF Counts
  <2>3. ASSUME Got(w, rf, d, i, a, s) PROVE Got(w, rf, d, i + 1, a, s)
    <3>1. rf[d] - a <= F(i) + (S - s) /\ S - s <= O(i)
      BY <2>3, Zenon DEF Got
    <3>2. rf[d] - a <= F(i + 1) + (S - s) /\ S - s <= O(i + 1)
      <4> HIDE DEF S, F, O, h
      <4> QED
        BY <1>0, <1>1, <1>2, <3>1, SMTT(30)
    <3> QED
      BY <3>2, Zenon DEF Got
  <2> QED
    BY <2>2, <2>3, Zenon
<1> QED
  BY <1>3, <1>4, Zenon

\* When a placed node comes up, it is still wanted.
LEMMA Wanted ==
    ASSUME nodes \in Clusters, NEW w, IsRound(w), NEW rf, IsFactors(rf), NEW d \in DOMAIN rf,
           NEW i \in Nat, i + 1 \in DOMAIN w, OneToken, Once(w),
           NEW a \in 0..rf[d], NEW s \in 0..SameRackReplicas(rf)[d], Got(w, rf, d, i, a, s),
           w[i + 1].host \in Placed(w, d, rf[d])
    PROVE  w[i + 1].dc = d /\ a # 0 /\ (Seen(w, d, i, w[i + 1].rack) => s > 0)
<1> DEFINE n == w[i + 1]
           h == n.host
           Fs == Firsts(w, d)
           Os == Others(w, d)
           F == Cardinality(Passed(w, Fs, i))
           O == Cardinality(Passed(w, Os, i))
           S == SameRackReplicas(rf)[d]
<1>1. Fs \in SUBSET Hosted(d) /\ Os \in SUBSET Hosted(d)
  BY Zenon DEF Firsts, Others
<1>2. h \in Hosted(d)
  BY <1>1, Zenon DEF Placed, Nearest
<1>3. n.dc = d /\ (Seen(w, d, i, n.rack) /\ h \in Fs => h \in Passed(w, Fs, i))
  <2>1. h \in Hosted(n.dc) /\ (Seen(w, n.dc, i, n.rack) /\ h \in Firsts(w, n.dc) => h \in Passed(w, Firsts(w, n.dc), i))
    BY Arrival, Zenon
  <2>2. n.dc = d
    BY <1>2, <2>1, Zenon DEF Hosted
  <2> QED
    BY <2>1, <2>2, Zenon
<1>4. FirstAt(w, h) = i + 1 /\ h \notin Passed(w, Fs, i)
  BY NotYet, Zenon
<1>5. \A g \in Hosted(d) : FirstAt(w, g) \in Nat
  <2>1. DOMAIN w \in SUBSET Nat
    BY DEF IsRound
  <2> QED
    BY <2>1, FirstAtIs, Zenon DEF Hosted
<1> HIDE DEF h
<1>6. ASSUME NEW T \in SUBSET Hosted(d) PROVE Nearer(w, T, h) = Passed(w, T, i)
  <2>1. \A g \in T : FirstAt(w, g) < i + 1 <=> FirstAt(w, g) <= i
    BY <1>5
  <2> QED
    BY <1>4, <2>1, Zenon DEF Nearer, Passed
<1>7. rf[d] \in Nat /\ S \in Nat /\ F \in Nat /\ O \in Nat /\ Cardinality(Fs) \in Nat /\ F <= Cardinality(Fs)
  <2>1. F \in Nat /\ F <= Cardinality(Fs) /\ O \in Nat
    BY <1>1, PassedCount, Zenon
  <2> QED
    BY <1>1, <2>1, HostedFinite, FirstsAndRacks, Zenon DEF IsFactors
<1>8. S = SaturatingSub(rf[d], Cardinality(Fs))
  BY FirstsAndRacks, Zenon
<1>9. rf[d] - a <= F + (S - s) /\ S - s <= O
  BY Zenon DEF Got
<1>10. CASE h \in Nearest(w, Fs, rf[d])
  <2>1. h \in Fs /\ F < rf[d]
    BY <1>1, <1>6, <1>10, ZenonT(30) DEF Nearest
  <2>2. F < Cardinality(Fs)
    <3>1. Passed(w, Fs, i) \in SUBSET (Fs \ {h})
      BY <1>4, Zenon DEF Passed
    <3>2. IsFiniteSet(Fs)
      BY <1>1, HostedFinite, Zenon
    <3>3. IsFiniteSet(Fs \ {h}) /\ Cardinality(Fs \ {h}) = Cardinality(Fs) - 1
      BY <2>1, <3>2, FS_RemoveElement, Zenon
    <3>4. F <= Cardinality(Fs \ {h})
      BY <3>1, <3>3, FS_Subset, Zenon
    <3> QED
      BY <1>7, <3>3, <3>4
  <2>3. ~Seen(w, d, i, n.rack)
    BY <1>3, <1>4, <2>1, ZenonT(30)
  <2>4. a # 0
    <3> HIDE DEF S, F, O, Fs, Os
    <3>1. SUFFICES ASSUME a = 0 PROVE FALSE
      BY Zenon
    <3>2. rf[d] <= F + (S - s) /\ s \in Nat
      BY <1>7, <1>9, <3>1 DEF S
    <3> QED
      BY <1>7, <1>8, <2>1, <2>2, <3>2 DEF SaturatingSub
  <2> QED
    BY <1>3, <2>3, <2>4, Zenon DEF h
<1>11. CASE h \in Nearest(w, Os, SaturatingSub(rf[d], Cardinality(Fs)))
  <2>1. O < S
    BY <1>1, <1>6, <1>8, <1>11, Zenon DEF Nearest
  <2>2. s \in Nat /\ a \in Nat
    BY <1>7
  <2> HIDE DEF S, F, O, Fs, Os
  <2>3. s > 0 /\ a # 0
    BY <1>7, <1>8, <1>9, <2>1, <2>2 DEF SaturatingSub
  <2> QED
    BY <1>3, <2>3, Zenon DEF h
<1> QED
  BY <1>10, <1>11, Zenon DEF Placed, h

\* What the walk takes is placed.
WalkInv(w, rf, i, acc) ==
    /\ acc \in Accs(rf) /\ OnlyPlaced(w, rf, acc.result)
    /\ \A d \in DOMAIN rf : Counts(w, rf, d, i, acc.rf[d], acc.same[d], acc.used, acc.done)

\* When every node has one token, it takes all that is placed.
FindInv(w, rf, i, acc) ==
    /\ Len(acc.result) + Total(acc.rf) = Total(rf)
    /\ acc.done => Len(acc.result) = Total(rf)
    /\ \A d \in DOMAIN rf :
          /\ Got(w, rf, d, i, acc.rf[d], acc.same[d])
          /\ \A h \in Placed(w, d, rf[d]) : FirstAt(w, h) <= i => \E k \in DOMAIN acc.result : acc.result[k].host = h

\* A visit keeps the invariant: what it takes comes first in a new rack, or
\* is within the surplus of its datacenter.
LEMMA WalkStep ==
    ASSUME nodes \in Clusters, NEW w, IsRound(w), NEW rf, IsFactors(rf),
           NEW i \in Nat, i + 1 \in DOMAIN w, NEW acc, WalkInv(w, rf, i, acc)
    PROVE  WalkInv(w, rf, i + 1, Visit(acc, w[i + 1], Total(rf)))
<1> DEFINE n == w[i + 1]
           Dc == n.dc
           next == Visit(acc, n, Total(rf))
           skip == acc.done \/ Dc \notin DOMAIN rf \/ acc.rf[Dc] = 0
           new == <<Dc, n.rack>> \notin acc.used
           taken == [acc.rf EXCEPT ![Dc] = acc.rf[Dc] - 1]
<1>0. /\ acc \in Accs(rf) /\ OnlyPlaced(w, rf, acc.result)
      /\ \A d \in DOMAIN rf : Counts(w, rf, d, i, acc.rf[d], acc.same[d], acc.used, acc.done)
  BY Zenon DEF WalkInv
<1>1. n \in N
  BY Arrival, Zenon
<1>v. Visits(rf, acc, n, Total(rf), next)
  BY <1>0, <1>1, VisitIs, Zenon
<1> HIDE DEF next, n
<1>2. /\ next \in Accs(rf)
      /\ skip => next = acc
      /\ ~skip /\ new =>
            /\ next.rf = taken /\ next.same = acc.same
            /\ next.used = acc.used \cup {<<Dc, n.rack>>} /\ next.result = Append(acc.result, n)
      /\ ~skip /\ ~new /\ acc.same[Dc] > 0 =>
            /\ next.rf = taken /\ next.same = [acc.same EXCEPT ![Dc] = acc.same[Dc] - 1]
            /\ next.used = acc.used /\ next.result = Append(acc.result, n)
      /\ ~skip /\ ~new /\ ~(acc.same[Dc] > 0) =>
            /\ next.rf = acc.rf /\ next.same = acc.same
            /\ next.used = acc.used /\ next.result = acc.result
  BY <1>v, Zenon DEF Visits
<1>3. acc.rf \in [DOMAIN rf -> Int] /\ acc.same \in [DOMAIN rf -> Int] /\ acc.result \in Seq(N)
  BY <1>0, Zenon DEF Accs
<1>4. ASSUME Dc \in DOMAIN rf, n.host \in Placed(w, Dc, rf[Dc]) PROVE OnlyPlaced(w, rf, Append(acc.result, n))
  BY <1>0, <1>3, <1>4, SMTT(30) DEF OnlyPlaced
<1>5. CASE skip
  <2>1. ASSUME NEW d \in DOMAIN rf PROVE Counts(w, rf, d, i + 1, acc.rf[d], acc.same[d], acc.used, acc.done)
    <3>1. Counts(w, rf, d, i, acc.rf[d], acc.same[d], acc.used, acc.done)
      BY <1>0, Zenon
    <3>2. CASE d = Dc
      BY <1>5, <3>1, <3>2, Zenon DEF Counts
    <3>3. CASE d # Dc
      <4>1. \A rack : <<d, rack>> \in acc.used <=> <<d, rack>> \in acc.used
        BY Zenon
      <4>2. w[i + 1].dc # d
        BY <3>3, Zenon DEF n
      <4> QED
        BY <3>1, <4>1, <4>2, Elsewhere, Zenon
    <3> QED
      BY <3>2, <3>3, Zenon
  <2> QED
    BY <1>0, <1>2, <1>5, <2>1, Zenon DEF WalkInv, next, n
<1>6. CASE ~skip /\ new
  <2> DEFINE u == acc.used \cup {<<Dc, n.rack>>}
  <2>0. Dc \in DOMAIN rf /\ acc.rf[Dc] # 0 /\ acc.done = FALSE
    BY <1>0, <1>6, Zenon DEF Accs
  <2>1. /\ \A done : Counts(w, rf, Dc, i + 1, acc.rf[Dc] - 1, acc.same[Dc], u, done)
        /\ n.host \in Placed(w, Dc, rf[Dc])
    <3>1. Counts(w, rf, Dc, i, acc.rf[Dc], acc.same[Dc], acc.used, FALSE)
      BY <1>0, <2>0, Zenon
    <3> QED
      BY <1>6, <2>0, <3>1, TakesNew, Zenon DEF n
  <2>2. ASSUME NEW d \in DOMAIN rf PROVE \A done : Counts(w, rf, d, i + 1, taken[d], acc.same[d], u, done)
    <3>1. CASE d = Dc
      BY <1>3, <2>0, <2>1, <3>1, Zenon
    <3>2. CASE d # Dc
      <4>1. \A rack : <<d, rack>> \in u <=> <<d, rack>> \in acc.used
        BY <3>2, Zenon
      <4>2. \A done : Counts(w, rf, d, i, acc.rf[d], acc.same[d], acc.used, done) =>
                      Counts(w, rf, d, i + 1, acc.rf[d], acc.same[d], u, done)
        BY <3>2, <4>1, Elsewhere, Zenon DEF n
      <4>3. \A done : Counts(w, rf, d, i, acc.rf[d], acc.same[d], acc.used, done)
        BY <1>0, <2>0, Zenon DEF Counts
      <4>4. taken[d] = acc.rf[d]
        BY <1>3, <3>2, Zenon
      <4> QED
        BY <4>2, <4>3, <4>4, Zenon
    <3> QED
      BY <3>1, <3>2, Zenon
  <2>3. OnlyPlaced(w, rf, Append(acc.result, n))
    BY <1>4, <2>0, <2>1, Zenon
  <2> HIDE DEF u, taken, skip, new
  <2> QED
    BY <1>2, <1>6, <2>2, <2>3, Zenon DEF WalkInv, next, n, u
<1>7. CASE ~skip /\ ~new /\ acc.same[Dc] > 0
  <2> DEFINE less == [acc.same EXCEPT ![Dc] = acc.same[Dc] - 1]
  <2>0. Dc \in DOMAIN rf /\ acc.rf[Dc] # 0 /\ acc.done = FALSE
    BY <1>0, <1>7, Zenon DEF Accs
  <2>1. /\ \A done : Counts(w, rf, Dc, i + 1, acc.rf[Dc] - 1, acc.same[Dc] - 1, acc.used, done)
        /\ n.host \in Placed(w, Dc, rf[Dc])
    <3>1. Counts(w, rf, Dc, i, acc.rf[Dc], acc.same[Dc], acc.used, FALSE)
      BY <1>0, <2>0, Zenon
    <3> QED
      BY <1>7, <2>0, <3>1, TakesMore, Zenon DEF n
  <2>2. ASSUME NEW d \in DOMAIN rf PROVE \A done : Counts(w, rf, d, i + 1, taken[d], less[d], acc.used, done)
    <3>1. CASE d = Dc
      BY <1>3, <2>0, <2>1, <3>1, Zenon
    <3>2. CASE d # Dc
      <4>1. \A rack : <<d, rack>> \in acc.used <=> <<d, rack>> \in acc.used
        BY Zenon
      <4>2. \A done : Counts(w, rf, d, i, acc.rf[d], acc.same[d], acc.used, done) =>
                      Counts(w, rf, d, i + 1, acc.rf[d], acc.same[d], acc.used, done)
        BY <3>2, <4>1, Elsewhere, Zenon DEF n
      <4>3. \A done : Counts(w, rf, d, i, acc.rf[d], acc.same[d], acc.used, done)
        BY <1>0, <2>0, Zenon DEF Counts
      <4>4. taken[d] = acc.rf[d] /\ less[d] = acc.same[d]
        BY <1>3, <3>2, Zenon
      <4> QED
        BY <4>2, <4>3, <4>4, Zenon
    <3> QED
      BY <3>1, <3>2, Zenon
  <2>3. OnlyPlaced(w, rf, Append(acc.result, n))
    BY <1>4, <2>0, <2>1, Zenon
  <2> HIDE DEF less, taken, skip, new
  <2> QED
    BY <1>2, <1>7, <2>2, <2>3, Zenon DEF WalkInv, next, n, less
<1>8. CASE ~skip /\ ~new /\ ~(acc.same[Dc] > 0)
  <2>0. Dc \in DOMAIN rf /\ acc.rf[Dc] # 0 /\ acc.done = FALSE
    BY <1>0, <1>8, Zenon DEF Accs
  <2>2. ASSUME NEW d \in DOMAIN rf PROVE \A done : Counts(w, rf, d, i + 1, acc.rf[d], acc.same[d], acc.used, done)
    <3>1. CASE d = Dc
      <4>1. Counts(w, rf, Dc, i, acc.rf[Dc], acc.same[Dc], acc.used, FALSE)
        BY <1>0, <2>0, Zenon
      <4> QED
        BY <1>8, <2>0, <3>1, <4>1, TakesMore, Zenon DEF n
    <3>2. CASE d # Dc
      <4>1. \A rack : <<d, rack>> \in acc.used <=> <<d, rack>> \in acc.used
        BY Zenon
      <4>2. \A done : Counts(w, rf, d, i, acc.rf[d], acc.same[d], acc.used, done) =>
                      Counts(w, rf, d, i + 1, acc.rf[d], acc.same[d], acc.used, done)
        BY <3>2, <4>1, Elsewhere, Zenon DEF n
      <4>3. \A done : Counts(w, rf, d, i, acc.rf[d], acc.same[d], acc.used, done)
        BY <1>0, <2>0, Zenon DEF Counts
      <4> QED
        BY <4>2, <4>3, Zenon
    <3> QED
      BY <3>1, <3>2, Zenon
  <2> HIDE DEF skip, new
  <2> QED
    BY <1>0, <1>2, <1>8, <2>2, Zenon DEF WalkInv, next, n
<1> QED
  BY <1>5, <1>6, <1>7, <1>8, Zenon

\* A visit that passes a placed node for the first time takes it.
LEMMA FindStep ==
    ASSUME nodes \in Clusters, NEW w, IsRound(w), NEW rf, IsFactors(rf), IsFiniteSet(DOMAIN rf),
           NEW i \in Nat, i + 1 \in DOMAIN w, OneToken, Once(w),
           NEW acc, WalkInv(w, rf, i, acc), FindInv(w, rf, i, acc)
    PROVE  FindInv(w, rf, i + 1, Visit(acc, w[i + 1], Total(rf)))
<1> DEFINE n == w[i + 1]
           Dc == n.dc
           next == Visit(acc, n, Total(rf))
           skip == acc.done \/ Dc \notin DOMAIN rf \/ acc.rf[Dc] = 0
           new == <<Dc, n.rack>> \notin acc.used
           taken == [acc.rf EXCEPT ![Dc] = acc.rf[Dc] - 1]
           less == [acc.same EXCEPT ![Dc] = acc.same[Dc] - 1]
           Takes == next.rf = taken /\ next.result = Append(acc.result, n)
           Leaves == next.rf = acc.rf /\ next.result = acc.result
<1>0. /\ acc \in Accs(rf)
      /\ \A d \in DOMAIN rf : Counts(w, rf, d, i, acc.rf[d], acc.same[d], acc.used, acc.done)
  BY Zenon DEF WalkInv
<1>1. n \in N
  BY Arrival
<1>v. Visits(rf, acc, n, Total(rf), next)
  BY <1>0, <1>1, VisitIs, Zenon
<1> HIDE DEF next, n
<1>2. /\ skip => next = acc
      /\ ~skip /\ new => Takes /\ next.same = acc.same
      /\ ~skip /\ ~new /\ acc.same[Dc] > 0 => Takes /\ next.same = less
      /\ ~skip /\ ~new /\ ~(acc.same[Dc] > 0) => Leaves /\ next.same = acc.same
      /\ ~skip => next.done = (Len(next.result) = Total(rf))
  BY <1>v, Zenon DEF Visits
<1>3. acc.same \in [DOMAIN rf -> Int] /\ acc.result \in Seq(N) /\ acc.done \in BOOLEAN
  BY <1>0, Zenon DEF Accs
<1>4. acc.rf \in [DOMAIN rf -> Nat]
  <2>1. \A d \in DOMAIN rf : acc.rf[d] \in Nat
    BY <1>0 DEF Counts, IsFactors
  <2> QED
    BY <1>0, <2>1, Zenon DEF Accs
<1>5. /\ Total(acc.rf) \in Nat /\ (Total(acc.rf) = 0 => \A d \in DOMAIN rf : acc.rf[d] = 0)
      /\ Dc \in DOMAIN rf /\ acc.rf[Dc] # 0 => Total(taken) = Total(acc.rf) - 1
  BY <1>4, TotalIs, Zenon DEF IsFactors
<1>6. /\ Len(acc.result) + Total(acc.rf) = Total(rf) /\ (acc.done => Len(acc.result) = Total(rf))
      /\ \A d \in DOMAIN rf :
            /\ Got(w, rf, d, i, acc.rf[d], acc.same[d])
            /\ \A h \in Placed(w, d, rf[d]) :
                  FirstAt(w, h) <= i => \E k \in DOMAIN acc.result : acc.result[k].host = h
  BY Zenon DEF FindInv
<1>7. /\ skip => Leaves
      /\ ~skip => Dc \in DOMAIN rf /\ acc.rf[Dc] # 0 /\ acc.done = FALSE
      /\ Leaves \/ (~skip /\ Takes)
  BY <1>2, <1>3, Zenon
<1>8. /\ Len(next.result) + Total(next.rf) = Total(rf)
      /\ next.done => Len(next.result) = Total(rf)
  <2>1. CASE Leaves
    BY <1>2, <1>6, <2>1, Zenon
  <2>2. CASE ~skip /\ Takes
    <3>1. Total(taken) = Total(acc.rf) - 1
      BY <1>5, <1>7, <2>2, ZenonT(30)
    <3>2. Len(next.result) = Len(acc.result) + 1 /\ Len(acc.result) \in Nat
      BY <1>3, <2>2
    <3>3. Len(next.result) + Total(next.rf) = Total(rf)
      <4> HIDE DEF taken
      <4> QED
        BY <1>5, <1>6, <2>2, <3>1, <3>2
    <3> QED
      BY <1>2, <2>2, <3>3, Zenon
  <2> QED
    BY <1>7, <2>1, <2>2, Zenon
<1>9. ASSUME NEW d \in DOMAIN rf PROVE Got(w, rf, d, i + 1, next.rf[d], next.same[d])
  <2>1. Got(w, rf, d, i, acc.rf[d], acc.same[d])
    BY <1>6, Zenon
  <2>2. CASE d # Dc
    <3>1. \A rack : <<d, rack>> \in acc.used <=> <<d, rack>> \in acc.used
      BY Zenon
    <3>2. Got(w, rf, d, i + 1, acc.rf[d], acc.same[d])
      BY <2>1, <2>2, <3>1, Elsewhere, Zenon DEF n
    <3>3. next.rf[d] = acc.rf[d] /\ next.same[d] = acc.same[d]
      BY <1>2, <1>3, <1>4, <2>2, Zenon
    <3> QED
      BY <3>2, <3>3, Zenon
  <2>3. CASE d = Dc /\ skip
    <3>1. Got(w, rf, d, i + 1, acc.rf[d], acc.same[d])
      <4> DEFINE F(k) == Cardinality(Passed(w, Firsts(w, d), k))
                 O(k) == Cardinality(Passed(w, Others(w, d), k))
      <4>1. /\ F(i) \in Nat /\ F(i + 1) \in Nat /\ F(i) <= F(i + 1)
            /\ O(i) \in Nat /\ O(i + 1) \in Nat /\ O(i) <= O(i + 1)
            /\ rf[d] \in Nat /\ SameRackReplicas(rf)[d] \in Nat
        BY Steps, ZenonT(30)
      <4>2. acc.rf[d] \in Int /\ acc.same[d] \in Int
        BY <1>3, <1>4, SMTT(30)
      <4> QED
        BY <2>1, <4>1, <4>2, SMTT(30) DEF Got
    <3> QED
      BY <1>2, <2>3, <3>1, ZenonT(30)
  <2>4. CASE d = Dc /\ ~skip
    <3>1. Counts(w, rf, Dc, i, acc.rf[Dc], acc.same[Dc], acc.used, FALSE)
      BY <1>0, <1>7, <2>4, Zenon
    <3>2. CASE new
      <4>1. Got(w, rf, Dc, i + 1, acc.rf[Dc] - 1, acc.same[Dc])
        BY <1>7, <2>1, <2>4, <3>1, <3>2, TakesNew, Zenon DEF n
      <4>2. next.rf[d] = acc.rf[Dc] - 1 /\ next.same[d] = acc.same[Dc]
        BY <1>2, <1>4, <1>7, <2>4, <3>2, Zenon
      <4> QED
        BY <2>4, <4>1, <4>2, Zenon
    <3>3. CASE ~new /\ acc.same[Dc] > 0
      <4>1. Got(w, rf, Dc, i + 1, acc.rf[Dc] - 1, acc.same[Dc] - 1)
        BY <1>7, <2>1, <2>4, <3>1, <3>3, TakesMore, Zenon DEF n
      <4>2. next.rf[d] = acc.rf[Dc] - 1 /\ next.same[d] = acc.same[Dc] - 1
        BY <1>2, <1>3, <1>4, <1>7, <2>4, <3>3, Zenon
      <4> QED
        BY <2>4, <4>1, <4>2, Zenon
    <3>4. CASE ~new /\ ~(acc.same[Dc] > 0)
      <4>1. Got(w, rf, Dc, i + 1, acc.rf[Dc], acc.same[Dc])
        BY <1>7, <2>1, <2>4, <3>1, <3>4, TakesMore, Zenon DEF n
      <4> QED
        BY <1>2, <2>4, <3>4, <4>1, Zenon
    <3> QED
      BY <3>2, <3>3, <3>4, Zenon
  <2> QED
    BY <2>2, <2>3, <2>4, Zenon
<1>10. ASSUME NEW d \in DOMAIN rf, NEW h \in Placed(w, d, rf[d]), FirstAt(w, h) <= i + 1
       PROVE  \E k \in DOMAIN next.result : next.result[k].host = h
  <2>1. CASE FirstAt(w, h) <= i
    <3>1. PICK k \in DOMAIN acc.result : acc.result[k].host = h
      BY <1>6, <2>1, Zenon
    <3>2. k \in DOMAIN next.result /\ next.result[k] = acc.result[k]
      <4>1. CASE Leaves
        BY <4>1, Zenon
      <4>2. CASE Takes
        BY <1>3, <4>2
      <4> QED
        BY <1>7, <4>1, <4>2, Zenon
    <3> QED
      BY <3>1, <3>2, Zenon
  <2>2. CASE ~(FirstAt(w, h) <= i)
    <3>1. h \in DOMAIN nodes /\ nodes[h].tokens # {} /\ nodes[h].host = h
      BY <1>10, ClustersAssumption, Zenon DEF Placed, Nearest, Firsts, Others, Hosted, IsNodeMap
    <3>2. FirstAt(w, h) \in DOMAIN w /\ w[FirstAt(w, h)] = nodes[h]
      BY <3>1, FirstAtIs, Zenon
    <3>3. DOMAIN w \in SUBSET Nat
      BY DEF IsRound
    <3>4. FirstAt(w, h) = i + 1
      BY <1>10, <2>2, <3>2, <3>3
    <3>5. n.host = h
      BY <3>1, <3>2, <3>4, Zenon DEF n
    <3>6. /\ acc.rf[d] \in 0..rf[d] /\ acc.same[d] \in 0..SameRackReplicas(rf)[d]
          /\ ~acc.done /\ acc.rf[d] # 0 => (<<d, n.rack>> \in acc.used => Seen(w, d, i, n.rack))
      <4>1. Counts(w, rf, d, i, acc.rf[d], acc.same[d], acc.used, acc.done)
        BY <1>0, Zenon
      <4> QED
        BY <4>1, Zenon DEF Counts
    <3>7. Dc = d /\ acc.rf[d] # 0 /\ (Seen(w, d, i, n.rack) => acc.same[d] > 0)
      BY <1>6, <1>10, <3>5, <3>6, Wanted, Zenon DEF n
    <3>8. ~acc.done
      <4>1. SUFFICES ASSUME acc.done PROVE FALSE
        BY Zenon
      <4>2. Total(acc.rf) = 0
        BY <1>3, <1>5, <1>6, <4>1, SMTT(30)
      <4> QED
        BY <1>5, <3>7, <4>2, Zenon
    <3>9. Takes
      BY <1>2, <3>6, <3>7, <3>8, ZenonT(30)
    <3>10. next.result[Len(acc.result) + 1] = n /\ Len(acc.result) + 1 \in DOMAIN next.result
      BY <1>1, <1>3, <3>9
    <3> QED
      BY <3>5, <3>10, Zenon
  <2> QED
    BY <2>1, <2>2, Zenon
<1> QED
  BY <1>8, <1>9, <1>10, Zenon DEF FindInv, next, n

\* The replicas of a token are the ones Cassandra places, and all of them
\* when every node has one token.
LEMMA ReplicasArePlaced ==
    ASSUME nodes \in Clusters, NEW token \in Int, NEW rf, IsFactors(rf), IsFiniteSet(DOMAIN rf)
    PROVE  LET walked == NetworkTopologyReplicas(token, rf)
           IN  /\ \A k \in DOMAIN walked : walked[k].host \in Placement(token, rf)
               /\ OneToken => \A h \in Placement(token, rf) : \E k \in DOMAIN walked : walked[k].host = h
<1> DEFINE w == NodesForToken(token)
           n == Len(w)
           acc == Walk(w, rf)
<1>1. IsRound(w) /\ (OneToken => Once(w))
  BY WalkIsRound, Zenon DEF Once
<1>2. /\ NetworkTopologyReplicas(token, rf) = acc[n].result
      /\ Placement(token, rf) = UNION {Placed(w, d, rf[d]) : d \in DOMAIN rf}
  BY PlacementIs, Zenon DEF NetworkTopologyReplicas
<1> HIDE DEF w
<1>3. w \in Seq(N) /\ n \in Nat /\ DOMAIN w = 1..n
  BY <1>1 DEF IsRound
<1>4. /\ acc[0] = Start(rf) /\ acc[0] \in Accs(rf)
      /\ \A i \in 1..n : acc[i] \in Accs(rf) /\ acc[i] = Visit(acc[i - 1], w[i], Total(rf))
  BY <1>3, Walked, Zenon
<1> HIDE DEF acc, n
<1>5. \A d \in DOMAIN rf : /\ rf[d] \in Nat /\ SameRackReplicas(rf)[d] \in Nat
                           /\ Cardinality(Passed(w, Firsts(w, d), 0)) = 0 /\ Passed(w, Firsts(w, d), 0) = {}
                           /\ Cardinality(Passed(w, Others(w, d), 0)) = 0 /\ Passed(w, Others(w, d), 0) = {}
  <2> TAKE d \in DOMAIN rf
  <2>1. Firsts(w, d) \in SUBSET Hosted(d) /\ Others(w, d) \in SUBSET Hosted(d)
    BY Zenon DEF Firsts, Others
  <2>2. rf[d] \in Nat /\ SameRackReplicas(rf)[d] \in Nat
    BY <1>1, FirstsAndRacks, Zenon DEF IsFactors
  <2> QED
    BY <1>1, <2>1, <2>2, PassedNone, ZenonT(30)
<1>6. WalkInv(w, rf, 0, acc[0])
  <2>1. OnlyPlaced(w, rf, <<>>)
    BY DEF OnlyPlaced
  <2>2. ASSUME NEW d \in DOMAIN rf PROVE Counts(w, rf, d, 0, rf[d], SameRackReplicas(rf)[d], {}, FALSE)
    <3>1. \A rack : ~Seen(w, d, 0, rack)
      BY DEF Seen
    <3> QED
      BY <1>5, <3>1, SMTT(30) DEF Counts
  <2>3. /\ acc[0].rf = rf /\ acc[0].same = SameRackReplicas(rf) /\ acc[0].used = {}
        /\ acc[0].result = <<>> /\ acc[0].done = FALSE
    BY <1>4, SMTT(30) DEF Start
  <2> QED
    BY <1>4, <2>1, <2>2, <2>3, ZenonT(30) DEF WalkInv
<1>7. FindInv(w, rf, 0, acc[0])
  <2>1. Total(rf) \in Nat
    BY TotalIs, Zenon
  <2>2. ASSUME NEW d \in DOMAIN rf PROVE Got(w, rf, d, 0, rf[d], SameRackReplicas(rf)[d])
    BY <1>5 DEF Got
  <2>3. ASSUME NEW d \in DOMAIN rf, NEW h \in Placed(w, d, rf[d]) PROVE ~(FirstAt(w, h) <= 0)
    <3>1. h \in Firsts(w, d) \/ h \in Others(w, d)
      BY <2>3, Zenon DEF Placed, Nearest
    <3> QED
      BY <1>5, <3>1, Zenon DEF Passed
  <2>4. Len(<<>>) = 0
    BY Zenon
  <2> QED
    BY <1>4, <2>1, <2>2, <2>3, <2>4, SMTT(30) DEF FindInv, Start
<1> DEFINE T == {i \in Nat : i <= n => WalkInv(w, rf, i, acc[i]) /\ (OneToken => FindInv(w, rf, i, acc[i]))}
<1>8. 0 \in T
  BY <1>6, <1>7, Zenon
<1>9. ASSUME NEW i \in Nat, i \in T PROVE i + 1 \in T
  <2> SUFFICES ASSUME i + 1 <= n
               PROVE  WalkInv(w, rf, i + 1, acc[i + 1]) /\ (OneToken => FindInv(w, rf, i + 1, acc[i + 1]))
    OBVIOUS
  <2>1. i + 1 \in DOMAIN w /\ (i + 1) - 1 = i /\ i <= n
    BY <1>3
  <2>2. acc[i + 1] = Visit(acc[i], w[i + 1], Total(rf))
    BY <1>3, <1>4, <2>1, Zenon
  <2>3. WalkInv(w, rf, i, acc[i]) /\ (OneToken => FindInv(w, rf, i, acc[i]))
    BY <1>9, <2>1, Zenon
  <2>4. WalkInv(w, rf, i + 1, acc[i + 1])
    BY <1>1, <2>1, <2>2, <2>3, WalkStep, Zenon
  <2>5. OneToken => FindInv(w, rf, i + 1, acc[i + 1])
    BY <1>1, <2>1, <2>2, <2>3, FindStep, Zenon
  <2> QED
    BY <2>4, <2>5, Zenon
<1>10. Nat \subseteq T
  <2> HIDE DEF T
  <2> QED
    BY <1>8, <1>9, Induction, Zenon
<1>11. WalkInv(w, rf, n, acc[n]) /\ (OneToken => FindInv(w, rf, n, acc[n]))
  BY <1>3, <1>10
<1>12. \A k \in DOMAIN acc[n].result : acc[n].result[k].host \in Placement(token, rf)
  BY <1>2, <1>11, Zenon DEF WalkInv, OnlyPlaced
<1>13. ASSUME OneToken, NEW h \in Placement(token, rf) PROVE \E k \in DOMAIN acc[n].result : acc[n].result[k].host = h
  <2>1. PICK d \in DOMAIN rf : h \in Placed(w, d, rf[d])
    BY <1>2, <1>13, Zenon
  <2>2. h \in DOMAIN nodes /\ nodes[h].tokens # {}
    BY <2>1, Zenon DEF Placed, Nearest, Firsts, Others, Hosted
  <2>3. FirstAt(w, h) \in DOMAIN w
    BY <1>1, <2>2, FirstAtIs, Zenon
  <2>4. FirstAt(w, h) <= n
    BY <1>3, <2>3
  <2> QED
    BY <1>11, <1>13, <2>1, <2>4, Zenon DEF FindInv
<1> QED
  BY <1>2, <1>12, <1>13, Zenon
=============================================================================
