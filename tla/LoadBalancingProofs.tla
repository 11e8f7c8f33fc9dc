-------------------------- MODULE LoadBalancingProofs --------------------------
(***************************************************************************)
(* Proofs about LoadBalancing: for any cluster, strategy, keyspace and     *)
(* statement, what query plans contain and in which order.                 *)
(***************************************************************************)
EXTENDS PlacementProofs

-----------------------------------------------------------------------------
(***************************************************************************)
(* Filtering, rotating and shuffling.                                      *)
(***************************************************************************)
\* No two entries are nodes at one address.
Apart(seq) == \A i, j \in DOMAIN seq : i # j => seq[i].rpc # seq[j].rpc

Names(a, b) == \A i \in DOMAIN a : \E j \in DOMAIN b : a[i] = b[j]

\* a has the entries of b, in any order, and none of them twice unless b has.
Rearranges(a, b) == Names(a, b) /\ Names(b, a) /\ (Apart(b) => Apart(a))

\* What is picked from a sequence, with the indices it came from.
LEMMA Picked ==
    ASSUME NEW S, NEW seq \in Seq(S), NEW keep \in SUBSET DOMAIN seq
    PROVE  /\ IsFiniteSet(keep) /\ Cardinality(keep) \in Nat
           /\ Pick(seq, keep) \in Seq(S) /\ DOMAIN Pick(seq, keep) = 1..Cardinality(keep)
           /\ Len(Pick(seq, keep)) = Cardinality(keep)
           /\ \E o : /\ IsOrder(o, keep)
                     /\ \A i \in 1..Cardinality(keep) : Pick(seq, keep)[i] = seq[o[i]]
<1> DEFINE n == Cardinality(keep)
           o == Ascending(keep)
           p == Pick(seq, keep)
<1>0. Len(seq) \in Nat /\ DOMAIN seq = 1..Len(seq)
  OBVIOUS
<1>1. IsFiniteSet(keep) /\ keep \in SUBSET Int
  <2>1. IsFiniteSet(1..Len(seq))
    BY <1>0, FS_Interval
  <2> QED
    BY <1>0, <2>1, FS_Subset
<1>2. n \in Nat
  BY <1>1, FS_CardinalityType, Zenon
<1>3. IsOrder(o, keep)
  BY <1>1, AscendingSorts, Zenon
<1>4. p = [i \in DOMAIN o |-> seq[o[i]]]
  BY Zenon DEF Pick
<1> HIDE DEF o, p, n
<1>5. DOMAIN o = 1..n /\ \A i \in 1..n : o[i] \in keep
  BY <1>3, Zenon DEF IsOrder, n
<1>6. \A i \in 1..n : seq[o[i]] \in S
  BY <1>0, <1>5
<1>7. p \in [1..n -> S] /\ \A i \in 1..n : p[i] = seq[o[i]]
  BY <1>4, <1>5, <1>6, Zenon
<1>8. p \in Seq(S)
  BY <1>2, <1>7
<1>9. DOMAIN p = 1..n /\ Len(p) = n
  BY <1>2, <1>7, <1>8
<1> QED
  BY <1>1, <1>2, <1>3, <1>7, <1>8, <1>9, Zenon DEF n, p

\* A filter keeps what it is to keep.
LEMMA PickNames ==
    ASSUME NEW S, NEW seq \in Seq(S), NEW keep \in SUBSET DOMAIN seq
    PROVE  /\ \A i \in DOMAIN Pick(seq, keep) : \E j \in keep : Pick(seq, keep)[i] = seq[j]
           /\ \A j \in keep : \E i \in DOMAIN Pick(seq, keep) : Pick(seq, keep)[i] = seq[j]
           /\ Apart(seq) => Apart(Pick(seq, keep))
<1> DEFINE p == Pick(seq, keep)
           n == Cardinality(keep)
<1>1. PICK o : IsOrder(o, keep) /\ \A i \in 1..n : p[i] = seq[o[i]]
  BY Picked, Zenon
<1>2. DOMAIN p = 1..n /\ n \in Nat
  BY Picked, Zenon
<1>3. keep \in SUBSET Int
  OBVIOUS
<1> HIDE DEF p, n
<1>4. \A i \in 1..n : o[i] \in keep
  BY <1>1, Zenon DEF IsOrder, n
<1>5. \A j \in keep : \E i \in 1..n : o[i] = j
  BY <1>1, Zenon DEF IsOrder, n
<1>6. ASSUME NEW i \in 1..n, NEW j \in 1..n, i # j PROVE o[i] # o[j]
  <2>1. /\ i < j => o[i] < o[j]
        /\ j < i => o[j] < o[i]
    BY <1>1, Zenon DEF IsOrder, n
  <2>2. o[i] \in Int /\ o[j] \in Int
    BY <1>3, <1>4, Zenon
  <2> QED
    BY <1>2, <1>6, <2>1, <2>2
<1>7. ASSUME Apart(seq) PROVE Apart(p)
  <2> SUFFICES ASSUME NEW i \in 1..n, NEW j \in 1..n, i # j PROVE p[i].rpc # p[j].rpc
    BY <1>2, Zenon DEF Apart
  <2>1. o[i] # o[j] /\ o[i] \in DOMAIN seq /\ o[j] \in DOMAIN seq
    BY <1>4, <1>6, Zenon
  <2>2. p[i] = seq[o[i]] /\ p[j] = seq[o[j]]
    BY <1>1, Zenon
  <2> QED
    BY <1>7, <2>1, <2>2, Zenon DEF Apart
<1>8. \A i \in DOMAIN p : \E j \in keep : p[i] = seq[j]
  BY <1>1, <1>2, <1>4, Zenon
<1>9. \A j \in keep : \E i \in DOMAIN p : p[i] = seq[j]
  <2> SUFFICES ASSUME NEW j \in keep PROVE \E i \in 1..n : p[i] = seq[j]
    BY <1>2, Zenon
  <2>1. PICK i \in 1..n : o[i] = j
    BY <1>5, Zenon
  <2> QED
    BY <1>1, <2>1, Zenon
<1> QED
  BY <1>7, <1>8, <1>9, Zenon DEF p

\* rotate_left.
LEMMA Rotated ==
    ASSUME NEW S, NEW seq \in Seq(S), prev_idx \in Nat
    PROVE  Rotate(seq) \in Seq(S) /\ Rearranges(Rotate(seq), seq)
<1>1. CASE seq = <<>>
  BY <1>1, Zenon DEF Rotate, Rearranges, Names, Apart
<1>2. CASE seq # <<>>
  <2> DEFINE n == Len(seq)
             k == prev_idx % n
             r == Rotate(seq)
  <2>0. n \in Nat \ {0} /\ DOMAIN seq = 1..n
    BY <1>2
  <2> HIDE DEF n
  <2>1. k \in 0..(n - 1)
    BY <2>0
  <2>2. r = SubSeq(seq, k + 1, n) \o SubSeq(seq, 1, k)
    BY <1>2, Zenon DEF Rotate, n
  <2> HIDE DEF k, r
  <2>3. /\ SubSeq(seq, k + 1, n) \in Seq(S) /\ Len(SubSeq(seq, k + 1, n)) = n - k
        /\ \A i \in 1..(n - k) : SubSeq(seq, k + 1, n)[i] = seq[k + i]
    <3>1. k + 1 \in Int /\ n \in Int /\ \A i \in (k + 1)..n : seq[i] \in S
      BY <2>0, <2>1
    <3>2. SubSeq(seq, k + 1, n) \in Seq(S)
      BY <2>0, <2>1, <3>1, SMTT(20)
    <3>3. Len(SubSeq(seq, k + 1, n)) = n - k
      BY <2>0, <2>1, <3>1, SMTT(20)
    <3> QED
      BY <2>0, <2>1, <3>2, <3>3, SMTT(20)
  <2>4. /\ SubSeq(seq, 1, k) \in Seq(S) /\ Len(SubSeq(seq, 1, k)) = k
        /\ \A i \in 1..k : SubSeq(seq, 1, k)[i] = seq[i]
    <3>1. k \in Int /\ 1 \in Int /\ \A i \in 1..k : seq[i] \in S
      BY <2>0, <2>1
    <3> QED
      BY <2>0, <2>1, <3>1
  <2>5. /\ r \in Seq(S) /\ Len(r) = n
        /\ \A i \in 1..n : r[i] = IF i <= n - k THEN seq[k + i] ELSE seq[i - (n - k)]
    BY <2>0, <2>1, <2>2, <2>3, <2>4
  <2>6. DOMAIN r = 1..n
    BY <2>5
  <2>7. Names(r, seq)
    <3> SUFFICES ASSUME NEW i \in 1..n PROVE \E j \in 1..n : r[i] = seq[j]
      BY <2>0, <2>6, Zenon DEF Names
    <3>1. CASE i <= n - k
      <4>1. k + i \in 1..n /\ r[i] = seq[k + i]
        BY <2>0, <2>1, <2>5, <3>1
      <4> QED
        BY <4>1, Zenon
    <3>2. CASE ~(i <= n - k)
      <4>1. i - (n - k) \in 1..n /\ r[i] = seq[i - (n - k)]
        BY <2>0, <2>1, <2>5, <3>2
      <4> QED
        BY <4>1, Zenon
    <3> QED
      BY <3>1, <3>2, Zenon
  <2>8. Names(seq, r)
    <3> SUFFICES ASSUME NEW j \in 1..n PROVE \E i \in 1..n : seq[j] = r[i]
      BY <2>0, <2>6, Zenon DEF Names
    <3>1. CASE j > k
      <4>1. j - k \in 1..n /\ r[j - k] = seq[j]
        BY <2>0, <2>1, <2>5, <3>1
      <4> QED
        BY <4>1, Zenon
    <3>2. CASE j <= k
      <4>1. j + (n - k) \in 1..n /\ r[j + (n - k)] = seq[j]
        BY <2>0, <2>1, <2>5, <3>2
      <4> QED
        BY <4>1, Zenon
    <3> QED
      BY <2>1, <3>1, <3>2
  <2>9. ASSUME Apart(seq) PROVE Apart(r)
    <3> DEFINE At(i) == IF i <= n - k THEN k + i ELSE i - (n - k)
    <3> SUFFICES ASSUME NEW i \in 1..n, NEW j \in 1..n, i # j PROVE r[i].rpc # r[j].rpc
      BY <2>6, Zenon DEF Apart
    <3>1. At(i) \in 1..n /\ At(j) \in 1..n /\ At(i) # At(j)
      BY <2>0, <2>1
    <3>2. r[i] = seq[At(i)] /\ r[j] = seq[At(j)]
      BY <2>5, Zenon
    <3> QED
      BY <2>0, <2>9, <3>1, <3>2, Zenon DEF Apart
  <2> QED
    BY <2>5, <2>7, <2>8, <2>9, Zenon DEF Rearranges, r
<1> QED
  BY <1>1, <1>2, Zenon

\* shuffle: an order in which no entry comes twice leaves out none.
LEMMA Shuffled ==
    ASSUME NEW S, NEW seq \in Seq(S), NEW r \in Shuffles(seq)
    PROVE  r \in Seq(S) /\ Len(r) = Len(seq) /\ Rearranges(r, seq)
<1> DEFINE D == DOMAIN seq
<1>1. D = 1..Len(seq) /\ Len(seq) \in Nat
  OBVIOUS
<1>2. PICK p \in [D -> D] : /\ \A i, j \in D : i # j => p[i] # p[j]
                            /\ r = [i \in D |-> seq[p[i]]]
  BY Zenon DEF Shuffles
<1>3. IsFiniteSet(D)
  BY <1>1, FS_Interval
<1> HIDE DEF D
<1>4. p \in Injection(D, D)
  BY <1>2, Zenon DEF Injection, IsInjective
<1>5. p \in Surjection(D, D)
  BY <1>3, <1>4, FS_Injection, Zenon
<1>6. \A j \in D : \E i \in D : p[i] = j
  BY <1>5, Zenon DEF Surjection
<1>7. r \in [1..Len(seq) -> S]
  BY <1>1, <1>2 DEF D
<1>8. r \in Seq(S)
  BY <1>1, <1>7
<1>9. DOMAIN r = D /\ Len(r) = Len(seq)
  BY <1>1, <1>7, <1>8
<1>10. Names(r, seq) /\ Names(seq, r)
  BY <1>2, <1>6, <1>9, Zenon DEF Names, D
<1>11. ASSUME Apart(seq) PROVE Apart(r)
  BY <1>2, <1>9, <1>11 DEF Apart, D
<1> QED
  BY <1>8, <1>9, <1>10, <1>11, Zenon DEF Rearranges

\* unique_by leaves one node at every address there was.
LEMMA Unique ==
    ASSUME NEW S, NEW seq \in Seq(S)
    PROVE  LET u == UniqueByAddress(seq)
           IN /\ u \in Seq(S) /\ Names(u, seq) /\ Apart(u)
              /\ \A j \in DOMAIN seq : \E i \in DOMAIN u : u[i].rpc = seq[j].rpc
<1> DEFINE keep == {i \in DOMAIN seq : \A j \in 1..(i - 1) : seq[j].rpc # seq[i].rpc}
           u == UniqueByAddress(seq)
           n == Cardinality(keep)
<1>0. u = Pick(seq, keep)
  BY Zenon DEF UniqueByAddress
<1>1. keep \in SUBSET DOMAIN seq /\ DOMAIN seq \in SUBSET Nat
  OBVIOUS
<1>k. \A i : i \in keep <=> i \in DOMAIN seq /\ \A j \in 1..(i - 1) : seq[j].rpc # seq[i].rpc
  BY Zenon
<1> HIDE DEF keep, u, n
<1>2. u \in Seq(S) /\ DOMAIN u = 1..n /\ n \in Nat
  BY <1>0, <1>1, Picked, Zenon DEF n
<1>3. PICK o : IsOrder(o, keep) /\ \A i \in 1..n : u[i] = seq[o[i]]
  BY <1>0, <1>1, Picked DEF n
<1>4. \A i \in 1..n : o[i] \in keep
  BY <1>3, Zenon DEF IsOrder, n
<1>5. \A i, j \in 1..n : i < j => o[i] < o[j]
  BY <1>3, Zenon DEF IsOrder, n
<1>6. \A j \in keep : \E i \in 1..n : o[i] = j
  BY <1>3, Zenon DEF IsOrder, n
<1>7. Names(u, seq)
  BY <1>1, <1>2, <1>3, <1>4, Zenon DEF Names
<1>8. ASSUME NEW i \in 1..n, NEW j \in 1..n, i < j PROVE u[i].rpc # u[j].rpc
  <2>1. o[i] \in Nat /\ o[j] \in Nat /\ o[i] < o[j] /\ o[i] >= 1
    BY <1>1, <1>4, <1>5, <1>8
  <2>2. o[i] \in 1..(o[j] - 1) /\ o[j] \in keep
    BY <1>4, <2>1
  <2>3. seq[o[i]].rpc # seq[o[j]].rpc
    BY <1>k, <2>2, Zenon
  <2> QED
    BY <1>3, <2>3, Zenon
<1>9. Apart(u)
  <2> SUFFICES ASSUME NEW i \in 1..n, NEW j \in 1..n, i # j PROVE u[i].rpc # u[j].rpc
    BY <1>2, Zenon DEF Apart
  <2>1. i < j \/ j < i
    BY <1>2
  <2> QED
    BY <1>8, <2>1, Zenon
<1>10. ASSUME NEW j \in DOMAIN seq PROVE \E i \in 1..n : u[i].rpc = seq[j].rpc
  <2> DEFINE M == {m \in DOMAIN seq : seq[m].rpc = seq[j].rpc}
  <2>1. M \in SUBSET Nat /\ M # {}
    BY <1>1, Zenon
  <2>2. PICK m \in M : \A y \in M : m <= y
    BY <2>1, Least, Zenon
  <2>3. m \in keep
    <3> SUFFICES ASSUME NEW y \in 1..(m - 1) PROVE seq[y].rpc # seq[m].rpc
      BY <1>k, Zenon
    <3>1. m \in Nat /\ y < m /\ y \in DOMAIN seq
      OBVIOUS
    <3> QED
      BY <2>2, <3>1
  <2>4. PICK i \in 1..n : o[i] = m
    BY <1>6, <2>3, Zenon
  <2> QED
    BY <1>3, <2>4, Zenon
<1> QED
  BY <1>2, <1>7, <1>9, <1>10, Zenon DEF u

-----------------------------------------------------------------------------
(***************************************************************************)
(* The parts of a plan.                                                    *)
(***************************************************************************)
\* No node of the sequence is ignored.
InUse(p) == \A i \in DOMAIN p : ~IsIgnored(p[i])

\* Every local node that is in use is named.
Covers(p) ==
    \A h \in DOMAIN nodes : ~IsIgnored(nodes[h]) /\ IsLocal(nodes[h]) => \E i \in DOMAIN p : p[i] = nodes[h]

\* A sequence of nodes in use.
IsPart(p) == p \in Seq(N) /\ InUse(p)

\* What the filters of the strategies keep.
LEMMA Filtered ==
    ASSUME NEW S, NEW seq \in Seq(S)
    PROVE  /\ Unignored(seq) \in Seq(S) /\ Names(Unignored(seq), seq) /\ InUse(Unignored(seq))
           /\ Apart(seq) => Apart(Unignored(seq))
           /\ \A j \in DOMAIN seq : ~IsIgnored(seq[j]) => \E i \in DOMAIN Unignored(seq) : Unignored(seq)[i] = seq[j]
           /\ Local(seq) \in Seq(S) /\ Names(Local(seq), seq)
           /\ Apart(seq) => Apart(Local(seq))
           /\ \A j \in DOMAIN seq : IsLocal(seq[j]) => \E i \in DOMAIN Local(seq) : Local(seq)[i] = seq[j]
           /\ NotLocal(seq) \in Seq(S) /\ Names(NotLocal(seq), seq)
           /\ \A j \in DOMAIN seq : ~IsLocal(seq[j]) => \E i \in DOMAIN NotLocal(seq) : NotLocal(seq)[i] = seq[j]
           /\ Remote(seq) \in Seq(S) /\ Names(Remote(seq), seq)
<1> DEFINE A == {i \in DOMAIN seq : ~IsIgnored(seq[i])}
           B == {i \in DOMAIN seq : IsLocal(seq[i])}
           C == {i \in DOMAIN seq : ~IsLocal(seq[i])}
           D == {i \in DOMAIN seq : IsRemote(seq[i])}
<1>0. /\ Unignored(seq) = Pick(seq, A) /\ Local(seq) = Pick(seq, B)
      /\ NotLocal(seq) = Pick(seq, C) /\ Remote(seq) = Pick(seq, D)
  BY Zenon DEF Unignored, Local, NotLocal, Remote
<1>a. A \in SUBSET DOMAIN seq /\ \A i \in DOMAIN seq : i \in A <=> ~IsIgnored(seq[i])
  BY Zenon
<1>b. B \in SUBSET DOMAIN seq /\ \A i \in DOMAIN seq : i \in B <=> IsLocal(seq[i])
  BY Zenon
<1>c. C \in SUBSET DOMAIN seq /\ \A i \in DOMAIN seq : i \in C <=> ~IsLocal(seq[i])
  BY Zenon
<1>d. D \in SUBSET DOMAIN seq
  BY Zenon
<1> HIDE DEF A, B, C, D
<1>1. /\ Unignored(seq) \in Seq(S) /\ Names(Unignored(seq), seq) /\ InUse(Unignored(seq))
      /\ Apart(seq) => Apart(Unignored(seq))
      /\ \A j \in DOMAIN seq : ~IsIgnored(seq[j]) => \E i \in DOMAIN Unignored(seq) : Unignored(seq)[i] = seq[j]
  <2>1. Pick(seq, A) \in Seq(S)
    BY <1>a, Picked, Zenon
  <2>2. /\ \A i \in DOMAIN Pick(seq, A) : \E j \in A : Pick(seq, A)[i] = seq[j]
        /\ \A j \in A : \E i \in DOMAIN Pick(seq, A) : Pick(seq, A)[i] = seq[j]
        /\ Apart(seq) => Apart(Pick(seq, A))
    BY <1>a, PickNames, Zenon
  <2> QED
    BY <1>0, <1>a, <2>1, <2>2, Zenon DEF Names, InUse
<1>2. /\ Local(seq) \in Seq(S) /\ Names(Local(seq), seq)
      /\ Apart(seq) => Apart(Local(seq))
      /\ \A j \in DOMAIN seq : IsLocal(seq[j]) => \E i \in DOMAIN Local(seq) : Local(seq)[i] = seq[j]
  <2>1. Pick(seq, B) \in Seq(S)
    BY <1>b, Picked, Zenon
  <2>2. /\ \A i \in DOMAIN Pick(seq, B) : \E j \in B : Pick(seq, B)[i] = seq[j]
        /\ \A j \in B : \E i \in DOMAIN Pick(seq, B) : Pick(seq, B)[i] = seq[j]
        /\ Apart(seq) => Apart(Pick(seq, B))
    BY <1>b, PickNames, Zenon
  <2> QED
    BY <1>0, <1>b, <2>1, <2>2, Zenon DEF Names
<1>3. /\ NotLocal(seq) \in Seq(S) /\ Names(NotLocal(seq), seq)
      /\ \A j \in DOMAIN seq : ~IsLocal(seq[j]) => \E i \in DOMAIN NotLocal(seq) : NotLocal(seq)[i] = seq[j]
  <2>1. Pick(seq, C) \in Seq(S)
    BY <1>c, Picked, Zenon
  <2>2. /\ \A i \in DOMAIN Pick(seq, C) : \E j \in C : Pick(seq, C)[i] = seq[j]
        /\ \A j \in C : \E i \in DOMAIN Pick(seq, C) : Pick(seq, C)[i] = seq[j]
    BY <1>c, PickNames, Zenon
  <2> QED
    BY <1>0, <1>c, <2>1, <2>2, Zenon DEF Names
<1>4. Remote(seq) \in Seq(S) /\ Names(Remote(seq), seq)
  <2>1. Pick(seq, D) \in Seq(S)
    BY <1>d, Picked, Zenon
  <2>2. \A i \in DOMAIN Pick(seq, D) : \E j \in D : Pick(seq, D)[i] = seq[j]
    BY <1>d, PickNames, Zenon
  <2> QED
    BY <1>0, <1>d, <2>1, <2>2, Zenon DEF Names
<1> QED
  BY <1>1, <1>2, <1>3, <1>4, Zenon

\* The nodes of the map, each once.
LEMMA Ordered ==
    ASSUME nodes \in Clusters
    PROVE  /\ NodesInOrder \in Seq(N) /\ Apart(NodesInOrder)
           /\ \A h \in DOMAIN nodes : \E i \in DOMAIN NodesInOrder : NodesInOrder[i] = nodes[h]
<1> DEFINE keep == {i \in DOMAIN Order : Order[i] \in DOMAIN nodes}
           hosts == Pick(Order, keep)
           n == Cardinality(keep)
<1>0. NodesInOrder = [i \in DOMAIN hosts |-> nodes[hosts[i]]]
  BY Zenon DEF NodesInOrder
<1>1. Order \in Seq(Hosts) /\ keep \in SUBSET DOMAIN Order
  BY OrderAssumption, Zenon
<1>k. \A i \in keep : Order[i] \in DOMAIN nodes
  BY Zenon
<1>m. \A h \in DOMAIN nodes : \E i \in keep : Order[i] = h
  BY OrderAssumption, Zenon DEF Hosts
<1> HIDE DEF keep, hosts, n
<1>2. DOMAIN hosts = 1..n /\ n \in Nat
  BY <1>1, Picked, Zenon DEF hosts, n
<1>3. PICK o : IsOrder(o, keep) /\ \A i \in 1..n : hosts[i] = Order[o[i]]
  BY <1>1, Picked, Zenon DEF hosts, n
<1>4. /\ \A i \in 1..n : o[i] \in keep
      /\ \A i, j \in 1..n : i < j => o[i] < o[j]
      /\ \A j \in keep : \E i \in 1..n : o[i] = j
  BY <1>3, Zenon DEF IsOrder, n
<1>5. \A i \in 1..n : hosts[i] \in DOMAIN nodes
  BY <1>3, <1>4, <1>k, Zenon
<1>6. ASSUME NEW i \in 1..n, NEW j \in 1..n, i # j PROVE hosts[i] # hosts[j]
  <2>1. o[i] \in DOMAIN Order /\ o[j] \in DOMAIN Order /\ o[i] \in Int /\ o[j] \in Int
    BY <1>1, <1>4
  <2>2. i < j \/ j < i
    BY <1>2, <1>6
  <2>3. o[i] # o[j]
    BY <1>4, <2>1, <2>2
  <2>4. Order[o[i]] # Order[o[j]]
    BY <2>1, <2>3, OrderAssumption, Zenon
  <2> QED
    BY <1>3, <2>4, Zenon
<1>7. NodesInOrder \in [1..n -> N] /\ \A i \in 1..n : NodesInOrder[i] = nodes[hosts[i]]
  BY <1>0, <1>2, <1>5, Zenon DEF N
<1>8. NodesInOrder \in Seq(N)
  BY <1>2, <1>7
<1>9. Apart(NodesInOrder)
  <2> SUFFICES ASSUME NEW i \in 1..n, NEW j \in 1..n, i # j PROVE NodesInOrder[i].rpc # NodesInOrder[j].rpc
    BY <1>7, Zenon DEF Apart
  <2>1. IsNodeMap(nodes)
    BY ClustersAssumption, Zenon
  <2> QED
    BY <1>5, <1>6, <1>7, <2>1 DEF IsNodeMap
<1>10. ASSUME NEW h \in DOMAIN nodes PROVE \E i \in 1..n : NodesInOrder[i] = nodes[h]
  <2>1. PICK j \in keep : Order[j] = h
    BY <1>m, Zenon
  <2>2. PICK i \in 1..n : o[i] = j
    BY <1>4, Zenon
  <2> QED
    BY <1>3, <1>7, <2>1, <2>2, Zenon
<1> QED
  BY <1>7, <1>8, <1>9, <1>10, Zenon

\* A rearranged part of a plan is as good.
LEMMA Rearranged ==
    ASSUME NEW a \in Seq(N), NEW b, IsPart(b), Rearranges(a, b)
    PROVE  IsPart(a) /\ (Covers(b) => Covers(a)) /\ (Apart(b) => Apart(a))
<1>1. InUse(a)
  BY Zenon DEF Rearranges, Names, IsPart, InUse
<1>2. ASSUME Covers(b) PROVE Covers(a)
  <2> SUFFICES ASSUME NEW h \in DOMAIN nodes, ~IsIgnored(nodes[h]), IsLocal(nodes[h])
               PROVE  \E i \in DOMAIN a : a[i] = nodes[h]
    BY Zenon DEF Covers
  <2>1. PICK j \in DOMAIN b : b[j] = nodes[h]
    BY <1>2, Zenon DEF Covers
  <2>2. \E i \in DOMAIN a : b[j] = a[i]
    BY Zenon DEF Rearranges, Names
  <2> QED
    BY <2>1, <2>2, Zenon
<1> QED
  BY <1>1, <1>2, Zenon DEF IsPart, Rearranges

\* Parts one after the other.
LEMMA Joined ==
    ASSUME NEW a, IsPart(a), NEW b, IsPart(b)
    PROVE  IsPart(a \o b) /\ (Covers(b) => Covers(a \o b)) /\ (Covers(a) => Covers(a \o b))
<1>1. a \in Seq(N) /\ b \in Seq(N)
  BY Zenon DEF IsPart
<1>2. /\ Len(a) \in Nat /\ Len(b) \in Nat /\ DOMAIN a = 1..Len(a) /\ DOMAIN b = 1..Len(b)
      /\ a \o b \in Seq(N) /\ Len(a \o b) = Len(a) + Len(b) /\ DOMAIN (a \o b) = 1..(Len(a) + Len(b))
      /\ \A i \in 1..(Len(a) + Len(b)) : (a \o b)[i] = IF i <= Len(a) THEN a[i] ELSE b[i - Len(a)]
  BY <1>1
<1> DEFINE c == a \o b
<1> HIDE DEF c
<1>3. /\ c \in Seq(N) /\ DOMAIN c = 1..(Len(a) + Len(b))
      /\ \A i \in 1..(Len(a) + Len(b)) : c[i] = IF i <= Len(a) THEN a[i] ELSE b[i - Len(a)]
  BY <1>2, Zenon DEF c
<1>4. ASSUME NEW i \in DOMAIN a PROVE i \in DOMAIN c /\ c[i] = a[i]
  BY <1>2, <1>3
<1>5. ASSUME NEW i \in DOMAIN b PROVE i + Len(a) \in DOMAIN c /\ c[i + Len(a)] = b[i]
  <2>1. i + Len(a) \in 1..(Len(a) + Len(b)) /\ ~(i + Len(a) <= Len(a)) /\ (i + Len(a)) - Len(a) = i
    BY <1>2
  <2> QED
    BY <1>3, <2>1, Zenon
<1>6. InUse(c)
  <2> SUFFICES ASSUME NEW i \in 1..(Len(a) + Len(b)) PROVE ~IsIgnored(c[i])
    BY <1>3, Zenon DEF InUse
  <2>1. CASE i <= Len(a)
    <3>1. i \in DOMAIN a /\ c[i] = a[i]
      BY <1>2, <1>3, <2>1
    <3> QED
      BY <3>1, Zenon DEF IsPart, InUse
  <2>2. CASE ~(i <= Len(a))
    <3>1. i - Len(a) \in DOMAIN b /\ c[i] = b[i - Len(a)]
      BY <1>2, <1>3, <2>2
    <3> QED
      BY <3>1, Zenon DEF IsPart, InUse
  <2> QED
    BY <2>1, <2>2, Zenon
<1>7. Covers(b) => Covers(c)
  BY <1>5, Zenon DEF Covers
<1>8. Covers(a) => Covers(c)
  BY <1>4, Zenon DEF Covers
<1> QED
  BY <1>3, <1>6, <1>7, <1>8, Zenon DEF IsPart, c

\* Without the nodes that come again: every node is still there.
LEMMA Deduplicated ==
    ASSUME nodes \in Clusters, NEW p, IsPart(p), Covers(p)
    PROVE  IsPart(UniqueByAddress(p)) /\ Covers(UniqueByAddress(p)) /\ Apart(UniqueByAddress(p))
<1> DEFINE u == UniqueByAddress(p)
<1>1. /\ u \in Seq(N) /\ Names(u, p) /\ Apart(u)
      /\ \A j \in DOMAIN p : \E i \in DOMAIN u : u[i].rpc = p[j].rpc
  BY Unique, Zenon DEF IsPart
<1> HIDE DEF u
<1>2. InUse(u)
  BY <1>1, Zenon DEF IsPart, InUse, Names
<1>3. Covers(u)
  <2> SUFFICES ASSUME NEW h \in DOMAIN nodes, ~IsIgnored(nodes[h]), IsLocal(nodes[h])
               PROVE  \E i \in DOMAIN u : u[i] = nodes[h]
    BY Zenon DEF Covers
  <2>1. PICK j \in DOMAIN p : p[j] = nodes[h]
    BY Zenon DEF Covers
  <2>2. PICK i \in DOMAIN u : u[i].rpc = p[j].rpc
    BY <1>1, Zenon
  <2>3. u[i] \in N
    BY <1>1
  <2>4. PICK g \in DOMAIN nodes : u[i] = nodes[g]
    BY <2>3, Zenon DEF N
  <2>5. g = h
    BY <2>1, <2>2, <2>4, ClustersAssumption DEF IsNodeMap
  <2> QED
    BY <2>4, <2>5, Zenon
<1> QED
  BY <1>1, <1>2, <1>3, Zenon DEF IsPart, u

\* The parts that the node map gives.
LEMMA Parts ==
    ASSUME nodes \in Clusters, prev_idx \in Nat
    PROVE  /\ \A p \in {UnignoredInOrder, RoundRobinUnignoredNodes, RoundRobinUnignoredLocalNodes} :
                 IsPart(p) /\ Covers(p) /\ Apart(p)
           /\ \A n \in Nat : IsPart(UnignoredRemoteNodesCapped(n))
<1> DEFINE o == NodesInOrder
           u == UnignoredInOrder
           l == LocalInOrder
<1>0. /\ o \in Seq(N) /\ Apart(o)
      /\ \A h \in DOMAIN nodes : \E i \in DOMAIN o : o[i] = nodes[h]
  BY Ordered, Zenon
<1> HIDE DEF o
<1>u. u = Unignored(o)
  BY Zenon DEF UnignoredInOrder, o
<1>l. l = Local(u)
  BY Zenon DEF LocalInOrder
<1> HIDE DEF u, l
<1>1. /\ u \in Seq(N) /\ InUse(u) /\ Apart(u)
      /\ \A j \in DOMAIN o : ~IsIgnored(o[j]) => \E i \in DOMAIN u : u[i] = o[j]
  BY <1>0, <1>u, Filtered, Zenon
<1>2. IsPart(u) /\ Covers(u)
  <2>1. Covers(u)
    <3> SUFFICES ASSUME NEW h \in DOMAIN nodes, ~IsIgnored(nodes[h]), IsLocal(nodes[h])
                 PROVE  \E i \in DOMAIN u : u[i] = nodes[h]
      BY Zenon DEF Covers
    <3>1. PICK j \in DOMAIN o : o[j] = nodes[h]
      BY <1>0, Zenon
    <3> QED
      BY <1>1, <3>1, Zenon
  <2> QED
    BY <1>1, <2>1, Zenon DEF IsPart
<1>3. /\ l \in Seq(N) /\ Names(l, u) /\ Apart(l)
      /\ \A j \in DOMAIN u : IsLocal(u[j]) => \E i \in DOMAIN l : l[i] = u[j]
  BY <1>1, <1>l, Filtered, Zenon
<1>4. IsPart(l) /\ Covers(l)
  <2>1. InUse(l)
    BY <1>1, <1>3, Zenon DEF Names, InUse
  <2>2. Covers(l)
    <3> SUFFICES ASSUME NEW h \in DOMAIN nodes, ~IsIgnored(nodes[h]), IsLocal(nodes[h])
                 PROVE  \E i \in DOMAIN l : l[i] = nodes[h]
      BY Zenon DEF Covers
    <3>1. PICK j \in DOMAIN u : u[j] = nodes[h]
      BY <1>2, Zenon DEF Covers
    <3> QED
      BY <1>3, <3>1, Zenon
  <2> QED
    BY <1>3, <2>1, <2>2, Zenon DEF IsPart
<1>5. ASSUME NEW p, IsPart(p), Covers(p), Apart(p) PROVE IsPart(Rotate(p)) /\ Covers(Rotate(p)) /\ Apart(Rotate(p))
  <2>1. Rotate(p) \in Seq(N) /\ Rearranges(Rotate(p), p)
    BY <1>5, Rotated, Zenon DEF IsPart
  <2> QED
    BY <1>5, <2>1, Rearranged, Zenon
<1>6. ASSUME NEW n \in Nat PROVE IsPart(UnignoredRemoteNodesCapped(n))
  <2> DEFINE r == Remote(u)
             c == Capped(r, n)
  <2>1. r \in Seq(N) /\ Names(r, u)
    BY <1>1, Filtered, Zenon
  <2> HIDE DEF r
  <2>2. c \in Seq(N) /\ \A i \in DOMAIN c : i \in DOMAIN r /\ c[i] = r[i]
    BY <2>1, CappedIs, Zenon
  <2> HIDE DEF c
  <2>3. InUse(c)
    BY <1>1, <2>1, <2>2, Zenon DEF Names, InUse
  <2>4. UnignoredRemoteNodesCapped(n) = c
    BY Zenon DEF UnignoredRemoteNodesCapped, c, r, u
  <2> QED
    BY <2>2, <2>3, <2>4, Zenon DEF IsPart
<1>7. RoundRobinUnignoredNodes = Rotate(u) /\ RoundRobinUnignoredLocalNodes = Rotate(l)
  BY Zenon DEF RoundRobinUnignoredNodes, RoundRobinUnignoredLocalNodes, u, l
<1>8. \A p \in {u, Rotate(u), Rotate(l)} : IsPart(p) /\ Covers(p) /\ Apart(p)
  BY <1>1, <1>2, <1>3, <1>4, <1>5, Zenon
<1> QED
  BY <1>6, <1>7, <1>8, Zenon DEF u

-----------------------------------------------------------------------------
(***************************************************************************)
(* Plans.                                                                  *)
(***************************************************************************)
LEMMA ShuffledPart ==
    ASSUME NEW p, IsPart(p), NEW q \in Shuffles(p)
    PROVE  IsPart(q) /\ (Covers(p) => Covers(q)) /\ (Apart(p) => Apart(q))
<1>1. q \in Seq(N) /\ Rearranges(q, p)
  BY Shuffled, Zenon DEF IsPart
<1> QED
  BY <1>1, Rearranged, Zenon

\* Of nodes, the ones that are in use are a part of a plan.
LEMMA UnignoredPart ==
    ASSUME NEW s \in Seq(N)
    PROVE  IsPart(Unignored(s)) /\ IsPart(Local(Unignored(s))) /\ IsPart(NotLocal(Unignored(s)))
<1> DEFINE u == Unignored(s)
<1>1. u \in Seq(N) /\ InUse(u)
  BY Filtered, Zenon
<1> HIDE DEF u
<1>2. Local(u) \in Seq(N) /\ Names(Local(u), u) /\ NotLocal(u) \in Seq(N) /\ Names(NotLocal(u), u)
  BY <1>1, Filtered, Zenon
<1>3. InUse(Local(u)) /\ InUse(NotLocal(u))
  BY <1>1, <1>2, Zenon DEF InUse, Names
<1> QED
  BY <1>1, <1>2, <1>3, Zenon DEF IsPart, u

\* Plans for SimpleStrategy: distinct nodes in use, all of them.
LEMMA SimplePlansOK ==
    ASSUME nodes \in Clusters, prev_idx \in Nat, NEW token, NEW n \in Nat, NEW p \in SimplePlans(token, n)
    PROVE  IsPart(p) /\ Covers(p) /\ Apart(p)
<1> DEFINE s == NodesForTokenCapped(token, n)
           l == RoundRobinUnignoredNodes
<1>1. s \in Seq(N)
  BY AroundTheRing, Zenon
<1>2. IsPart(l) /\ Covers(l)
  BY Parts, Zenon
<1>3. PICK q \in Shuffles(Unignored(s)) : p = UniqueByAddress(q \o l)
  BY Zenon DEF SimplePlans
<1> HIDE DEF s, l
<1>4. IsPart(q)
  <2>1. IsPart(Unignored(s))
    BY <1>1, UnignoredPart, Zenon
  <2> QED
    BY <2>1, ShuffledPart, Zenon
<1>5. IsPart(q \o l) /\ Covers(q \o l)
  BY <1>2, <1>4, Joined, Zenon
<1> QED
  BY <1>3, <1>5, Deduplicated, Zenon

\* Plans for NetworkTopologyStrategy: nodes in use, all local ones among
\* them, and distinct but for the plan that stays local.
LEMMA NetworkTopologyPlansOK ==
    ASSUME nodes \in Clusters, prev_idx \in Nat, strategy \in Strategies,
           NEW token, NEW rf, IsFactors(rf), NEW consistency,
           NEW p \in NetworkTopologyPlans(token, rf, consistency)
    PROVE  /\ IsPart(p) /\ Covers(p)
           /\ Apart(p) \/ /\ strategy.max_nodes_per_remote_dc # None
                          /\ ~strategy.allow_dc_failover_for_local_cl /\ IsDcLocal(consistency)
<1> DEFINE l == RoundRobinUnignoredLocalNodes
           replicas == {s \o l : s \in SortedReplicas(token, rf)}
           max == strategy.max_nodes_per_remote_dc
           local == consistency # None /\ ~strategy.allow_dc_failover_for_local_cl /\ IsDcLocal(consistency)
<1>1. IsPart(l) /\ Covers(l)
  BY Parts, Zenon
<1>2. ASSUME NEW s \in SortedReplicas(token, rf) PROVE IsPart(s)
  <2> DEFINE w == NetworkTopologyReplicas(token, rf)
             u == Unignored(w)
  <2>1. w \in Seq(N)
    BY ReplicasAreNodes, Zenon
  <2>2. PICK a \in Shuffles(Local(u)), b \in Shuffles(NotLocal(u)) : s = a \o b
    BY DEF SortedReplicas
  <2> HIDE DEF w
  <2>3. IsPart(Local(u)) /\ IsPart(NotLocal(u))
    BY <2>1, UnignoredPart, Zenon
  <2> HIDE DEF u
  <2>4. IsPart(a) /\ IsPart(b)
    BY <2>3, ShuffledPart, Zenon
  <2> QED
    BY <2>2, <2>4, Joined, Zenon
<1>3. ASSUME NEW q \in replicas PROVE IsPart(q) /\ Covers(q)
  <2>1. PICK s \in SortedReplicas(token, rf) : q = s \o l
    BY <1>3, Zenon
  <2> HIDE DEF l
  <2> QED
    BY <1>1, <1>2, <2>1, Joined, Zenon
<1>4. NetworkTopologyPlans(token, rf, consistency) =
          IF max = None THEN {UniqueByAddress(q) : q \in replicas}
          ELSE IF local THEN replicas
          ELSE {UniqueByAddress(q \o r) : q \in replicas, r \in Shuffles(UnignoredRemoteNodesCapped(max))}
  BY DEF NetworkTopologyPlans
<1> HIDE DEF replicas, l
<1>5. CASE max = None
  <2>1. PICK q \in replicas : p = UniqueByAddress(q)
    BY <1>4, <1>5
  <2> QED
    BY <1>3, <2>1, Deduplicated, Zenon
<1>6. CASE max # None /\ local
  BY <1>3, <1>4, <1>6
<1>7. CASE max # None /\ ~local
  <2>1. PICK q \in replicas, r \in Shuffles(UnignoredRemoteNodesCapped(max)) : p = UniqueByAddress(q \o r)
    BY <1>4, <1>7
  <2>2. max \in Nat
    BY <1>7, StrategiesAssumption, Zenon
  <2>3. IsPart(UnignoredRemoteNodesCapped(max))
    BY <2>2, Parts, Zenon
  <2>4. IsPart(r)
    BY <2>3, ShuffledPart, Zenon
  <2>5. IsPart(q \o r) /\ Covers(q \o r)
    BY <1>3, <2>4, Joined, Zenon
  <2> QED
    BY <2>1, <2>5, Deduplicated, Zenon
<1> QED
  BY <1>5, <1>6, <1>7, Zenon

\* The keyspaces of the metadata.
IsStrategy(s) ==
    /\ s.kind \in {"Simple", "NetworkTopology", "Other"}
    /\ s.kind = "Simple" => s.rf \in Nat
    /\ s.kind = "NetworkTopology" => IsFactors(s.rf) /\ IsFiniteSet(DOMAIN s.rf)

KeyspacesOK == \A k \in DOMAIN keyspaces : IsStrategy(keyspaces[k])

\* StaysLocal, of a request.
Stays(r) ==
    /\ strategy.kind = "TopologyAware" /\ Routing(r).kind = "NetworkTopology"
    /\ strategy.max_nodes_per_remote_dc # None /\ ~strategy.allow_dc_failover_for_local_cl
    /\ IsDcLocal(r.consistency)

\* Whatever the strategy: a plan names every local node, and none twice.
LEMMA PlansOK ==
    ASSUME nodes \in Clusters, nodes # NoNodes, prev_idx \in Nat, strategy \in Strategies, KeyspacesOK,
           NEW r, NEW p \in Plans(r)
    PROVE  IsPart(p) /\ Covers(p) /\ (Apart(p) \/ Stays(r))
<1>0. strategy.kind \in {"RoundRobin", "Random", "TopologyAware"}
  BY StrategiesAssumption, Zenon
<1>1. CASE strategy.kind = "RoundRobin"
  <2>1. p = RoundRobinUnignoredNodes
    BY <1>1, Zenon DEF Plans
  <2> QED
    BY <2>1, Parts, Zenon
<1>2. CASE strategy.kind = "Random"
  <2>1. p \in Shuffles(UnignoredInOrder)
    BY <1>2, Zenon DEF Plans
  <2>2. IsPart(UnignoredInOrder) /\ Covers(UnignoredInOrder) /\ Apart(UnignoredInOrder)
    BY Parts, Zenon
  <2> QED
    BY <2>1, <2>2, ShuffledPart, Zenon
<1>3. CASE strategy.kind = "TopologyAware"
  <2> DEFINE routing == Routing(r)
  <2>1. p \in TopologyAwarePlans(r)
    BY <1>3, Zenon DEF Plans
  <2>2. routing = [kind |-> "Local"] \/ IsStrategy(routing)
    BY Zenon DEF Routing, KeyspacesOK
  <2> HIDE DEF routing
  <2>3. CASE routing = [kind |-> "Local"]
    <3>1. p = RoundRobinUnignoredLocalNodes
      BY <2>1, <2>3 DEF TopologyAwarePlans, routing
    <3> QED
      BY <3>1, Parts, Zenon
  <2>4. CASE IsStrategy(routing) /\ routing.kind = "Simple"
    <3>1. p \in SimplePlans(TokenOf(r), routing.rf) /\ routing.rf \in Nat
      BY <2>1, <2>4, Zenon DEF TopologyAwarePlans, IsStrategy, routing
    <3> QED
      BY <3>1, SimplePlansOK, Zenon
  <2>5. CASE IsStrategy(routing) /\ routing.kind = "Other"
    <3>1. p \in SimplePlans(TokenOf(r), 1)
      BY <2>1, <2>5, Zenon DEF TopologyAwarePlans, IsStrategy, routing
    <3> QED
      BY <3>1, SimplePlansOK, Zenon
  <2>6. CASE IsStrategy(routing) /\ routing.kind = "NetworkTopology"
    <3>1. p \in NetworkTopologyPlans(TokenOf(r), routing.rf, r.consistency) /\ IsFactors(routing.rf)
      BY <2>1, <2>6, Zenon DEF TopologyAwarePlans, IsStrategy, routing
    <3>2. /\ IsPart(p) /\ Covers(p)
          /\ Apart(p) \/ /\ strategy.max_nodes_per_remote_dc # None
                         /\ ~strategy.allow_dc_failover_for_local_cl /\ IsDcLocal(r.consistency)
      BY <3>1, NetworkTopologyPlansOK, Zenon
    <3> QED
      BY <1>3, <2>6, <3>2, Zenon DEF Stays, routing
  <2> QED
    BY <2>2, <2>3, <2>4, <2>5, <2>6, Zenon DEF IsStrategy
<1> QED
  BY <1>0, <1>1, <1>2, <1>3, Zenon

-----------------------------------------------------------------------------
(***************************************************************************)
(* Every plan of a session.                                                *)
(***************************************************************************)
\* A keyspace that build_keyspace could read has factors that are numbers.
LEMMA ReadKeyspaces ==
    ASSUME NEW rows \in KeyspaceTables, NEW name \in DOMAIN rows,
           BuildReplicationStrategy(rows[name]) # Error
    PROVE  IsStrategy(BuildReplicationStrategy(rows[name]))
<1> DEFINE s == rows[name]
           factors == [p \in DOMAIN s.factors |-> ExtractReplicationFactor(s.factors[p])]
           b == BuildReplicationStrategy(s)
<1>1. \A p \in DOMAIN s.factors : factors[p] \in Nat \/ factors[p] = -1
  BY TablesAssumption, Zenon DEF ExtractReplicationFactor
<1>2. \/ s.class = "SimpleStrategy"
      \/ s.class = "NetworkTopologyStrategy"
      \/ s.class \notin {"SimpleStrategy", "NetworkTopologyStrategy"}
  BY Zenon
<1>3. CASE s.class = "SimpleStrategy"
  <2>1. b = IF "replication_factor" \notin DOMAIN factors THEN Error
            ELSE IF factors["replication_factor"] < 0 THEN Error ELSE Simple(factors["replication_factor"])
    BY <1>3 DEF BuildReplicationStrategy
  <2> HIDE DEF b, s
  <2>2. /\ "replication_factor" \in DOMAIN s.factors /\ ~(factors["replication_factor"] < 0)
        /\ b = Simple(factors["replication_factor"])
    BY <2>1, Zenon DEF b, s
  <2>3. factors["replication_factor"] \in Nat
    BY <1>1, <2>2
  <2> HIDE DEF factors
  <2>4. IsStrategy(b)
    BY <2>2, <2>3, Zenon DEF IsStrategy, Simple
  <2> QED
    BY <2>4, Zenon DEF b, s
<1>4. CASE s.class = "NetworkTopologyStrategy"
  <2>1. b = IF \E dc \in DOMAIN factors : factors[dc] < 0 THEN Error ELSE NetworkTopology(factors)
    BY <1>4 DEF BuildReplicationStrategy
  <2>2. (\A dc \in DOMAIN factors : ~(factors[dc] < 0)) /\ b = NetworkTopology(factors)
    BY <2>1, Zenon
  <2>3. IsFactors(factors) /\ IsFiniteSet(DOMAIN factors)
    <3>1. IsFactors(factors)
      BY <1>1, <2>2 DEF IsFactors
    <3>2. DOMAIN factors = DOMAIN s.factors
      BY Zenon
    <3> QED
      BY <3>1, <3>2, TablesAssumption, Zenon
  <2> HIDE DEF factors, b, s
  <2>4. IsStrategy(b)
    BY <2>2, <2>3, Zenon DEF IsStrategy, NetworkTopology
  <2> QED
    BY <2>4, Zenon DEF b, s
<1>5. CASE s.class \notin {"SimpleStrategy", "NetworkTopologyStrategy"}
  <2>1. b = Error \/ b = Other
    BY <1>5, Zenon DEF BuildReplicationStrategy
  <2> QED
    BY <2>1 DEF IsStrategy, Other
<1> QED
  BY <1>2, <1>3, <1>4, <1>5, Zenon

\* What the session knows, and what is true of the plan once there is one.
PlanInv ==
    /\ strategy \in Strategies /\ prev_idx \in Nat /\ KeyspacesOK
    /\ nodes = NoNodes \/ nodes \in Clusters
    /\ current_keyspace \in CurrentKeyspaces
    /\ plan # None =>
          /\ statement \in Statements /\ request = Request(statement, current_keyspace)
          /\ nodes # NoNodes => IsPart(plan) /\ Covers(plan) /\ (Apart(plan) \/ Stays(request))

\* The invariant is inductive.
LEMMA PlanInvariance == Spec => []PlanInv
<1>1. Init => PlanInv
  <2> SUFFICES ASSUME Init PROVE PlanInv
    BY Zenon
  <2>1. PICK rows \in KeyspaceTables :
            IF RefreshKeyspaces(rows) = Error
            THEN nodes = NoNodes /\ keyspaces = NoNodes
            ELSE nodes \in Clusters /\ keyspaces = RefreshKeyspaces(rows)
    BY Zenon DEF Init
  <2>2. strategy \in Strategies /\ prev_idx \in Nat /\ plan = None /\ current_keyspace \in CurrentKeyspaces
    BY IndexAssumption DEF Init
  <2>3. CASE RefreshKeyspaces(rows) = Error
    BY <2>1, <2>2, <2>3, Zenon DEF PlanInv, KeyspacesOK, NoNodes
  <2>4. CASE RefreshKeyspaces(rows) # Error
    <3> DEFINE read == [name \in DOMAIN rows |-> BuildReplicationStrategy(rows[name])]
    <3>1. RefreshKeyspaces(rows) = IF \E name \in DOMAIN rows : read[name] = Error THEN Error ELSE read
      BY Zenon DEF RefreshKeyspaces
    <3>2. keyspaces = read /\ \A name \in DOMAIN rows : read[name] # Error
      BY <2>1, <2>4, <3>1, Zenon
    <3>3. KeyspacesOK
      BY <3>2, ReadKeyspaces, Zenon DEF KeyspacesOK
    <3> QED
      BY <2>1, <2>2, <2>4, <3>3, Zenon DEF PlanInv
  <2> QED
    BY <2>3, <2>4, Zenon
<1>2. PlanInv /\ [Next]_vars => PlanInv'
  <2> SUFFICES ASSUME PlanInv, [Next]_vars PROVE PlanInv'
    BY Zenon
  <2>1. ASSUME NEW s \in Statements, QueryPlan(s) PROVE PlanInv'
    <3> DEFINE r == Request(s, current_keyspace)
    <3>1. /\ statement' = s /\ request' = r /\ plan' \in Plans(r)
          /\ prev_idx' = IF Rotates(r) THEN (prev_idx + 1) % IndexLimit ELSE prev_idx
          /\ UNCHANGED <<nodes, strategy, keyspaces, current_keyspace>>
      BY <2>1, Zenon DEF QueryPlan
    <3>2. /\ strategy' \in Strategies /\ KeyspacesOK' /\ (nodes' = NoNodes \/ nodes' \in Clusters)
          /\ current_keyspace' \in CurrentKeyspaces
      BY <3>1, Zenon DEF PlanInv, KeyspacesOK
    <3>3. prev_idx' \in Nat
      <4>1. prev_idx \in Nat /\ IndexLimit \in Nat \ {0}
        BY IndexAssumption, Zenon DEF PlanInv
      <4>2. (prev_idx + 1) % IndexLimit \in Nat
        BY <4>1
      <4> QED
        BY <3>1, <4>1, <4>2, Zenon
    <3>4. ASSUME nodes # NoNodes PROVE IsPart(plan') /\ Covers(plan') /\ (Apart(plan') \/ Stays(r))
      BY <3>1, <3>4, PlansOK, Zenon DEF PlanInv
    <3>5. nodes' # NoNodes => IsPart(plan)' /\ Covers(plan)' /\ (Apart(plan)' \/ Stays(request)')
      BY <3>1, <3>4, Zenon DEF IsPart, InUse, N, Covers, Apart, Stays, Routing
    <3>6. request' = Request(statement, current_keyspace)'
      BY <3>1, Zenon
    <3> QED
      BY <2>1, <3>1, <3>2, <3>3, <3>5, <3>6, Zenon DEF PlanInv
  <2>2. CASE UNCHANGED vars
    BY <2>2, Zenon DEF vars, PlanInv, KeyspacesOK, IsPart, InUse, N, Covers, Apart, Stays, Routing
  <2> QED
    BY <2>1, <2>2, Zenon DEF Next
<1> QED
  BY <1>1, <1>2, PTL DEF Spec

\* Query plans never name a node twice, for every cluster and order of its
\* nodes, replication setting, index and shuffle: what is put in front of the
\* local nodes is taken out behind, but for the plan that is not deduplicated.
THEOREM PlansNameNodesOnce == Spec => []PlanNamesNodesOnce
<1>1. PlanInv => PlanNamesNodesOnce
  BY Zenon DEF PlanInv, PlanNamesNodesOnce, Apart, Stays, StaysLocal
<1> QED
  BY <1>1, PlanInvariance, PTL

\* Query plans consist of nodes in use and leave out no local one: rotating
\* by any index and shuffling lose none, and a replica that is taken out of
\* the local nodes is in front of them.
THEOREM PlansCoverLocalNodes == Spec => []PlanCoversLocalNodes
<1>1. PlanInv => PlanCoversLocalNodes
  <2> SUFFICES ASSUME PlanInv, plan # None, nodes # NoNodes
               PROVE  /\ \A i \in DOMAIN plan : ~IsIgnored(plan[i])
                      /\ \A h \in DOMAIN nodes : Usable(h) /\ IsLocal(nodes[h]) => Planned(h)
    BY Zenon DEF PlanCoversLocalNodes
  <2>1. IsPart(plan) /\ Covers(plan) /\ nodes \in Clusters
    BY Zenon DEF PlanInv
  <2>2. \A h \in DOMAIN nodes : nodes[h].host = h
    BY <2>1, ClustersAssumption, Zenon DEF IsNodeMap
  <2> QED
    BY <2>1, <2>2, Zenon DEF IsPart, InUse, Covers, Usable, Planned
<1> QED
  BY <1>1, PlanInvariance, PTL

-----------------------------------------------------------------------------
(***************************************************************************)
(* The routing key.                                                        *)
(***************************************************************************)
\* Sequences over a set, joined one after the other, are one over that set.
LEMMA Concatenated ==
    ASSUME NEW S, NEW seqs \in Seq(Seq(S))
    PROVE  Concat(seqs) \in Seq(S)
<1> DEFINE n == Len(seqs)
           A == Seq(S)
           F(g) == [i \in 0..n |-> IF i = 0 THEN <<>> ELSE g[i - 1] \o seqs[i]]
           upto == CHOOSE g : g = F(g)
           f == [i \in 1..n |-> [x \in A |-> x \o seqs[i]]]
<1>1. Concat(seqs) = upto[n]
  BY Zenon DEF Concat
<1>2. n \in Nat /\ <<>> \in A /\ \A i \in 1..n : seqs[i] \in A
  OBVIOUS
<1>3. \A i \in 1..n : \A x \in A : x \o seqs[i] \in A
  BY <1>2
<1>4. f \in [1..n -> [A -> A]]
  <2> HIDE DEF A
  <2> QED
    BY <1>3, Zenon
<1> HIDE DEF A, n
<1>5. PICK g : Follows(g, n, A, <<>>, f)
  <2> HIDE DEF f
  <2> QED
    BY <1>2, <1>4, Recursion, Zenon
<1>6. g \in [0..n -> A] /\ g[0] = <<>> /\ \A i \in 1..n : g[i] = f[i][g[i - 1]]
  BY <1>5, Zenon DEF Follows
<1>7. ASSUME NEW i \in 0..n, i # 0 PROVE g[i] = g[i - 1] \o seqs[i]
  <2>1. i \in 1..n /\ i - 1 \in 0..n
    BY <1>2, <1>7
  <2>2. g[i - 1] \in A /\ g[i] = f[i][g[i - 1]]
    BY <1>6, <2>1, Zenon
  <2> QED
    BY <2>1, <2>2, Zenon
<1>8. g = F(g)
  <2> HIDE DEF f
  <2> QED
    BY <1>6, <1>7, Zenon
<1>9. upto = F(upto)
  BY <1>8, Zenon
<1> HIDE DEF upto, f
<1>10. upto[0] = <<>> /\ \A i \in 1..n : upto[i] = upto[i - 1] \o seqs[i]
  BY <1>2, <1>9
<1> DEFINE T == {i \in Nat : i <= n => upto[i] \in A}
<1>11. 0 \in T
  BY <1>2, <1>10, Zenon
<1>12. ASSUME NEW i \in Nat, i \in T PROVE i + 1 \in T
  <2> SUFFICES ASSUME i + 1 <= n PROVE upto[i + 1] \in A
    OBVIOUS
  <2>1. i + 1 \in 1..n /\ (i + 1) - 1 = i /\ upto[i] \in A
    BY <1>2, <1>12
  <2>2. upto[i + 1] = upto[i] \o seqs[i + 1]
    BY <1>10, <2>1, Zenon
  <2> QED
    BY <1>3, <2>1, <2>2, Zenon
<1>13. Nat \subseteq T
  <2> HIDE DEF T
  <2> QED
    BY <1>11, <1>12, Induction, Zenon
<1>14. upto[n] \in A
  BY <1>2, <1>13
<1> QED
  BY <1>1, <1>14, Zenon DEF A

\* A size below the limit takes two bytes.
LEMMA ComponentIs ==
    ASSUME NEW bytes \in Seq(0..255), Len(bytes) < KeyLimit
    PROVE  Component(bytes) = SerializeRoutingValue(bytes) /\ Component(bytes) \in Seq(0..255)
<1>1. Len(bytes) \in Nat /\ Len(bytes) < 65536
  BY DEF KeyLimit
<1>2. /\ Len(bytes) \div 256 \in 0..255 /\ Len(bytes) % 256 \in 0..255
      /\ (Len(bytes) \div 256) % 256 = Len(bytes) \div 256
  <2> DEFINE m == Len(bytes)
  <2>1. m \in Nat /\ m < 65536
    BY <1>1
  <2> HIDE DEF m
  <2>2. m \div 256 \in 0..255
    BY <2>1
  <2>3. m % 256 \in 0..255
    BY <2>1
  <2>4. \A k \in 0..255 : k % 256 = k
    OBVIOUS
  <2>5. (m \div 256) % 256 = m \div 256
    BY <2>2, <2>4, Zenon
  <2> QED
    BY <2>2, <2>3, <2>5, Zenon DEF m
<1> DEFINE a == Len(bytes) \div 256
           b == Len(bytes) % 256
<1>3. Short(Len(bytes)) = <<a, b>>
  BY <1>2, Zenon DEF Short
<1>4. <<a, b>> \in Seq(0..255) /\ <<0>> \in Seq(0..255)
  <2> HIDE DEF a, b
  <2>1. a \in 0..255 /\ b \in 0..255
    BY <1>2, Zenon DEF a, b
  <2> QED
    BY <2>1
<1>5. Component(bytes) = <<a, b>> \o bytes \o <<0>> /\ SerializeRoutingValue(bytes) = <<a, b>> \o bytes \o <<0>>
  BY <1>3, Zenon DEF Component, SerializeRoutingValue
<1> HIDE DEF a, b
<1>6. <<a, b>> \o bytes \o <<0>> \in Seq(0..255)
  BY <1>4
<1> QED
  BY <1>5, <1>6

\* The key that is put together of the bound values is the partition's.
LEMMA KeyIs ==
    ASSUME NEW values \in Seq(Values), NEW indexes \in Seq(Nat), indexes # <<>>,
           \A i \in DOMAIN indexes :
              /\ indexes[i] < Len(values) /\ values[indexes[i] + 1].set
              /\ Len(values[indexes[i] + 1].bytes) < KeyLimit
    PROVE  LET key == PartitionKey([i \in DOMAIN indexes |-> values[indexes[i] + 1].bytes])
           IN  key \in Seq(0..255) /\ SerializeRoutingKeyWithIndexes(values, indexes) = key
<1> DEFINE columns == [i \in DOMAIN indexes |-> values[indexes[i] + 1].bytes]
           keys == [i \in DOMAIN indexes |-> values[indexes[i] + 1]]
           key == PartitionKey(columns)
           n == Len(indexes)
<1>1. n \in Nat \ {0} /\ DOMAIN indexes = 1..n /\ \A i \in 1..n : indexes[i] \in Nat
  OBVIOUS
<1>2. ASSUME NEW i \in 1..n
      PROVE  /\ indexes[i] < Len(values) /\ values[indexes[i] + 1].set
             /\ values[indexes[i] + 1].bytes \in Seq(0..255) /\ Len(values[indexes[i] + 1].bytes) < KeyLimit
  <2>0. indexes[i] \in Nat /\ indexes[i] < Len(values) /\ Len(values) \in Nat
    <3>1. indexes[i] < Len(values)
      BY <1>1, Zenon
    <3>2. indexes[i] \in Nat /\ Len(values) \in Nat
      BY <1>1
    <3> QED
      BY <3>1, <3>2, Zenon
  <2>1. indexes[i] + 1 \in 1..Len(values)
    BY <2>0
  <2>2. values[indexes[i] + 1] \in Values
    BY <2>1
  <2> QED
    BY <1>1, <2>2, Zenon DEF Values
<1>3. Len(keys) = n /\ Len(columns) = n /\ DOMAIN keys = 1..n /\ DOMAIN columns = 1..n
  BY <1>1
<1>4. SerializeRoutingKeyWithIndexes(values, indexes) =
          IF Len(keys) > 1 THEN SerializeRoutingValues(keys) ELSE IF keys[1].set THEN keys[1].bytes ELSE None
  <2>1. ~(indexes = <<>> \/ \E i \in DOMAIN indexes : indexes[i] >= Len(values))
    BY <1>1, <1>2
  <2> QED
    BY <2>1, Zenon DEF SerializeRoutingKeyWithIndexes
<1>5. CASE n = 1
  <2>1. 1 \in 1..n /\ keys[1] = values[indexes[1] + 1] /\ columns[1] = values[indexes[1] + 1].bytes
    BY <1>1, <1>5
  <2>2. key = columns[1]
    BY <1>3, <1>5, Zenon DEF PartitionKey
  <2> HIDE DEF keys, columns, key
  <2>3. ~(Len(keys) > 1)
    BY <1>3, <1>5
  <2>4. columns[1] \in Seq(0..255) /\ keys[1].set /\ keys[1].bytes = columns[1]
    BY <1>2, <2>1, Zenon
  <2>5. SerializeRoutingKeyWithIndexes(values, indexes) = columns[1]
    BY <1>4, <2>3, <2>4, Zenon
  <2>6. key \in Seq(0..255) /\ SerializeRoutingKeyWithIndexes(values, indexes) = key
    BY <2>2, <2>4, <2>5, Zenon
  <2> QED
    BY <2>6, Zenon DEF key, columns
<1>6. CASE n # 1
  <2> DEFINE parts == [i \in DOMAIN columns |-> Component(columns[i])]
             written == [i \in DOMAIN keys |->
                            IF keys[i].set THEN SerializeRoutingValue(keys[i].bytes) ELSE <<>>]
  <2>1. ASSUME NEW i \in 1..n
        PROVE  keys[i].set /\ keys[i].bytes = columns[i] /\ columns[i] \in Seq(0..255) /\ Len(columns[i]) < KeyLimit
    BY <1>1, <1>2, Zenon
  <2>2. key = Concat(parts) /\ SerializeRoutingValues(keys) = Concat(written)
    BY <1>3, <1>6, Zenon DEF PartitionKey, SerializeRoutingValues
  <2>3. Len(keys) > 1
    BY <1>1, <1>3, <1>6
  <2> HIDE DEF keys, columns, key
  <2>4. ASSUME NEW i \in 1..n
        PROVE  /\ Component(columns[i]) \in Seq(0..255)
               /\ Component(columns[i]) = IF keys[i].set THEN SerializeRoutingValue(keys[i].bytes) ELSE <<>>
    <3>1. Component(columns[i]) \in Seq(0..255) /\ Component(columns[i]) = SerializeRoutingValue(columns[i])
      BY <2>1, ComponentIs, Zenon
    <3> QED
      BY <2>1, <3>1, Zenon
  <2>5. parts = written
    BY <1>3, <2>4, Zenon
  <2>6. parts \in Seq(Seq(0..255))
    <3> DEFINE B == Seq(0..255)
    <3>1. parts \in [1..n -> B]
      BY <1>3, <2>4, Zenon
    <3>2. n \in Nat
      BY <1>1, Zenon
    <3> HIDE DEF parts, B, n
    <3>3. parts \in Seq(B)
      BY <3>1, <3>2
    <3> QED
      BY <3>3, Zenon DEF B
  <2> HIDE DEF parts, written
  <2>7. key \in Seq(0..255)
    BY <2>2, <2>6, Concatenated, Zenon
  <2>8. SerializeRoutingKeyWithIndexes(values, indexes) = key
    BY <1>4, <2>2, <2>3, <2>5, Zenon
  <2> QED
    BY <2>7, <2>8, Zenon DEF key, columns
<1> QED
  BY <1>5, <1>6, Zenon

\* Statements with a bound primary key are routed by their partitions: for
\* values of every length that a key may have and any number of columns,
\* the routing key is the one Cassandra hashes, and nothing but an explicit
\* token is used before it.
THEOREM StatementsAreRouted == Spec => []RoutedByPartition
<1>1. PlanInv => RoutedByPartition
  <2> DEFINE s == statement
             parameters == s.parameters
             prepared == s.prepared
             list == parameters.values.list
             indexes == prepared.pk_indexes
             key == PartitionKey([i \in DOMAIN indexes |-> list[indexes[i] + 1].bytes])
  <2> SUFFICES ASSUME PlanInv, plan # None, s # None, s.op = "exec",
                      parameters.values # None, ~parameters.values.named,
                      indexes # <<>>, Bound(s) = DOMAIN indexes
               PROVE  /\ TokenOf(request) = Either(parameters.token, Generate(key))
                      /\ prepared.keyspace # None => request.keyspace = prepared.keyspace
    BY Zenon DEF RoutedByPartition
  <2>1. s \in Statements \ {None} /\ request = Request(s, current_keyspace)
    BY Zenon DEF PlanInv
  <2>2. list \in Seq(Values) /\ indexes \in Seq(Nat) /\ None \notin Seq(0..255)
    BY <2>1, StatementsAssumption, Zenon
  <2>3. \A i \in DOMAIN indexes : /\ indexes[i] < Len(list) /\ list[indexes[i] + 1].set
                                  /\ Len(list[indexes[i] + 1].bytes) < KeyLimit
    BY Zenon DEF Bound
  <2> DEFINE made == SerializeRoutingKeyWithIndexes(list, indexes)
  <2>4. key \in Seq(0..255) /\ made = key
    <3> HIDE DEF list, indexes
    <3> QED
      BY <2>2, <2>3, KeyIs, Zenon DEF key
  <2> DEFINE exec == ExecWithParams(prepared, parameters)
             explicit == ExplicitKey(parameters)
             first == Either(prepared.keyspace, parameters.keyspace)
  <2>5. exec = [keyspace |-> first, token |-> parameters.token, routing_key |-> Either(made, explicit),
                consistency |-> parameters.consistency]
    BY Zenon DEF ExecWithParams
  <2>6. request = [exec EXCEPT !.keyspace = Either(@, current_keyspace)]
    BY <2>1, Zenon DEF Request
  <2> HIDE DEF key, made, exec, explicit, first, s
  <2>7. Either(made, explicit) = key /\ key # None
    BY <2>2, <2>4, Zenon DEF Either
  <2>8. /\ request.keyspace = Either(first, current_keyspace) /\ request.token = parameters.token
        /\ request.routing_key = key
    BY <2>5, <2>6, <2>7, Zenon
  <2>9. TokenOf(request) = Either(parameters.token, Generate(key))
    BY <2>7, <2>8, Zenon DEF TokenOf, Either
  <2>10. ASSUME prepared.keyspace # None PROVE request.keyspace = prepared.keyspace
    BY <2>8, <2>10, Zenon DEF Either, first
  <2> QED
    BY <2>9, <2>10, Zenon
<1> QED
  BY <1>1, PlanInvariance, PTL
-----------------------------------------------------------------------------
(***************************************************************************)
(* What a plan starts with.                                                *)
(***************************************************************************)
\* The hosts of the first m nodes stay in front when nodes that come again
\* are taken out.
LEMMA StaysInFront ==
    ASSUME nodes \in Clusters, NEW p \in Seq(N), NEW m \in 0..Len(p)
    PROVE  LET F == {p[k].host : k \in 1..m}
               u == UniqueByAddress(p)
           IN  \A i \in DOMAIN u : i <= Cardinality(F) => u[i].host \in F
<1> DEFINE F == {p[k].host : k \in 1..m}
           keep == {i \in DOMAIN p : \A j \in 1..(i - 1) : p[j].rpc # p[i].rpc}
           u == UniqueByAddress(p)
           n == Cardinality(keep)
<1>0. u = Pick(p, keep)
  BY Zenon DEF UniqueByAddress
<1>1. Len(p) \in Nat /\ DOMAIN p = 1..Len(p) /\ keep \in SUBSET DOMAIN p /\ m \in Nat
  OBVIOUS
<1>2. ASSUME NEW k \in 1..m PROVE \E j \in keep : j <= m /\ p[j].host = p[k].host
  <2> DEFINE At == {j \in 1..m : p[j].rpc = p[k].rpc}
  <2>1. At \in SUBSET Nat /\ k \in At
    OBVIOUS
  <2>2. PICK j \in At : \A l \in At : j <= l
    BY <2>1, Least, Zenon
  <2>3. j \in 1..m /\ p[j].rpc = p[k].rpc /\ j \in DOMAIN p /\ k \in DOMAIN p
    BY <1>1
  <2>4. ASSUME NEW l \in 1..(j - 1) PROVE p[l].rpc # p[j].rpc
    <3>1. l \in 1..m /\ ~(j <= l)
      BY <2>3
    <3> QED
      BY <2>2, <2>3, <3>1, Zenon
  <2>5. p[j] \in N /\ p[k] \in N
    BY <2>3
  <2>6. PICK g \in DOMAIN nodes : p[j] = nodes[g]
    BY <2>5, Zenon DEF N
  <2>7. PICK h \in DOMAIN nodes : p[k] = nodes[h]
    BY <2>5, Zenon DEF N
  <2>8. g = h
    BY <2>3, <2>6, <2>7, ClustersAssumption DEF IsNodeMap
  <2>9. j \in keep
    BY <2>3, <2>4, Zenon
  <2>10. j <= m
    BY <2>3
  <2> QED
    BY <2>6, <2>7, <2>8, <2>9, <2>10, Zenon
<1> HIDE DEF keep, u
<1>3. n \in Nat /\ DOMAIN u = 1..n
  BY <1>0, <1>1, Picked, Zenon
<1>4. PICK o : IsOrder(o, keep) /\ \A i \in 1..n : u[i] = p[o[i]]
  BY <1>0, <1>1, Picked
<1> HIDE DEF n
<1>5. /\ \A i \in 1..n : o[i] \in keep /\ o[i] \in DOMAIN p
      /\ \A i, j \in 1..n : i < j => o[i] < o[j]
      /\ \A j \in keep : \E i \in 1..n : o[i] = j
  BY <1>1, <1>4, Zenon DEF IsOrder, n
<1>6. ASSUME NEW i \in 1..n, i <= Cardinality(F), u[i].host \notin F PROVE FALSE
  <2>1. o[i] \in Nat /\ o[i] > m
    <3>1. o[i] \in 1..Len(p) /\ u[i] = p[o[i]]
      BY <1>1, <1>4, <1>5, Zenon
    <3>2. o[i] \notin 1..m
      BY <1>6, <3>1, Zenon
    <3> QED
      BY <1>1, <3>1, <3>2
  <2> DEFINE f == [j \in 1..(i - 1) |-> u[j].host]
             G == {f[j] : j \in 1..(i - 1)}
  <2>2. F \subseteq G
    <3> SUFFICES ASSUME NEW k \in 1..m PROVE \E j \in 1..(i - 1) : u[j].host = p[k].host
      BY Zenon
    <3>1. PICK x \in keep : x <= m /\ p[x].host = p[k].host
      BY <1>2, Zenon
    <3>2. PICK j \in 1..n : o[j] = x
      BY <1>5, Zenon
    <3>3. o[j] \in Nat /\ o[j] < o[i]
      BY <1>1, <1>5, <2>1, <3>1, <3>2, SMTT(30)
    <3>4. j < i
      <4>1. ~(i < j) /\ i # j
        BY <1>5, <2>1, <3>3
      <4> QED
        BY <1>3, <4>1
    <3>5. j \in 1..(i - 1) /\ u[j] = p[o[j]]
      BY <1>3, <1>4, <3>4
    <3> QED
      BY <3>1, <3>2, <3>5, Zenon
  <2> HIDE DEF F
  <2>3. i - 1 \in Nat
    BY <1>3
  <2>4. IsFiniteSet(1..(i - 1)) /\ Cardinality(1..(i - 1)) = i - 1
    BY <2>3, FS_Interval
  <2>5. f \in Surjection(1..(i - 1), G)
    BY Zenon DEF Surjection
  <2> HIDE DEF f, G
  <2>6. IsFiniteSet(G) /\ Cardinality(G) <= i - 1
    BY <2>4, <2>5, FS_Surjection
  <2>7. Cardinality(F) <= Cardinality(G) /\ Cardinality(F) \in Nat /\ Cardinality(G) \in Nat
    BY <2>2, <2>6, FS_Subset, FS_CardinalityType, Zenon
  <2> QED
    BY <1>3, <1>6, <2>6, <2>7, SMTT(30)
<1> QED
  BY <1>3, <1>6, Zenon DEF u

\* The replicas that the walk finds and that are in use.
Found(token, rf) ==
    LET walked == NetworkTopologyReplicas(token, rf)
    IN {h \in DOMAIN nodes : Usable(h) /\ \E i \in DOMAIN walked : walked[i].host = h}

\* Sorting and shuffling the replicas leaves out none and adds none.
LEMMA SortedAreFound ==
    ASSUME nodes \in Clusters, NEW token, NEW rf, IsFactors(rf), NEW s \in SortedReplicas(token, rf)
    PROVE  s \in Seq(N) /\ {s[k].host : k \in 1..Len(s)} = Found(token, rf)
<1> DEFINE w == NetworkTopologyReplicas(token, rf)
           u == Unignored(w)
<1>1. w \in Seq(N)
  BY ReplicasAreNodes, Zenon
<1>2. PICK a \in Shuffles(Local(u)), b \in Shuffles(NotLocal(u)) : s = a \o b
  BY DEF SortedReplicas
<1>w. Found(token, rf) = {h \in DOMAIN nodes : Usable(h) /\ \E i \in DOMAIN w : w[i].host = h}
  BY Zenon DEF Found
<1> HIDE DEF w
<1>3. /\ u \in Seq(N) /\ Names(u, w) /\ InUse(u)
      /\ \A j \in DOMAIN w : ~IsIgnored(w[j]) => \E i \in DOMAIN u : u[i] = w[j]
  BY <1>1, Filtered, Zenon
<1> HIDE DEF u
<1>4. /\ Local(u) \in Seq(N) /\ Names(Local(u), u)
      /\ \A j \in DOMAIN u : IsLocal(u[j]) => \E i \in DOMAIN Local(u) : Local(u)[i] = u[j]
      /\ NotLocal(u) \in Seq(N) /\ Names(NotLocal(u), u)
      /\ \A j \in DOMAIN u : ~IsLocal(u[j]) => \E i \in DOMAIN NotLocal(u) : NotLocal(u)[i] = u[j]
  BY <1>3, Filtered, Zenon
<1>5. a \in Seq(N) /\ Names(a, Local(u)) /\ Names(Local(u), a)
  BY <1>4, Shuffled, Zenon DEF Rearranges
<1>6. b \in Seq(N) /\ Names(b, NotLocal(u)) /\ Names(NotLocal(u), b)
  BY <1>4, Shuffled, Zenon DEF Rearranges
<1>7. /\ s \in Seq(N) /\ DOMAIN s = 1..Len(s)
      /\ \A i \in DOMAIN s : (\E j \in DOMAIN a : s[i] = a[j]) \/ (\E j \in DOMAIN b : s[i] = b[j])
      /\ \A j \in DOMAIN a : \E i \in DOMAIN s : s[i] = a[j]
      /\ \A j \in DOMAIN b : \E i \in DOMAIN s : s[i] = b[j]
  <2>1. Joins(s, a, b, N) /\ Len(a) \in Nat /\ Len(b) \in Nat /\ DOMAIN a = 1..Len(a) /\ DOMAIN b = 1..Len(b)
    BY <1>2, <1>5, <1>6, OneAfterTheOther, SMTT(30)
  <2>2. s \in Seq(N) /\ DOMAIN s = 1..(Len(a) + Len(b)) /\ DOMAIN s = 1..Len(s)
    BY <2>1 DEF Joins
  <2>3. ASSUME NEW i \in DOMAIN s PROVE (\E j \in DOMAIN a : s[i] = a[j]) \/ (\E j \in DOMAIN b : s[i] = b[j])
    <3>1. CASE i <= Len(a)
      BY <2>1, <2>2, <3>1 DEF Joins
    <3>2. CASE ~(i <= Len(a))
      <4>1. i - Len(a) \in 1..Len(b) /\ Len(a) + (i - Len(a)) = i
        BY <2>1, <2>2, <3>2
      <4>2. s[Len(a) + (i - Len(a))] = b[i - Len(a)]
        BY <2>1, <4>1, Zenon DEF Joins
      <4> QED
        BY <2>1, <4>1, <4>2, Zenon
    <3> QED
      BY <3>1, <3>2, Zenon
  <2>4. \A j \in DOMAIN a : j \in DOMAIN s /\ s[j] = a[j]
    BY <2>1, <2>2 DEF Joins
  <2>5. \A j \in DOMAIN b : Len(a) + j \in DOMAIN s /\ s[Len(a) + j] = b[j]
    BY <2>1, <2>2 DEF Joins
  <2> QED
    BY <2>2, <2>3, <2>4, <2>5, ZenonT(30)
<1>8. ASSUME NEW i \in DOMAIN s PROVE s[i].host \in Found(token, rf)
  <2>0. \E k \in DOMAIN u : s[i] = u[k]
    <3>1. CASE \E j \in DOMAIN a : s[i] = a[j]
      <4>1. PICK j \in DOMAIN a : s[i] = a[j]
        BY <3>1, Zenon
      <4>2. PICK x \in DOMAIN Local(u) : a[j] = Local(u)[x]
        BY <1>5, Zenon DEF Names
      <4>3. PICK k \in DOMAIN u : Local(u)[x] = u[k]
        BY <1>4, Zenon DEF Names
      <4> QED
        BY <4>1, <4>2, <4>3, Zenon
    <3>2. CASE \E j \in DOMAIN b : s[i] = b[j]
      <4>1. PICK j \in DOMAIN b : s[i] = b[j]
        BY <3>2, Zenon
      <4>2. PICK x \in DOMAIN NotLocal(u) : b[j] = NotLocal(u)[x]
        BY <1>6, Zenon DEF Names
      <4>3. PICK k \in DOMAIN u : NotLocal(u)[x] = u[k]
        BY <1>4, Zenon DEF Names
      <4> QED
        BY <4>1, <4>2, <4>3, Zenon
    <3> QED
      BY <1>7, <3>1, <3>2, Zenon
  <2>1. PICK k \in DOMAIN u : s[i] = u[k]
    BY <2>0, Zenon
  <2>2. PICK j \in DOMAIN w : u[k] = w[j]
    BY <1>3, Zenon DEF Names
  <2>3. ~IsIgnored(w[j]) /\ w[j] \in N
    BY <1>1, <1>3, <2>2 DEF InUse
  <2>4. w[j].host \in DOMAIN nodes /\ nodes[w[j].host] = w[j]
    BY <2>3, NodeIs, Zenon
  <2>5. Usable(w[j].host)
    BY <2>3, <2>4, Zenon DEF Usable
  <2> QED
    BY <1>w, <2>1, <2>2, <2>4, <2>5, Zenon
<1>9. ASSUME NEW h \in Found(token, rf) PROVE \E i \in DOMAIN s : s[i].host = h
  <2>1. PICK j \in DOMAIN w : w[j].host = h
    BY <1>w, Zenon
  <2>2. ~IsIgnored(w[j])
    <3>1. w[j] \in N
      BY <1>1
    <3>2. nodes[h] = w[j]
      BY <2>1, <3>1, NodeIs, Zenon
    <3> QED
      BY <1>w, <3>2, Zenon DEF Usable
  <2>3. PICK k \in DOMAIN u : u[k] = w[j]
    BY <1>3, <2>2, Zenon
  <2>4. CASE IsLocal(u[k])
    <3>1. PICK x \in DOMAIN Local(u) : Local(u)[x] = u[k]
      BY <1>4, <2>4, Zenon
    <3>2. PICK y \in DOMAIN a : Local(u)[x] = a[y]
      BY <1>5, Zenon DEF Names
    <3> QED
      BY <1>7, <2>1, <2>3, <3>1, <3>2, SMTT(30)
  <2>5. CASE ~IsLocal(u[k])
    <3>1. PICK x \in DOMAIN NotLocal(u) : NotLocal(u)[x] = u[k]
      BY <1>4, <2>5, Zenon
    <3>2. PICK y \in DOMAIN b : NotLocal(u)[x] = b[y]
      BY <1>6, Zenon DEF Names
    <3> QED
      BY <1>7, <2>1, <2>3, <3>1, <3>2, SMTT(30)
  <2> QED
    BY <2>4, <2>5, Zenon
<1> QED
  BY <1>7, <1>8, <1>9, Zenon

\* The first nodes of a plan are replicas, as many as there are, but for the
\* plan that stays local.
Leads(p, token, rf) == \A i \in DOMAIN p : i <= Cardinality(Found(token, rf)) => p[i].host \in Found(token, rf)

\* What the plan starts with, in each of the ways to make it.
LEMMA PlansLead ==
    ASSUME nodes \in Clusters, prev_idx \in Nat, strategy \in Strategies,
           NEW token, NEW rf, IsFactors(rf), NEW consistency,
           NEW p \in NetworkTopologyPlans(token, rf, consistency),
           ~(/\ strategy.max_nodes_per_remote_dc # None
             /\ ~strategy.allow_dc_failover_for_local_cl /\ IsDcLocal(consistency))
    PROVE  Leads(p, token, rf)
<1> DEFINE l == RoundRobinUnignoredLocalNodes
           replicas == {s \o l : s \in SortedReplicas(token, rf)}
           max == strategy.max_nodes_per_remote_dc
           local == consistency # None /\ ~strategy.allow_dc_failover_for_local_cl /\ IsDcLocal(consistency)
<1>1. l \in Seq(N)
  BY Parts, Zenon DEF IsPart
<1>2. NetworkTopologyPlans(token, rf, consistency) =
          IF max = None THEN {UniqueByAddress(q) : q \in replicas}
          ELSE IF local THEN replicas
          ELSE {UniqueByAddress(q \o r) : q \in replicas, r \in Shuffles(UnignoredRemoteNodesCapped(max))}
  BY DEF NetworkTopologyPlans
<1> HIDE DEF l
<1>3. ASSUME NEW s \in SortedReplicas(token, rf), NEW r \in Seq(N), p = UniqueByAddress(s \o r) PROVE Leads(p, token, rf)
  <2>1. s \in Seq(N) /\ {s[k].host : k \in 1..Len(s)} = Found(token, rf)
    BY SortedAreFound, Zenon
  <2> DEFINE q == s \o r
             m == Len(s)
             F == {q[k].host : k \in 1..m}
  <2>2. q \in Seq(N) /\ m \in 0..Len(q) /\ \A k \in 1..m : q[k] = s[k]
    BY <2>1
  <2>3. F = {s[k].host : k \in 1..Len(s)}
    <3> HIDE DEF q
    <3> QED
      BY <2>2, Zenon
  <2> HIDE DEF q, m
  <2>4. \A i \in DOMAIN UniqueByAddress(q) : i <= Cardinality(F) => UniqueByAddress(q)[i].host \in F
    BY <2>2, StaysInFront, Zenon
  <2> HIDE DEF F
  <2> QED
    BY <1>3, <2>1, <2>3, <2>4, Zenon DEF Leads, q
<1>4. CASE max = None
  <2>1. PICK q \in replicas : p = UniqueByAddress(q)
    BY <1>2, <1>4
  <2>2. PICK s \in SortedReplicas(token, rf) : q = s \o l
    BY <2>1, Zenon
  <2> QED
    BY <1>1, <1>3, <2>1, <2>2, ZenonT(30)
<1>5. CASE max # None
  <2>1. PICK q \in replicas, r \in Shuffles(UnignoredRemoteNodesCapped(max)) : p = UniqueByAddress(q \o r)
    <3> HIDE DEF replicas
    <3> QED
      BY <1>2, <1>5
  <2>2. PICK s \in SortedReplicas(token, rf) : q = s \o l
    BY <2>1, Zenon
  <2>3. UnignoredRemoteNodesCapped(max) \in Seq(N)
    BY <1>5, StrategiesAssumption, Parts, Zenon DEF IsPart
  <2>4. r \in Seq(N)
    BY <2>3, Shuffled, Zenon
  <2>5. s \in Seq(N)
    BY SortedAreFound, Zenon
  <2>6. l \o r \in Seq(N) /\ (s \o l) \o r = s \o (l \o r)
    BY <1>1, <2>4, <2>5
  <2>7. p = UniqueByAddress(s \o (l \o r))
    BY <2>1, <2>2, <2>6, Zenon
  <2> QED
    BY <1>3, <2>6, <2>7, Zenon
<1> QED
  BY <1>4, <1>5, Zenon

\* Once there is a plan for a keyspace with NetworkTopologyStrategy.
LeadInv ==
    strategy.kind = "TopologyAware" /\ plan # None /\ nodes # NoNodes =>
        (Routing(request).kind = "NetworkTopology" /\ ~StaysLocal =>
            Leads(plan, TokenOf(request), Routing(request).rf))

\* The replicas depend on the nodes, the token and the factors only.
LEMMA SameReplicas ==
    ASSUME NEW token, NEW rf, nodes' = nodes
    PROVE  Found(token, rf)' = Found(token, rf)
<1>1. Ring' = Ring
  BY Zenon DEF Ring
<1>2. SameRackReplicas(rf)' = SameRackReplicas(rf)
  BY Zenon DEF SameRackReplicas
<1>3. FromToken(token)' = FromToken(token)
  BY <1>1, Zenon DEF FromToken
<1>4. NodesForToken(token)' = NodesForToken(token)
  BY <1>1, <1>3, Zenon DEF NodesForToken, NodesForTokenCapped
<1>5. NetworkTopologyReplicas(token, rf)' = NetworkTopologyReplicas(token, rf)
  BY <1>2, <1>4, Zenon DEF NetworkTopologyReplicas, Walk
<1> QED
  BY <1>5, Zenon DEF Found, Usable

\* Every plan is made from the nodes there are, and no step changes them.
LEMMA LeadInvariance == Spec => []LeadInv
<1>1. Init => LeadInv
  BY Zenon DEF Init, LeadInv
<1>2. PlanInv /\ LeadInv /\ [Next]_vars => LeadInv'
  <2> SUFFICES ASSUME PlanInv, LeadInv, [Next]_vars PROVE LeadInv'
    BY Zenon
  <2>1. ASSUME NEW s \in Statements, QueryPlan(s) PROVE LeadInv'
    <3> DEFINE r == Request(s, current_keyspace)
               routing == Routing(r)
    <3>1. /\ request' = r /\ plan' \in Plans(r)
          /\ UNCHANGED <<nodes, strategy, keyspaces, current_keyspace>>
      BY <2>1, Zenon DEF QueryPlan
    <3>2. Routing(request)' = routing
      BY <3>1, Zenon DEF Routing
    <3>3. TokenOf(request)' = TokenOf(r)
      BY <3>1, Zenon
    <3> SUFFICES ASSUME strategy.kind = "TopologyAware", nodes # NoNodes,
                        routing.kind = "NetworkTopology", ~StaysLocal'
                 PROVE  Leads(plan, TokenOf(request), Routing(request).rf)'
      BY <3>1, <3>2, <3>3, Zenon DEF LeadInv
    <3>4. nodes \in Clusters /\ prev_idx \in Nat /\ strategy \in Strategies /\ KeyspacesOK
      BY Zenon DEF PlanInv
    <3>5. IsFactors(routing.rf)
      <4>1. routing = [kind |-> "Local"] \/ IsStrategy(routing)
        BY <3>4, Zenon DEF Routing, KeyspacesOK
      <4> QED
        BY <4>1 DEF IsStrategy
    <3>6. ~(/\ strategy.max_nodes_per_remote_dc # None
            /\ ~strategy.allow_dc_failover_for_local_cl /\ IsDcLocal(r.consistency))
      BY <3>1, <3>2, Zenon DEF StaysLocal
    <3> HIDE DEF routing
    <3>7. plan' \in NetworkTopologyPlans(TokenOf(r), routing.rf, r.consistency)
      BY <3>1, Zenon DEF Plans, TopologyAwarePlans, routing
    <3>8. Leads(plan', TokenOf(r), routing.rf)
      BY <3>4, <3>5, <3>6, <3>7, PlansLead, Zenon
    <3>9. Found(TokenOf(request), Routing(request).rf)' = Found(TokenOf(r), routing.rf)
      BY <3>1, <3>2, <3>3, SameReplicas, Zenon DEF routing
    <3> QED
      BY <3>8, <3>9, Zenon DEF Leads
  <2>2. CASE UNCHANGED vars
    <3>1. /\ nodes' = nodes /\ request' = request /\ plan' = plan /\ strategy' = strategy
          /\ Routing(request)' = Routing(request) /\ TokenOf(request)' = TokenOf(request)
          /\ StaysLocal' = StaysLocal
      BY <2>2, Zenon DEF vars, Routing, StaysLocal
    <3>2. Found(TokenOf(request), Routing(request).rf)' = Found(TokenOf(request), Routing(request).rf)
      BY <3>1, SameReplicas, Zenon
    <3> QED
      BY <3>1, <3>2, Zenon DEF LeadInv, Leads
  <2> QED
    BY <2>1, <2>2, Zenon DEF Next
<1> QED
  BY <1>1, <1>2, PlanInvariance, PTL DEF Spec

\* Plans for a keyspace with NetworkTopologyStrategy start with the replicas
\* of the token, whatever the nodes, their racks and tokens and the factors:
\* every replica that the walk takes is one that Cassandra's placement names,
\* with one token per node none of those is missed, and no other node comes
\* before one of them.
THEOREM PlansStartWithReplicas == Spec => []ReplicasComeFirst
<1>1. PlanInv /\ LeadInv => ReplicasComeFirst
  <2> DEFINE routing == Routing(request)
             token == TokenOf(request)
             walked == NetworkTopologyReplicas(token, routing.rf)
             placed == {h \in Placement(token, routing.rf) : Usable(h)}
             found == {h \in DOMAIN nodes : Usable(h) /\ \E i \in DOMAIN walked : walked[i].host = h}
  <2> SUFFICES ASSUME PlanInv, LeadInv, strategy.kind = "TopologyAware", plan # None, nodes # NoNodes,
                      routing.kind = "NetworkTopology"
               PROVE  /\ found \subseteq placed
                      /\ OneToken => found = placed
                      /\ \A i \in DOMAIN plan : i <= Cardinality(found) /\ ~StaysLocal => plan[i].host \in found
    BY Zenon DEF ReplicasComeFirst, OneToken
  <2>1. /\ nodes \in Clusters /\ statement \in Statements /\ current_keyspace \in CurrentKeyspaces
        /\ request = Request(statement, current_keyspace) /\ KeyspacesOK
    BY Zenon DEF PlanInv
  <2>2. request # None /\ token # None /\ request.keyspace \in DOMAIN keyspaces
        /\ routing = keyspaces[request.keyspace]
    BY Zenon DEF Routing
  <2>3. token \in Int
    BY <2>1, <2>2, TokenAssumption, Zenon
  <2>4. IsFactors(routing.rf) /\ IsFiniteSet(DOMAIN routing.rf)
    BY <2>1, <2>2, Zenon DEF KeyspacesOK, IsStrategy
  <2> HIDE DEF token, routing
  <2>5. /\ \A k \in DOMAIN walked : walked[k].host \in Placement(token, routing.rf)
        /\ OneToken => \A h \in Placement(token, routing.rf) : \E k \in DOMAIN walked : walked[k].host = h
    BY <2>1, <2>3, <2>4, ReplicasArePlaced, SMTT(30)
  <2>6. walked \in Seq(N)
    BY <2>1, <2>4, ReplicasAreNodes, Zenon
  <2>7. \A k \in DOMAIN walked : walked[k].host \in DOMAIN nodes
    BY <2>1, <2>6, NodeIs
  <2>8. found = Found(token, routing.rf)
    BY Zenon DEF Found
  <2>9. ~StaysLocal => Leads(plan, token, routing.rf)
    BY Zenon DEF LeadInv, token, routing
  <2> HIDE DEF walked
  <2>10. found \subseteq placed
    BY <2>5, Zenon
  <2>11. OneToken => placed \subseteq found
    BY <2>5, <2>7, Zenon
  <2> HIDE DEF found
  <2>12. \A i \in DOMAIN plan : i <= Cardinality(found) /\ ~StaysLocal => plan[i].host \in found
    BY <2>8, <2>9, Zenon DEF Leads
  <2> QED
    BY <2>10, <2>11, <2>12, Zenon
<1> QED
  BY <1>1, PlanInvariance, LeadInvariance, PTL
=============================================================================
