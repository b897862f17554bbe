-------------------------- MODULE ShardScanProofs --------------------------
(***************************************************************************)
(* Proofs about the scan of the shards and its cache, for any sessions,    *)
(* members, records and cap, however the hooks of the sessions interleave  *)
(* and wherever they are ended.                                            *)
(***************************************************************************)
EXTENDS ShardScan, FiniteSetTheorems, FunctionTheorems, WellFoundedInduction, TLAPS

(* Every nonempty set of naturals has a least element. *)
LEMMA LeastNatural ==
  ASSUME NEW S \in SUBSET Nat, S # {}
  PROVE  \E n \in S : \A k \in S : n <= k
<1>1. PICK n \in S : \A k \in S : ~(<<k, n>> \in OpToRel(<, Nat))
  BY NatLessThanWellFounded, WFMin
<1>2. \A a, b \in Nat : a < b => <<a, b>> \in OpToRel(<, Nat)
  BY DEF OpToRel
<1>3. \A k \in S : ~(k < n)
  BY <1>1, <1>2
<1>. QED
  BY <1>3

-----------------------------------------------------------------------------
(* What a cap keeps: the newest n, or everything.                          *)
LEMMA AboveShrinks ==
  ASSUME NEW S \in SUBSET Nat, IsFiniteSet(S), NEW x \in S
  PROVE  /\ IsFiniteSet({y \in S : y > x})
         /\ Cardinality({y \in S : y > x}) \in Nat
         /\ Cardinality({y \in S : y > x}) < Cardinality(S)
         /\ \A z \in S : x < z => Cardinality({y \in S : y > z}) < Cardinality({y \in S : y > x})
<1>. DEFINE above(z) == {y \in S : y > z}
<1>1. ASSUME NEW z \in S
      PROVE  /\ IsFiniteSet(above(z)) /\ Cardinality(above(z)) \in Nat
             /\ Cardinality(above(z)) < Cardinality(S)
  <2>1. above(z) \subseteq S /\ z \notin above(z)
    OBVIOUS
  <2>. HIDE DEF above
  <2>2. /\ IsFiniteSet(above(z)) /\ Cardinality(above(z)) <= Cardinality(S)
        /\ Cardinality(above(z)) # Cardinality(S)
    BY <2>1, FS_Subset
  <2>. QED
    BY <2>2, FS_CardinalityType
<1>2. ASSUME NEW z \in S, x < z PROVE Cardinality(above(z)) < Cardinality(above(x))
  <2>1. above(z) \subseteq above(x) /\ z \in above(x) /\ z \notin above(z)
    <3>1. x \in Nat /\ z \in Nat /\ \A y \in S : y \in Nat
      OBVIOUS
    <3>2. \A y \in S : y > z => y > x
      BY <1>2, <3>1
    <3>3. z > x /\ ~(z > z)
      BY <1>2, <3>1
    <3>. QED
      BY <3>2, <3>3
  <2>2. IsFiniteSet(above(x)) /\ Cardinality(above(x)) \in Nat /\ Cardinality(above(z)) \in Nat
    BY <1>1
  <2>. HIDE DEF above
  <2>3. /\ Cardinality(above(z)) <= Cardinality(above(x))
        /\ Cardinality(above(z)) # Cardinality(above(x))
    BY <2>1, <2>2, FS_Subset
  <2>. QED
    BY <2>2, <2>3
<1>. QED
  BY <1>1, <1>2

LEMMA NewestKeeps ==
  ASSUME NEW S \in SUBSET Stamps, NEW n \in Nat
  PROVE  /\ Newest(S, n) \subseteq S
         /\ IsFiniteSet(Newest(S, n)) /\ Cardinality(Newest(S, n)) \in 0..n
         /\ Newest(S, n) = S \/ Cardinality(Newest(S, n)) = n
<1>. DEFINE above(x) == Cardinality({y \in S : y > x})
            kept == Newest(S, n)
<1>1. S \in SUBSET Nat /\ IsFiniteSet(S)
  BY ScanAssumption, FS_Subset
<1>2. /\ \A x \in S : above(x) \in Nat
      /\ \A x, z \in S : x < z => above(z) < above(x)
  BY <1>1, AboveShrinks
<1>3. kept \subseteq S /\ \A x \in S : x \in kept <=> above(x) < n
  BY DEF Newest
<1>4. IsFiniteSet(kept) /\ Cardinality(kept) \in Nat
  BY <1>1, <1>3, FS_Subset, FS_CardinalityType
<1>5. Cardinality(kept) <= n
  <2>1. CASE kept = {}
    BY <2>1, FS_EmptySet
  <2>2. CASE kept # {}
    <3>1. PICK x \in kept : \A y \in kept : x <= y
      <4>1. kept \in SUBSET Nat
        BY <1>1, <1>3
      <4>. HIDE DEF kept
      <4>. QED
        BY <2>2, <4>1, LeastNatural
    <3>2. x \in S /\ above(x) < n
      BY <1>3
    <3>3. kept \subseteq {y \in S : y > x} \cup {x}
      <4>1. \A y \in kept : y \in S /\ y \in Nat /\ x \in Nat /\ x <= y
        BY <1>1, <1>3, <3>1, <3>2
      <4>2. \A y \in kept : y > x \/ y = x
        BY <4>1
      <4>. HIDE DEF kept
      <4>. QED
        BY <4>1, <4>2
    <3>4. /\ IsFiniteSet({y \in S : y > x} \cup {x})
          /\ Cardinality({y \in S : y > x} \cup {x}) = above(x) + 1
      BY <1>1, <3>2, AboveShrinks, FS_AddElement
    <3>. HIDE DEF kept
    <3>5. Cardinality(kept) <= above(x) + 1
      BY <3>3, <3>4, FS_Subset
    <3>. HIDE DEF above
    <3>. QED
      BY <1>2, <1>4, <3>2, <3>5
  <2>. QED
    BY <2>1, <2>2
<1>6. CASE kept # S
  <2>. DEFINE counts == {above(x) : x \in S \ kept}
  <2>1. counts \in SUBSET Nat /\ counts # {}
    BY <1>2, <1>3, <1>6
  <2>2. PICK c \in counts : \A d \in counts : c <= d
    <3>. HIDE DEF counts
    <3>. QED
      BY <2>1, LeastNatural
  <2>3. PICK x \in S \ kept : c = above(x)
    BY <2>2
  <2>4. {y \in S : y > x} \subseteq kept
    <3>. SUFFICES ASSUME NEW y \in S, y > x, y \notin kept PROVE FALSE
      BY DEF kept
    <3>1. above(y) < above(x) /\ above(x) <= above(y)
      BY <1>1, <1>2, <2>2, <2>3
    <3>. HIDE DEF above
    <3>. QED
      BY <1>2, <3>1
  <2>5. above(x) >= n
    BY <1>2, <1>3
  <2>6. above(x) <= Cardinality(kept)
    <3>. HIDE DEF kept
    <3>. QED
      BY <1>4, <2>4, FS_Subset
  <2>. HIDE DEF above
  <2>7. Cardinality(kept) = n
    BY <1>2, <1>4, <1>5, <2>5, <2>6
  <2>. QED
    BY <1>3, <1>4, <1>5, <2>7
<1>. QED
  BY <1>3, <1>4, <1>5, <1>6

(* A sum over shards: whatever is in none of two is in neither of their    *)
(* counts, and no more.                                                    *)
LEMMA TotalIs ==
  ASSUME NEW f
  PROVE  /\ IsFiniteSet({r \in Members \X Stamps : r[2] \in f[r[1]]})
         /\ Total(f) \in Nat
<1>1. IsFiniteSet(Members \X Stamps)
  BY ScanAssumption, FS_Product
<1>2. {r \in Members \X Stamps : r[2] \in f[r[1]]} \in SUBSET (Members \X Stamps)
  OBVIOUS
<1>. QED
  BY <1>1, <1>2, FS_Subset, FS_CardinalityType DEF Total

LEMMA TotalSplits ==
  ASSUME NEW f, NEW g, NEW h,
         \A m \in Members : \A x \in Stamps : x \in h[m] => x \in f[m] \/ x \in g[m]
  PROVE  Total(h) <= Total(f) + Total(g)
<1>. DEFINE F == {r \in Members \X Stamps : r[2] \in f[r[1]]}
            G == {r \in Members \X Stamps : r[2] \in g[r[1]]}
            H == {r \in Members \X Stamps : r[2] \in h[r[1]]}
<1>1. /\ IsFiniteSet(F) /\ Total(f) \in Nat /\ Total(f) = Cardinality(F)
      /\ IsFiniteSet(G) /\ Total(g) \in Nat /\ Total(g) = Cardinality(G)
      /\ IsFiniteSet(H) /\ Total(h) \in Nat /\ Total(h) = Cardinality(H)
  BY TotalIs DEF Total
<1>2. H \subseteq F \cup G
  OBVIOUS
<1>. HIDE DEF F, G, H
<1>3. /\ IsFiniteSet(F \cup G) /\ Cardinality(F \cap G) \in Nat
      /\ Cardinality(F \cup G) = Cardinality(F) + Cardinality(G) - Cardinality(F \cap G)
  BY <1>1, FS_Union, FS_Intersection, FS_CardinalityType
<1>4. Cardinality(H) <= Cardinality(F \cup G)
  BY <1>2, <1>3, FS_Subset
<1>. QED
  BY <1>1, <1>3, <1>4

(* Shards that are each no larger than another's hold no more in all.      *)
LEMMA SmallerInjects ==
  ASSUME NEW S, NEW T, IsFiniteSet(S), IsFiniteSet(T), Cardinality(S) <= Cardinality(T)
  PROVE  \E j \in [S -> T] : \A a, b \in S : j[a] = j[b] => a = b
<1>1. /\ Cardinality(S) \in Nat /\ ExistsBijection(1..Cardinality(S), S)
      /\ Cardinality(T) \in Nat /\ ExistsBijection(1..Cardinality(T), T)
  BY FS_CardinalityType
<1>2. ExistsBijection(S, 1..Cardinality(S))
  BY <1>1, Fun_ExistsBijSymmetric
<1>3. /\ ExistsInjection(S, 1..Cardinality(S))
      /\ ExistsInjection(1..Cardinality(T), T)
  BY <1>1, <1>2 DEF ExistsInjection, ExistsBijection, Bijection
<1>4. ExistsInjection(1..Cardinality(S), 1..Cardinality(T))
  BY <1>1, Fun_NatInjLeq
<1>5. ExistsInjection(S, 1..Cardinality(T))
  BY <1>3, <1>4, Fun_ExistsInjTransitive
<1>6. ExistsInjection(S, T)
  BY <1>3, <1>5, Fun_ExistsInjTransitive
<1>7. PICK j : j \in Injection(S, T)
  BY <1>6 DEF ExistsInjection
<1>8. j \in [S -> T] /\ \A a, b \in S : j[a] = j[b] => a = b
  BY <1>7, Fun_InjectionProperties
<1>. QED
  BY <1>8

LEMMA TotalGrows ==
  ASSUME NEW f \in Shards, NEW g \in Shards,
         \A m \in Members : Cardinality(f[m]) <= Cardinality(g[m])
  PROVE  Total(f) <= Total(g)
<1>. DEFINE F == {r \in Members \X Stamps : r[2] \in f[r[1]]}
            G == {r \in Members \X Stamps : r[2] \in g[r[1]]}
            into(m) == CHOOSE j \in [f[m] -> g[m]] : \A a, b \in f[m] : j[a] = j[b] => a = b
            h == [r \in F |-> <<r[1], into(r[1])[r[2]]>>]
<1>1. ASSUME NEW m \in Members
      PROVE  /\ into(m) \in [f[m] -> g[m]]
             /\ \A a, b \in f[m] : into(m)[a] = into(m)[b] => a = b
  <2>1. f[m] \in SUBSET Stamps /\ g[m] \in SUBSET Stamps
    BY DEF Shards
  <2>2. IsFiniteSet(f[m]) /\ IsFiniteSet(g[m])
    BY <2>1, ScanAssumption, FS_Subset
  <2>3. \E j \in [f[m] -> g[m]] : \A a, b \in f[m] : j[a] = j[b] => a = b
    BY <2>2, SmallerInjects
  <2>. QED
    BY <2>3
<1>2. \A m \in Members : g[m] \in SUBSET Stamps
  BY DEF Shards
<1>3. \A r \in F : r[1] \in Members /\ r[2] \in f[r[1]] /\ r = <<r[1], r[2]>>
  OBVIOUS
<1>. HIDE DEF into
<1>4. \A r \in F : h[r] \in G
  BY <1>1, <1>2, <1>3
<1>5. ASSUME NEW a \in F, NEW b \in F, h[a] = h[b] PROVE a = b
  BY <1>1, <1>3, <1>5
<1>6. h \in Injection(F, G)
  <2>1. h \in [F -> G]
    BY <1>4
  <2>. HIDE DEF F, G, h
  <2>. QED
    BY <1>5, <2>1, Fun_IsInj
<1>7. IsFiniteSet(G)
  BY TotalIs
<1>. HIDE DEF F, G, h
<1>8. Cardinality(F) <= Cardinality(G)
  BY <1>6, <1>7, FS_Injection
<1>. QED
  BY <1>8 DEF Total, F, G

-----------------------------------------------------------------------------
(* A scan of shards: at most the cap of each, and everything it read and   *)
(* does not have is in its counts.                                         *)
Capped(scan) ==
  /\ scan.records \in Shards /\ scan.unread \in SUBSET Members
  /\ scan.cut \in Nat /\ scan.dropped \in Nat /\ scan.excluded \in Nat
  /\ \A m \in Members : /\ IsFiniteSet(scan.records[m])
                        /\ Cardinality(scan.records[m]) \in 0..MaxRecords

Lost(read, scan) == [m \in Members |-> read[m] \ scan.records[m]]

LEMMA CutIsCounted ==
  ASSUME NEW shards
  PROVE  Cardinality(Cut(shards)) \in Nat
<1>1. IsFiniteSet(Cut(shards))
  BY ScanAssumption, FS_Subset DEF Cut, Files
<1>. QED
  BY <1>1, FS_CardinalityType

ScanIsCounted(shards, gone, counted, clean) ==
  LET scan == Scan(shards, gone, counted, clean)
  IN  /\ Capped(scan)
      /\ scan.unread = IF counted THEN gone ELSE {}
      /\ scan.cut = Cardinality(Cut(shards))
      /\ Total(Lost(Read(shards, gone), scan)) <= scan.dropped + scan.excluded

LEMMA ScanCounts ==
  ASSUME NEW shards \in Shards, NEW gone \in SUBSET Members,
         NEW counted \in BOOLEAN, NEW clean \in BOOLEAN
  PROVE  ScanIsCounted(shards, gone, counted, clean)
<1>. DEFINE scan == Scan(shards, gone, counted, clean)
            read == Read(shards, gone)
            kept == [m \in Members |-> Newest(read[m], MaxRecords)]
            out == [m \in Members |-> m = Self /\ ~clean]
            over == [m \in Members |-> read[m] \ kept[m]]
            other == [m \in Members |-> IF out[m] THEN kept[m] ELSE {}]
<1>1. /\ scan.records = [m \in Members |-> IF out[m] THEN {} ELSE kept[m]]
      /\ scan.unread = IF counted THEN gone ELSE {}
      /\ scan.cut = Cardinality(Cut(shards))
      /\ scan.dropped = Total(over) /\ scan.excluded = Total(other)
  BY DEF Scan
<1>2. ASSUME NEW m \in Members
      PROVE  /\ read[m] \in SUBSET Stamps /\ kept[m] \in SUBSET Stamps
             /\ IsFiniteSet(kept[m]) /\ Cardinality(kept[m]) \in 0..MaxRecords
  <2>1. read[m] \in SUBSET Stamps
    BY DEF Shards, Read
  <2>2. kept[m] = Newest(read[m], MaxRecords)
    OBVIOUS
  <2>. HIDE DEF read, kept
  <2>. QED
    BY <2>1, <2>2, NewestKeeps, ScanAssumption
<1>. HIDE DEF read
<1>3. Capped(scan)
  <2>1. scan.dropped \in Nat /\ scan.excluded \in Nat /\ scan.cut \in Nat
    BY <1>1, TotalIs, CutIsCounted
  <2>2. ASSUME NEW m \in Members
        PROVE  /\ scan.records[m] \in SUBSET Stamps /\ IsFiniteSet(scan.records[m])
               /\ Cardinality(scan.records[m]) \in 0..MaxRecords
    <3>1. scan.records[m] \in {{}, kept[m]}
      BY <1>1
    <3>2. MaxRecords \in Nat
      BY ScanAssumption
    <3>. HIDE DEF kept, scan
    <3>3. CASE scan.records[m] = {}
      BY <3>2, <3>3, FS_EmptySet
    <3>4. CASE scan.records[m] = kept[m]
      BY <1>2, <3>4
    <3>. QED
      BY <3>1, <3>3, <3>4
  <2>3. scan.records \in Shards
    <3>1. scan.records = [m \in Members |-> scan.records[m]]
      BY <1>1
    <3>. HIDE DEF scan
    <3>. QED
      BY <2>2, <3>1 DEF Shards
  <2>4. scan.unread \in SUBSET Members
    BY <1>1
  <2>. HIDE DEF scan
  <2>. QED
    BY <2>1, <2>2, <2>3, <2>4 DEF Capped
<1>4. Total(Lost(read, scan)) <= Total(over) + Total(other)
  <2>1. \A m \in Members : \A x \in Stamps :
          x \in Lost(read, scan)[m] => x \in over[m] \/ x \in other[m]
    BY <1>1 DEF Lost
  <2>. HIDE DEF over, other, scan
  <2>. QED
    BY <2>1, TotalSplits
<1>. QED
  BY <1>1, <1>3, <1>4 DEF read, ScanIsCounted

(* The union with the ref's scan is bounded by the same cap, is for no     *)
(* member shorter than the working tree's, and counts what it drops.       *)
MergeIsCounted(tree, over) ==
  LET both == Merged(tree, over)
  IN  /\ Capped(both) /\ both.unread = over.unread
      /\ tree.cut <= both.cut /\ over.cut <= both.cut
      /\ \A m \in Members :
           /\ Cardinality(tree.records[m]) <= Cardinality(both.records[m])
           /\ over.records[m] \subseteq both.records[m]
      /\ both.dropped + both.excluded
           = tree.dropped + tree.excluded + over.dropped + over.excluded
             + Total([m \in Members |-> tree.records[m] \ both.records[m]])

LEMMA MergeCounts ==
  ASSUME NEW tree, NEW over, Capped(tree), Capped(over)
  PROVE  MergeIsCounted(tree, over)
<1>. DEFINE both == Merged(tree, over)
            fresh == Fresh(tree, over)
            added == [m \in Members |-> Newest(fresh[m], Room(over, m))]
            cutoff == [m \in Members |-> fresh[m] \ added[m]]
<1>1. /\ both.records = [m \in Members |-> over.records[m] \cup added[m]]
      /\ both.unread = over.unread
      /\ both.cut = IF tree.cut > over.cut THEN tree.cut ELSE over.cut
      /\ both.dropped = tree.dropped + over.dropped + Total(cutoff)
      /\ both.excluded = tree.excluded + over.excluded
  BY DEF Merged
<1>2. /\ tree.dropped \in Nat /\ tree.excluded \in Nat
      /\ over.dropped \in Nat /\ over.excluded \in Nat /\ Total(cutoff) \in Nat
      /\ over.unread \in SUBSET Members /\ MaxRecords \in Nat
      /\ tree.cut \in Nat /\ over.cut \in Nat
  BY TotalIs, ScanAssumption DEF Capped
<1>3. ASSUME NEW m \in Members
      PROVE  /\ both.records[m] \in SUBSET Stamps /\ IsFiniteSet(both.records[m])
             /\ Cardinality(both.records[m]) \in 0..MaxRecords
             /\ Cardinality(tree.records[m]) <= Cardinality(both.records[m])
             /\ over.records[m] \subseteq both.records[m]
             /\ cutoff[m] = tree.records[m] \ both.records[m]
  <2>. DEFINE t == tree.records[m]
              o == over.records[m]
              a == added[m]
  <2>1. /\ t \in SUBSET Stamps /\ IsFiniteSet(t) /\ Cardinality(t) \in 0..MaxRecords
        /\ o \in SUBSET Stamps /\ IsFiniteSet(o) /\ Cardinality(o) \in 0..MaxRecords
    BY DEF Capped, Shards
  <2>2. fresh[m] = t \ o /\ Room(over, m) = MaxRecords - Cardinality(o)
    BY DEF Fresh, Room
  <2>3. a = Newest(t \ o, MaxRecords - Cardinality(o))
    BY <2>2
  <2>4. both.records[m] = o \cup a /\ cutoff[m] = (t \ o) \ a
    BY <1>1, <2>2
  <2>. HIDE DEF t, o, a, both, cutoff, added
  <2>5. MaxRecords - Cardinality(o) \in Nat
    BY <1>2, <2>1
  <2>6. /\ a \subseteq t \ o /\ IsFiniteSet(a) /\ Cardinality(a) \in 0..(MaxRecords - Cardinality(o))
        /\ a = t \ o \/ Cardinality(a) = MaxRecords - Cardinality(o)
    BY <2>1, <2>3, <2>5, NewestKeeps
  <2>7. IsFiniteSet(o \cup a) /\ Cardinality(o \cup a) = Cardinality(o) + Cardinality(a)
    <3>1. o \cap a = {}
      BY <2>6
    <3>2. IsFiniteSet(o) /\ IsFiniteSet(a) /\ Cardinality(o) \in Nat /\ Cardinality(a) \in Nat
      BY <2>1, <2>6, FS_CardinalityType
    <3>3. /\ IsFiniteSet(o \cup a)
          /\ Cardinality(o \cup a) = Cardinality(o) + Cardinality(a) - Cardinality(o \cap a)
      BY <3>2, FS_Union
    <3>4. Cardinality(o \cap a) = 0
      BY <3>1, FS_EmptySet
    <3>. QED
      BY <3>2, <3>3, <3>4
  <2>8. Cardinality(o \cup a) \in 0..MaxRecords
    BY <1>2, <2>1, <2>6, <2>7
  <2>9. Cardinality(t) <= Cardinality(o \cup a)
    <3>1. CASE a = t \ o
      <4>1. t \subseteq o \cup a
        BY <3>1
      <4>. QED
        BY <2>7, <4>1, FS_Subset
    <3>2. CASE Cardinality(a) = MaxRecords - Cardinality(o)
      BY <1>2, <2>1, <2>7, <3>2
    <3>. QED
      BY <2>6, <3>1, <3>2
  <2>10. o \cup a \in SUBSET Stamps /\ (t \ o) \ a = t \ (o \cup a)
    BY <2>1, <2>6
  <2>. QED
    BY <2>4, <2>7, <2>8, <2>9, <2>10 DEF t, o
<1>4. Capped(both)
  <2>1. both.records \in Shards
    <3>1. both.records = [m \in Members |-> both.records[m]]
      BY <1>1
    <3>. HIDE DEF both
    <3>. QED
      BY <1>3, <3>1 DEF Shards
  <2>2. both.dropped \in Nat /\ both.excluded \in Nat /\ both.cut \in Nat
    BY <1>1, <1>2
  <2>. HIDE DEF both
  <2>. QED
    BY <1>1, <1>2, <1>3, <2>1, <2>2 DEF Capped
<1>5. cutoff = [m \in Members |-> tree.records[m] \ both.records[m]]
  <2>1. cutoff = [m \in Members |-> cutoff[m]]
    OBVIOUS
  <2>. HIDE DEF cutoff, both
  <2>. QED
    BY <1>3, <2>1
<1>. HIDE DEF both, cutoff
<1>6. both.dropped + both.excluded
        = tree.dropped + tree.excluded + over.dropped + over.excluded + Total(cutoff)
  BY <1>1, <1>2
<1>7. tree.cut <= both.cut /\ over.cut <= both.cut
  BY <1>1, <1>2
<1>. QED
  BY <1>1, <1>3, <1>4, <1>5, <1>6, <1>7 DEF both, MergeIsCounted

-----------------------------------------------------------------------------
(* Every file and every hook keeps its shape.                              *)
LEMMA ShapeInit == Init => TypeOK
  BY DEF Init, TypeOK, NoCache, Caches, Shards, NoShards, NoLook, Looks

LEMMA OnRefShards == TypeOK => \A which : OnRef(which) \in Shards
  BY DEF TypeOK, OnRef, Behind, Shards

(* A scan that is cached is one of the working tree, alone or with a ref.  *)
LEMMA TreeCounts ==
  ASSUME TypeOK, NEW as \in Looks
  PROVE  LET tree == ScanOfTree(as)
         IN  /\ Capped(tree) /\ tree.cut = Cardinality(Cut(Tree(as)))
             /\ Total(Lost(Read(Tree(as), as.gone), tree)) <= tree.dropped + tree.excluded
<1>. DEFINE own == "tree" \notin foreign
            counted == FALSE
            scan == Scan(Tree(as), as.gone, counted, own)
<1>1. /\ Tree(as) \in Shards /\ as.gone \in SUBSET Members
      /\ own \in BOOLEAN /\ counted \in BOOLEAN /\ ScanOfTree(as) = scan
  BY DEF TypeOK, Tree, NoShards, Shards, Looks, ScanOfTree
<1>. HIDE DEF own, counted
<1>2. /\ Capped(scan) /\ scan.cut = Cardinality(Cut(Tree(as)))
      /\ Total(Lost(Read(Tree(as), as.gone), scan)) <= scan.dropped + scan.excluded
  <2>1. ScanIsCounted(Tree(as), as.gone, counted, own)
    BY <1>1, ScanCounts
  <2>. QED
    BY <2>1 DEF ScanIsCounted
<1>. HIDE DEF scan
<1>. QED
  BY <1>1, <1>2

WithRef(as, which, unread) == Merged(ScanOfTree(as), RefScan(which, unread))

LEMMA RefCounts ==
  ASSUME TypeOK, NEW as \in Looks,
         NEW which \in {"old", "new"}, NEW unread \in SUBSET Members
  PROVE  LET both == WithRef(as, which, unread)
             onDisk == Read(Tree(as), as.gone)
             onRef == Read(OnRef(which), unread)
         IN  /\ Capped(both) /\ both.unread = unread
             /\ Cardinality(Cut(Tree(as))) <= both.cut
             /\ Cardinality(Cut(OnRef(which))) <= both.cut
             /\ \A m \in Members :
                  Cardinality(ScanOfTree(as).records[m]) <= Cardinality(both.records[m])
             /\ Total([m \in Members |-> (onDisk[m] \cup onRef[m]) \ both.records[m]])
                  <= both.dropped + both.excluded
<1>. DEFINE tree == ScanOfTree(as)
            over == RefScan(which, unread)
            both == WithRef(as, which, unread)
            onDisk == Read(Tree(as), as.gone)
            onRef == Read(OnRef(which), unread)
            cutoff == [m \in Members |-> tree.records[m] \ both.records[m]]
            lostTree == Lost(onDisk, tree)
            lostRef == Lost(onRef, over)
            near == [m \in Members |-> lostRef[m] \cup cutoff[m]]
            missing == [m \in Members |-> (onDisk[m] \cup onRef[m]) \ both.records[m]]
<1>1. /\ Capped(tree) /\ tree.cut = Cardinality(Cut(Tree(as)))
      /\ Total(lostTree) <= tree.dropped + tree.excluded
  BY TreeCounts
<1>2. /\ Capped(over) /\ over.unread = unread /\ over.cut = Cardinality(Cut(OnRef(which)))
      /\ Total(lostRef) <= over.dropped + over.excluded
  <2>. DEFINE own == "ref" \notin foreign
              counted == TRUE
              scan == Scan(OnRef(which), unread, counted, own)
  <2>1. OnRef(which) \in Shards /\ own \in BOOLEAN /\ counted \in BOOLEAN /\ over = scan
    BY OnRefShards DEF RefScan
  <2>2. (IF counted THEN unread ELSE {}) = unread
    OBVIOUS
  <2>. HIDE DEF own, counted
  <2>3. /\ Capped(scan) /\ scan.unread = IF counted THEN unread ELSE {}
        /\ scan.cut = Cardinality(Cut(OnRef(which)))
        /\ Total(Lost(Read(OnRef(which), unread), scan)) <= scan.dropped + scan.excluded
    <3>1. ScanIsCounted(OnRef(which), unread, counted, own)
      BY <2>1, ScanCounts
    <3>. QED
      BY <3>1 DEF ScanIsCounted
  <2>. HIDE DEF over, scan
  <2>. QED
    BY <2>1, <2>2, <2>3
<1>. HIDE DEF tree, over
<1>3. /\ Capped(both) /\ both.unread = over.unread
      /\ tree.cut <= both.cut /\ over.cut <= both.cut
      /\ \A m \in Members : /\ Cardinality(tree.records[m]) <= Cardinality(both.records[m])
                            /\ over.records[m] \subseteq both.records[m]
      /\ both.dropped + both.excluded
           = tree.dropped + tree.excluded + over.dropped + over.excluded + Total(cutoff)
  <2>1. both = Merged(tree, over)
    BY DEF WithRef, tree, over
  <2>2. MergeIsCounted(tree, over)
    BY <1>1, <1>2, MergeCounts
  <2>. HIDE DEF both
  <2>. QED
    BY <2>1, <2>2 DEF MergeIsCounted
<1>. HIDE DEF both, onDisk, onRef
<1>4. ASSUME NEW m \in Members, NEW x \in Stamps, x \in missing[m]
      PROVE  x \in lostTree[m] \/ x \in near[m]
  <2>1. x \notin both.records[m] /\ (x \in onDisk[m] \/ x \in onRef[m])
    BY <1>4
  <2>2. CASE x \in onRef[m]
    BY <1>3, <2>1, <2>2 DEF Lost
  <2>3. CASE x \in onDisk[m]
    BY <2>1, <2>3 DEF Lost
  <2>. QED
    BY <2>1, <2>2, <2>3
<1>5. \A m \in Members : \A x \in Stamps : x \in near[m] => x \in lostRef[m] \/ x \in cutoff[m]
  OBVIOUS
<1>. HIDE DEF lostTree, lostRef, cutoff, near, missing
<1>6. Total(missing) <= Total(lostTree) + Total(near)
  BY <1>4, TotalSplits
<1>7. Total(near) <= Total(lostRef) + Total(cutoff)
  BY <1>5, TotalSplits
<1>8. /\ Total(missing) \in Nat /\ Total(lostTree) \in Nat /\ Total(near) \in Nat
      /\ Total(lostRef) \in Nat /\ Total(cutoff) \in Nat
  BY TotalIs
<1>9. /\ tree.dropped \in Nat /\ tree.excluded \in Nat
      /\ over.dropped \in Nat /\ over.excluded \in Nat
  BY <1>1, <1>2 DEF Capped
<1>10. Total(missing) <= both.dropped + both.excluded
  BY <1>1, <1>2, <1>3, <1>6, <1>7, <1>8, <1>9
<1>11. /\ Cardinality(Cut(Tree(as))) <= both.cut /\ Cardinality(Cut(OnRef(which))) <= both.cut
       /\ both.unread = unread
  BY <1>1, <1>2, <1>3
<1>. QED
  BY <1>3, <1>10, <1>11 DEF both, missing, onDisk, onRef, tree

(* What a step caches.                                                     *)
LEMMA CacheFate ==
  ASSUME TypeOK, [Next]_scanVars
  PROVE  \/ cache' = cache
         \/ \E s \in Sessions, as \in Looks :
              /\ at[s] = "new" /\ at'[s] # "new" /\ look' = [look EXCEPT ![s] = as]
              /\ cache' = Cached(s, "tree", ScanOfTree(as))
         \/ \E s \in Sessions, which \in {"old", "new"}, unread \in SUBSET Members :
              /\ at'[s] # "new" /\ look' = look
              /\ cache' = Cached(s, which, WithRef(look[s], which, unread))
         \/ \E s \in Sessions : cache' = note[s] /\ at[s] = "note"
<1>1. ASSUME NEW s \in Sessions, ScanTree(s)
      PROVE  \E as \in Looks :
               /\ at[s] = "new" /\ at'[s] # "new" /\ look' = [look EXCEPT ![s] = as]
               /\ cache' = Cached(s, "tree", ScanOfTree(as))
  BY <1>1 DEF ScanTree, TypeOK
<1>2. ASSUME NEW s \in Sessions, ScanRef(s)
      PROVE  \E which \in {"old", "new"}, unread \in SUBSET Members :
               /\ at'[s] # "new" /\ look' = look
               /\ cache' = Cached(s, which, WithRef(look[s], which, unread))
  <2>1. ref \in {"old", "new"} /\ look[s] \in Looks
    BY <1>2 DEF ScanRef, TypeOK
  <2>2. at'[s] # "new" /\ look' = look
    BY <1>2 DEF ScanRef, TypeOK
  <2>. QED
    BY <1>2, <2>1, <2>2 DEF ScanRef, WithRef, TreeScan
<1>3. ASSUME NEW s \in Sessions, Step(s), ~ScanTree(s), ~ScanRef(s)
      PROVE  cache' = cache \/ (cache' = note[s] /\ at[s] = "note")
  BY <1>3 DEF Step, Fetch, NoteRead, NoteWrite, Kill, Prompt
<1>. QED
  BY <1>1, <1>2, <1>3 DEF Next, scanVars

LEMMA CachedIsCache ==
  ASSUME NEW s \in Sessions, NEW of \in {"tree", "old", "new"}, NEW scan, Capped(scan)
  PROVE  Cached(s, of, scan) \in Caches
  BY DEF Cached, Caches, Capped

LEMMA WorldStays == [Next]_scanVars => world' = world
  BY DEF Next, Step, ScanTree, Fetch, ScanRef, NoteRead, NoteWrite, Kill, Prompt, scanVars, world

(* A session's look spots are those of its one scan of the tree.          *)
LEMMA BlindStays ==
  ASSUME TypeOK, [Next]_scanVars
  PROVE  /\ look' \in [Sessions -> Looks]
         /\ \A s \in Sessions : at[s] # "new" => look'[s] = look[s] /\ at'[s] # "new"
<1>1. ASSUME NEW s \in Sessions, ScanTree(s)
      PROVE  /\ look' \in [Sessions -> Looks]
             /\ \A t \in Sessions : at[t] # "new" => look'[t] = look[t] /\ at'[t] # "new"
  BY <1>1 DEF ScanTree, TypeOK
<1>2. ASSUME NEW s \in Sessions, Step(s), ~ScanTree(s)
      PROVE  /\ look' = look
             /\ \A t \in Sessions : at[t] # "new" => at'[t] # "new"
  BY <1>2 DEF Step, Fetch, ScanRef, NoteRead, NoteWrite, Kill, Prompt, TypeOK
<1>. QED
  BY <1>1, <1>2 DEF Next, scanVars, TypeOK

LEMMA ShapeStep == TypeOK /\ [Next]_scanVars => TypeOK'
<1>. SUFFICES ASSUME TypeOK, [Next]_scanVars PROVE TypeOK'
  OBVIOUS
<1>. USE DEF TypeOK
<1>1. cache' \in Caches
  <2>1. ASSUME NEW s \in Sessions, NEW as \in Looks
        PROVE  Cached(s, "tree", ScanOfTree(as)) \in Caches
    BY CachedIsCache, TreeCounts
  <2>2. ASSUME NEW s \in Sessions, NEW which \in {"old", "new"}, NEW unread \in SUBSET Members
        PROVE  Cached(s, which, WithRef(look[s], which, unread)) \in Caches
    BY CachedIsCache, RefCounts
  <2>. QED
    BY CacheFate, <2>1, <2>2
<1>2. disk' = disk /\ branch' = branch /\ foreign' = foreign /\ enabled' = enabled
  BY WorldStays DEF world
<1>3. ref' \in {"none", "old", "new"}
  BY DEF Next, Step, ScanTree, Fetch, ScanRef, NoteRead, NoteWrite, Kill, Prompt, scanVars
<1>4. at' \in [Sessions -> {"new", "fetch", "ref", "note", "done"}]
  BY DEF Next, Step, ScanTree, Fetch, ScanRef, NoteRead, NoteWrite, Kill, Prompt, scanVars
<1>5. note' \in [Sessions -> Caches]
  <2>1. NoCache \in Caches
    BY DEF NoCache, Caches, Shards, NoShards
  <2>2. \A s \in Sessions : Unreadable(s) \in Caches
    BY DEF Unreadable, Caches
  <2>3. ASSUME NEW s \in Sessions, NEW c \in Caches, note' = [note EXCEPT ![s] = c]
        PROVE  note' \in [Sessions -> Caches]
    BY <2>3
  <2>4. note' = note \/ \E s \in Sessions, c \in Caches : note' = [note EXCEPT ![s] = c]
    BY <2>1, <2>2 DEF Next, Step, ScanTree, Fetch, ScanRef, NoteRead, NoteWrite, Kill, Prompt, scanVars
  <2>. QED
    BY <2>3, <2>4
<1>6. shown' \in [Sessions -> [entries : Nat, more : Nat]] /\ latched' \in SUBSET Sessions
  <2>1. CASE shown' = shown /\ latched' = latched
    BY <2>1
  <2>2. ASSUME NEW s \in Sessions, Prompt(s)
        PROVE  /\ shown' \in [Sessions -> [entries : Nat, more : Nat]]
               /\ latched' \in SUBSET Sessions
    <3>. DEFINE found == Total(cache.records)
                fit == IF found > LearnedCap THEN LearnedCap ELSE found
    <3>1. found \in Nat /\ LearnedCap \in Nat
      BY TotalIs, ScanAssumption
    <3>2. fit \in Nat /\ found - fit \in Nat
      <4>. HIDE DEF found
      <4>. QED
        BY <3>1
    <3>3. shown' = [shown EXCEPT ![s] = [entries |-> fit, more |-> found - fit]]
      BY <2>2 DEF Prompt
    <3>. HIDE DEF found, fit
    <3>. QED
      BY <2>2, <3>2, <3>3 DEF Prompt
  <2>. QED
    BY <2>1, <2>2 DEF Next, Step, ScanTree, Fetch, ScanRef, NoteRead, NoteWrite, Kill, scanVars
<1>7. look' \in [Sessions -> Looks]
  BY BlindStays
<1>. QED
  BY <1>1, <1>2, <1>3, <1>4, <1>5, <1>6, <1>7

(* Every file and every hook keeps its shape (TypeOK), so that a scan is   *)
(* cached whole, with counts, whatever was read of the ref.                *)
THEOREM ScanTypes == Spec => []TypeOK
  BY ShapeInit, ShapeStep, PTL DEF Spec

-----------------------------------------------------------------------------
(* A cache has what was read of its carriers or counts it, and no member's *)
(* part of it is shorter than the working tree's scan of its session.      *)
MissingOf(c) ==
  LET as == look[c.session]
      onDisk == Read(Tree(as), as.gone)
      onRef == Read(OnRef(c.of), c.unread)
  IN  [m \in Members |-> (onDisk[m] \cup (IF c.of \in {"old", "new"} THEN onRef[m] ELSE {}))
                           \ c.records[m]]

Counts(c) ==
  /\ Total(MissingOf(c)) <= c.dropped + c.excluded
  /\ Cardinality(Cut(Tree(look[c.session]))) <= c.cut
  /\ c.of \in {"old", "new"} => Cardinality(Cut(OnRef(c.of))) <= c.cut
  /\ \A m \in Members :
       Cardinality(c.records[m]) \in Cardinality(TreeScan(c.session).records[m])..MaxRecords

Sound(c) ==
  \/ /\ c.of = "none" /\ c.session = NoSession
     /\ \A m \in Members : c.records[m] = {}
  \/ /\ c.of # "none" /\ c.session \in Sessions /\ at[c.session] # "new"
     /\ Counts(c)

CachesSound == Sound(cache) /\ \A s \in Sessions : Sound(note[s])

LEMMA TreeIsSound ==
  ASSUME TypeOK, NEW s \in Sessions
  PROVE  Counts(Cached(s, "tree", TreeScan(s)))
<1>. DEFINE tree == TreeScan(s)
            c == Cached(s, "tree", tree)
<1>1. /\ c.session = s /\ c.of = "tree" /\ c.records = tree.records
      /\ c.cut = tree.cut /\ c.dropped = tree.dropped /\ c.excluded = tree.excluded
  BY DEF Cached
<1>2. /\ Capped(tree) /\ tree.cut = Cardinality(Cut(Tree(look[s])))
      /\ Total(Lost(Read(Tree(look[s]), look[s].gone), tree)) <= tree.dropped + tree.excluded
  BY TreeCounts DEF TypeOK, TreeScan
<1>. HIDE DEF tree, c
<1>3. MissingOf(c) = Lost(Read(Tree(look[s]), look[s].gone), tree)
  BY <1>1 DEF MissingOf, Lost
<1>4. \A m \in Members :
        Cardinality(c.records[m]) \in Cardinality(tree.records[m])..MaxRecords
  BY <1>1, <1>2 DEF Capped
<1>5. Cardinality(Cut(Tree(look[s]))) <= c.cut
  BY <1>1, <1>2, CutIsCounted
<1>. QED
  BY <1>1, <1>2, <1>3, <1>4, <1>5 DEF Counts, tree, c

LEMMA RefIsSound ==
  ASSUME TypeOK, NEW s \in Sessions, NEW which \in {"old", "new"}, NEW unread \in SUBSET Members
  PROVE  Counts(Cached(s, which, WithRef(look[s], which, unread)))
<1>. DEFINE both == WithRef(look[s], which, unread)
            c == Cached(s, which, both)
            onDisk == Read(Tree(look[s]), look[s].gone)
            onRef == Read(OnRef(which), unread)
<1>1. /\ c.session = s /\ c.of = which /\ c.records = both.records /\ c.unread = both.unread
      /\ c.cut = both.cut /\ c.dropped = both.dropped /\ c.excluded = both.excluded
  BY DEF Cached
<1>2. /\ Capped(both) /\ both.unread = unread
      /\ Cardinality(Cut(Tree(look[s]))) <= both.cut
      /\ Cardinality(Cut(OnRef(which))) <= both.cut
      /\ \A m \in Members :
           Cardinality(TreeScan(s).records[m]) <= Cardinality(both.records[m])
      /\ Total([m \in Members |-> (onDisk[m] \cup onRef[m]) \ both.records[m]])
           <= both.dropped + both.excluded
  BY RefCounts DEF TypeOK, TreeScan
<1>. HIDE DEF both, c
<1>3. MissingOf(c) = [m \in Members |-> (onDisk[m] \cup onRef[m]) \ both.records[m]]
  BY <1>1, <1>2 DEF MissingOf
<1>4. \A m \in Members :
        Cardinality(c.records[m]) \in Cardinality(TreeScan(s).records[m])..MaxRecords
  <2>1. Capped(TreeScan(s))
    BY TreeCounts DEF TypeOK, TreeScan
  <2>. QED
    BY <1>1, <1>2, <2>1 DEF Capped
<1>. QED
  BY <1>1, <1>2, <1>3, <1>4 DEF Counts, c, both

LEMMA SoundInit == Init => CachesSound
  BY DEF Init, CachesSound, Sound, NoCache, NoShards

(* What was sound stays so: the carriers do not change, and the session of *)
(* a cache has its scan behind it.                                         *)
LEMMA SoundStays ==
  ASSUME TypeOK, [Next]_scanVars, NEW c, Sound(c)
  PROVE  Sound(c)'
<1>1. CASE c.of = "none" /\ c.session = NoSession /\ \A m \in Members : c.records[m] = {}
  BY <1>1 DEF Sound
<1>2. CASE c.of # "none" /\ c.session \in Sessions /\ at[c.session] # "new" /\ Counts(c)
  <2>1. look'[c.session] = look[c.session] /\ at'[c.session] # "new"
    BY <1>2, BlindStays
  <2>2. disk' = disk /\ branch' = branch /\ foreign' = foreign
    BY WorldStays DEF world
  <2>3. MissingOf(c)' = MissingOf(c) /\ TreeScan(c.session)' = TreeScan(c.session)
    BY <2>1, <2>2 DEF MissingOf, Read, Tree, Cut, Files, OnRef, Behind, TreeScan, ScanOfTree, Scan
  <2>4. /\ Cut(Tree(look[c.session]))' = Cut(Tree(look[c.session]))
        /\ Cut(OnRef(c.of))' = Cut(OnRef(c.of))
    BY <2>1, <2>2 DEF Cut, Files, Tree, OnRef, Behind
  <2>5. Counts(c)'
    BY <1>2, <2>3, <2>4 DEF Counts
  <2>. QED
    BY <1>2, <2>1, <2>5 DEF Sound
<1>. QED
  BY <1>1, <1>2 DEF Sound

LEMMA SoundStep == TypeOK /\ CachesSound /\ [Next]_scanVars => CachesSound'
<1>. SUFFICES ASSUME TypeOK, CachesSound, [Next]_scanVars PROVE CachesSound'
  OBVIOUS
<1>. TypeOK'
  BY ShapeStep
<1>1. Sound(cache)'
  <2>1. ASSUME NEW s \in Sessions, NEW as \in Looks,
               at'[s] # "new", look' = [look EXCEPT ![s] = as],
               cache' = Cached(s, "tree", ScanOfTree(as))
        PROVE  Sound(cache)'
    <3>1. look'[s] = as
      BY <2>1 DEF TypeOK
    <3>2. disk' = disk /\ foreign' = foreign
      BY WorldStays DEF world
    <3>3. TreeScan(s)' = ScanOfTree(as)
      BY <3>1, <3>2 DEF TreeScan, ScanOfTree, Tree
    <3>4. Counts(Cached(s, "tree", TreeScan(s)))'
      BY TreeIsSound, PTL
    <3>5. Counts(cache)'
      BY <2>1, <3>3, <3>4
    <3>6. cache'.of = "tree" /\ cache'.session = s
      BY <2>1 DEF Cached
    <3>. QED
      BY <2>1, <3>5, <3>6 DEF Sound
  <2>2. ASSUME NEW s \in Sessions, NEW which \in {"old", "new"}, NEW unread \in SUBSET Members,
               at'[s] # "new", look' = look,
               cache' = Cached(s, which, WithRef(look[s], which, unread))
        PROVE  Sound(cache)'
    <3>. DEFINE c == Cached(s, which, WithRef(look[s], which, unread))
    <3>1. disk' = disk /\ branch' = branch /\ foreign' = foreign
      BY WorldStays DEF world
    <3>2. Counts(c)
      BY RefIsSound
    <3>3. c.of = which /\ c.session = s
      BY DEF Cached
    <3>. HIDE DEF c
    <3>4. cache' = c
      BY <2>2 DEF c
    <3>5. /\ MissingOf(cache)' = MissingOf(c) /\ TreeScan(s)' = TreeScan(s)
          /\ Cut(Tree(look[s]))' = Cut(Tree(look[s]))
          /\ Cut(OnRef(which))' = Cut(OnRef(which))
      BY <2>2, <3>1, <3>4
         DEF MissingOf, Read, Tree, Cut, Files, OnRef, Behind, TreeScan, ScanOfTree, Scan
    <3>6. Counts(cache)'
      BY <3>2, <3>3, <3>4, <3>5 DEF Counts
    <3>. QED
      BY <2>2, <3>3, <3>4, <3>6 DEF Sound
  <2>3. ASSUME NEW c, Sound(c), cache' = c PROVE Sound(cache)'
    BY <2>3, SoundStays
  <2>. QED
    BY CacheFate, <2>1, <2>2, <2>3 DEF CachesSound
<1>2. ASSUME NEW s \in Sessions PROVE Sound(note[s])'
  <2>1. Sound(NoCache)
    BY DEF Sound, NoCache, NoShards
  <2>2. Sound(Unreadable(s))
    <3>1. /\ Unreadable(s).of = cache.of /\ Unreadable(s).session = cache.session
          /\ Unreadable(s).records = cache.records /\ Unreadable(s).unread = cache.unread
          /\ Unreadable(s).cut = cache.cut
          /\ Unreadable(s).dropped = cache.dropped /\ Unreadable(s).excluded = cache.excluded
      BY DEF Unreadable, TypeOK, Caches
    <3>. QED
      BY <3>1 DEF CachesSound, Sound, Counts, MissingOf
  <2>3. note'[s] = note[s] \/ note'[s] = NoCache \/ note'[s] = Unreadable(s)
    BY DEF Next, Step, ScanTree, Fetch, ScanRef, NoteRead, NoteWrite, Kill, Prompt, scanVars, TypeOK
  <2>4. ASSUME NEW c, Sound(c), note'[s] = c PROVE Sound(note[s])'
    BY <2>4, SoundStays
  <2>. QED
    BY <2>1, <2>2, <2>3, <2>4 DEF CachesSound
<1>. QED
  BY <1>1, <1>2 DEF CachesSound

LEMMA CachesHold == Spec => [](TypeOK /\ CachesSound)
  BY ShapeInit, ShapeStep, SoundInit, SoundStep, PTL DEF Spec

(* A record that a scan has read of the working tree or of the fetched ref *)
(* is in the cache or in its counts, whoever committed a shard last and    *)
(* whatever the caps of both scans and of their union drop; and the shards *)
(* beyond the limit of either listing are counted (scanShards, mergeScans).*)
THEOREM WhatIsMissingIsCounted == Spec => []NothingLostSilently
<1>1. TypeOK /\ CachesSound => NothingLostSilently
  <2>. SUFFICES ASSUME CachesSound, cache.session # NoSession PROVE Counts(cache)
    BY DEF NothingLostSilently, Counts, Missing, MissingOf, FromRef
  <2>. QED
    BY DEF CachesSound, Sound
<1>. QED
  BY <1>1, CachesHold, PTL

(* What a prompt shows is from a cache that a scan of its session filled.  *)
Shorter(s) ==
  LET own == Total(TreeScan(s).records)
  IN  /\ shown[s].entries + shown[s].more >= own
      /\ shown[s].entries >= IF own > LearnedCap THEN LearnedCap ELSE own

LatchedLate == \A s \in latched : at[s] # "new"

LEMMA CacheIsLonger ==
  ASSUME TypeOK, CachesSound, cache.session \in Sessions, cache.of # "none"
  PROVE  Total(TreeScan(cache.session).records) <= Total(cache.records)
<1>. DEFINE tree == TreeScan(cache.session)
<1>1. Capped(tree)
  BY TreeCounts DEF TypeOK, TreeScan
<1>2. \A m \in Members : Cardinality(cache.records[m]) \in Cardinality(tree.records[m])..MaxRecords
  BY DEF CachesSound, Sound, Counts
<1>. HIDE DEF tree
<1>3. tree.records \in Shards /\ cache.records \in Shards
  BY <1>1 DEF Capped, TypeOK, Caches
<1>4. \A m \in Members : Cardinality(tree.records[m]) <= Cardinality(cache.records[m])
  BY <1>1, <1>2, ScanAssumption DEF Capped
<1>. QED
  BY <1>3, <1>4, TotalGrows DEF tree

LEMMA ShownStep ==
  TypeOK /\ CachesSound /\ LatchedLate /\ NeverShorter /\ [Next]_scanVars
    => LatchedLate' /\ NeverShorter'
<1>. SUFFICES ASSUME TypeOK, CachesSound, LatchedLate, NeverShorter, [Next]_scanVars,
                     NEW s \in latched'
              PROVE  at'[s] # "new" /\ Shorter(s)'
  BY DEF NeverShorter, Shorter, LatchedLate
<1>0. disk' = disk /\ foreign' = foreign
  BY WorldStays DEF world
<1>1. CASE s \in latched /\ shown'[s] = shown[s]
  <2>1. s \in Sessions /\ at[s] # "new" /\ Shorter(s)
    BY <1>1 DEF LatchedLate, NeverShorter, Shorter, TypeOK
  <2>2. look'[s] = look[s] /\ at'[s] # "new"
    BY <2>1, BlindStays
  <2>3. TreeScan(s)' = TreeScan(s)
    BY <1>0, <2>2 DEF TreeScan, ScanOfTree, Scan, Tree, Read, Cut, Files
  <2>. QED
    BY <1>1, <2>1, <2>2, <2>3 DEF Shorter
<1>2. ASSUME NEW t \in Sessions, Prompt(t), s = t
      PROVE  at'[s] # "new" /\ Shorter(s)'
  <2>. DEFINE found == Total(cache.records)
              own == Total(TreeScan(s).records)
              fit == IF found > LearnedCap THEN LearnedCap ELSE found
  <2>1. /\ cache.session = s /\ found > 0 /\ at' = at /\ look' = look
        /\ shown'[s] = [entries |-> fit, more |-> found - fit]
    BY <1>2 DEF Prompt, Own, TypeOK
  <2>2. \A m \in Members : Cardinality(cache.records[m]) \in Nat
    BY ScanAssumption, FS_Subset, FS_CardinalityType DEF TypeOK, Caches, Shards
  <2>3. cache.of # "none"
    <3>. SUFFICES ASSUME \A m \in Members : cache.records[m] = {} PROVE found = 0
      BY <2>1 DEF CachesSound, Sound
    <3>1. {r \in Members \X Stamps : r[2] \in cache.records[r[1]]} = {}
      OBVIOUS
    <3>. QED
      BY <3>1, FS_EmptySet DEF Total
  <2>4. at[s] # "new" /\ own <= found
    BY <1>2, <2>1, <2>3, CacheIsLonger DEF CachesSound, Sound
  <2>5. own \in Nat /\ found \in Nat /\ LearnedCap \in Nat
    BY TotalIs, ScanAssumption
  <2>6. Total(TreeScan(s).records)' = own
    BY <1>0, <2>1 DEF TreeScan, ScanOfTree, Scan, Tree, Read, Cut, Files
  <2>7. shown'[s].entries = fit /\ shown'[s].more = found - fit
    BY <2>1
  <2>. HIDE DEF found, own
  <2>8. fit + (found - fit) >= own /\ fit >= IF own > LearnedCap THEN LearnedCap ELSE own
    BY <2>4, <2>5
  <2>. HIDE DEF fit
  <2>. QED
    BY <2>1, <2>4, <2>6, <2>7, <2>8 DEF Shorter
<1>3. (s \in latched /\ shown'[s] = shown[s]) \/ \E t \in Sessions : Prompt(t) /\ s = t
  BY DEF Next, Step, ScanTree, Fetch, ScanRef, NoteRead, NoteWrite, Kill, Prompt, scanVars, TypeOK
<1>. QED
  BY <1>1, <1>2, <1>3

(* The block of a session has at least as many entries, up to its cap and  *)
(* with those it announces beyond it, as its scan of the working tree      *)
(* alone would have given it, however scans of several sessions replace    *)
(* each other and whatever the ref holds (injectKnowledge, mergeScans).    *)
THEOREM BlocksAreNeverShorter == Spec => []NeverShorter
<1>1. Init => LatchedLate /\ NeverShorter
  BY DEF Init, NeverShorter, LatchedLate
<1>. QED
  BY <1>1, CachesHold, ShownStep, PTL DEF Spec

(* A session whose hook alone has started finds its own scan in the cache, *)
(* and in its hand when it is about to write the cache back.               *)
Alone(s) == at[s] # "new" /\ \A t \in Sessions \ {s} : at[t] = "new"

OwnCache ==
  \A s \in Sessions : Alone(s) =>
    /\ cache.session = s /\ cache.of # "none"
    /\ at[s] = "note" => note[s].session = s /\ note[s].of # "none"

LEMMA OwnCacheStep == TypeOK /\ OwnCache /\ [Next]_scanVars => OwnCache'
<1>. SUFFICES ASSUME TypeOK, OwnCache, [Next]_scanVars, NEW s \in Sessions, Alone(s)'
              PROVE  /\ cache'.session = s /\ cache'.of # "none"
                     /\ at'[s] = "note" => note'[s].session = s /\ note'[s].of # "none"
  BY DEF OwnCache
<1>. USE DEF TypeOK
<1>1. CASE UNCHANGED scanVars
  BY <1>1 DEF scanVars, OwnCache, Alone
<1>2. ASSUME NEW t \in Sessions, Step(t), t # s
      PROVE  /\ cache'.session = s /\ cache'.of # "none"
             /\ at'[s] = "note" => note'[s].session = s /\ note'[s].of # "none"
  <2>1. at'[t] = "new"
    BY <1>2 DEF Alone
  <2>2. Prompt(t)
    BY <1>2, <2>1 DEF Step, ScanTree, Fetch, ScanRef, NoteRead, NoteWrite, Kill
  <2>. QED
    BY <2>2 DEF Prompt, OwnCache, Alone
<1>3. ASSUME Step(s)
      PROVE  /\ cache'.session = s /\ cache'.of # "none"
             /\ at'[s] = "note" => note'[s].session = s /\ note'[s].of # "none"
  <2>1. CASE ScanTree(s)
    BY <2>1 DEF ScanTree, Cached
  <2>2. at[s] # "new" => Alone(s)
    BY <1>3 DEF Alone, Step, ScanTree, Fetch, ScanRef, NoteRead, NoteWrite, Kill, Prompt
  <2>3. CASE ScanRef(s)
    BY <2>3 DEF ScanRef, Cached
  <2>4. CASE NoteRead(s)
    BY <2>2, <2>4 DEF NoteRead, Unreadable, OwnCache, Caches
  <2>5. CASE NoteWrite(s)
    BY <2>2, <2>5 DEF NoteWrite, OwnCache
  <2>6. CASE Fetch(s) \/ Kill(s)
    BY <2>2, <2>6 DEF Fetch, Kill, OwnCache
  <2>7. CASE Prompt(s)
    BY <2>7 DEF Prompt, OwnCache, Alone
  <2>. QED
    BY <1>3, <2>1, <2>3, <2>4, <2>5, <2>6, <2>7 DEF Step
<1>. QED
  BY <1>1, <1>2, <1>3 DEF Next

(* From the moment a hook has scanned the working tree its block waits in  *)
(* the cache, and no fetch that fails, no ref that cannot be read and no   *)
(* kill takes a member's part of it away; as long as no other session of   *)
(* the clone starts (sessionStartScan, noteFetch).                         *)
THEOREM BlocksWait == Spec => []BlockWaits
<1>1. Init => OwnCache
  BY DEF Init, OwnCache, Alone
<1>2. TypeOK /\ CachesSound /\ OwnCache => BlockWaits
  <2>. SUFFICES ASSUME TypeOK, CachesSound, OwnCache, NEW s \in Sessions, Alone(s)
                PROVE  /\ cache.session = s
                       /\ \A m \in Members : Cardinality(cache.records[m]) >= Cardinality(TreeScan(s).records[m])
    BY DEF BlockWaits, Alone
  <2>1. cache.session = s /\ cache.of # "none"
    BY DEF OwnCache
  <2>2. ASSUME NEW m \in Members
        PROVE  Cardinality(cache.records[m]) >= Cardinality(TreeScan(s).records[m])
    <3>1. Cardinality(cache.records[m]) \in Cardinality(TreeScan(s).records[m])..MaxRecords
      BY <2>1, ScanAssumption DEF CachesSound, Sound, Counts
    <3>2. Cardinality(TreeScan(s).records[m]) \in Nat /\ MaxRecords \in Nat
      BY TreeCounts, ScanAssumption DEF Capped, TypeOK, TreeScan
    <3>. QED
      BY <3>1, <3>2
  <2>. QED
    BY <2>1, <2>2
<1>. QED
  BY <1>1, <1>2, CachesHold, OwnCacheStep, PTL DEF Spec
=============================================================================
