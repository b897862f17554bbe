---------------------------- MODULE DeliveryProofs ----------------------------
(***************************************************************************)
(* Proofs about the way of a message to one member's model, for any number *)
(* of messages and senders, any caps, however the hooks overlap and        *)
(* whichever of them are killed between two steps; and about the loop that *)
(* selects the page (FairLoop), on the same facts about the round robin.   *)
(***************************************************************************)
EXTENDS Delivery, FairLoop, FiniteSetTheorems, WellFoundedInduction, TLAPS

(***************************************************************************)
(* The page of a sync, for every finite stream with one message per seq    *)
(* and every cap: the round robin is a strict total order, so it fills at  *)
(* most its budget, and the oldest pending message leads it.               *)
(***************************************************************************)
Keyed(items) ==
  /\ IsFiniteSet(items)
  /\ \A x \in items : x.seq \in Nat
  /\ \A x, y \in items : x.seq = y.seq => x = y

(* Every nonempty set of naturals has a least element. *)
LEMMA LeastNatural ==
  ASSUME NEW S \in SUBSET Nat, S # {}
  PROVE  \E n \in S : \A k \in S : n <= k
<1>1. PICK n \in S : \A k \in S : ~(<<k, n>> \in OpToRel(<, Nat))
  BY NatLessThanWellFounded, WFMin
<1>2. \A a, b \in Nat : a < b => <<a, b>> \in OpToRel(<, Nat)
  BY DEF OpToRel
<1>3. \A k \in S : ~(k < n)
  BY <1>1, <1>2
<1>. QED
  BY <1>3

(* A nonempty bounded one has a greatest element. *)
LEMMA GreatestNatural ==
  ASSUME NEW n \in Nat, NEW S \in SUBSET (0..n), S # {}
  PROVE  \E m \in S : \A k \in S : k <= m
<1>. DEFINE T == {n - k : k \in S}
<1>1. T \in SUBSET Nat /\ T # {}
  <2>1. \A k \in S : n - k \in Nat
    OBVIOUS
  <2>. QED
    BY <2>1
<1>. HIDE DEF T
<1>2. PICK t \in T : \A u \in T : t <= u
  BY <1>1, LeastNatural
<1>3. PICK m \in S : t = n - m
  BY <1>2 DEF T
<1>4. \A k \in S : n - k \in T
  BY DEF T
<1>. QED
  BY <1>2, <1>3, <1>4

LEMMA KeyedSubset ==
  ASSUME NEW items, Keyed(items), NEW part \in SUBSET items
  PROVE  Keyed(part)
  BY FS_Subset DEF Keyed

-----------------------------------------------------------------------------
(* The order of the round robin.                                           *)
LEMMA OldestIsLeast ==
  ASSUME NEW items, Keyed(items), NEW x \in items
  PROVE  /\ Oldest(items, x.sender) \in Nat
         /\ \E y \in items : y.sender = x.sender /\ y.seq = Oldest(items, x.sender)
         /\ Oldest(items, x.sender) <= x.seq
<1>. DEFINE seqs == {y.seq : y \in SentBy(items, x.sender)}
<1>1. x \in SentBy(items, x.sender) /\ SentBy(items, x.sender) \subseteq items
  BY DEF SentBy
<1>2. seqs \in SUBSET Nat /\ seqs # {}
  BY <1>1 DEF Keyed
<1>. HIDE DEF seqs
<1>3. \E n \in seqs : \A k \in seqs : n <= k
  BY <1>2, LeastNatural
<1>4. \E n \in seqs : \A y \in SentBy(items, x.sender) : n <= y.seq
  BY <1>3 DEF seqs
<1>5. /\ Oldest(items, x.sender) \in seqs
      /\ \A y \in SentBy(items, x.sender) : Oldest(items, x.sender) <= y.seq
  BY <1>4 DEF Oldest, seqs
<1>6. \E y \in SentBy(items, x.sender) : y.seq = Oldest(items, x.sender)
  BY <1>5 DEF seqs
<1>. QED
  BY <1>1, <1>2, <1>5, <1>6 DEF SentBy

LEMMA RoundIsNat ==
  ASSUME NEW items, Keyed(items), NEW x \in items
  PROVE  Round(items, x) \in Nat
<1>. DEFINE earlier == {y \in SentBy(items, x.sender) : y.seq < x.seq}
<1>1. earlier \in SUBSET items
  BY DEF SentBy
<1>2. IsFiniteSet(earlier)
  BY <1>1, FS_Subset DEF Keyed
<1>. QED
  BY <1>2, FS_CardinalityType DEF Round

(* A sender's items come in the order it sent them, a round apart. *)
LEMMA RoundsGrow ==
  ASSUME NEW items, Keyed(items), NEW x \in items, NEW y \in items,
         x.sender = y.sender, x.seq < y.seq
  PROVE  Round(items, x) < Round(items, y)
<1>. DEFINE bx == {z \in SentBy(items, x.sender) : z.seq < x.seq}
            by == {z \in SentBy(items, y.sender) : z.seq < y.seq}
<1>1. bx \subseteq by
  BY DEF Keyed, SentBy
<1>2. x \in by /\ x \notin bx
  BY DEF Keyed, SentBy
<1>3. by \in SUBSET items
  BY DEF SentBy
<1>4. Round(items, x) = Cardinality(bx) /\ Round(items, y) = Cardinality(by)
  BY DEF Round
<1>. HIDE DEF bx, by
<1>5. IsFiniteSet(by) /\ IsFiniteSet(bx)
  BY <1>1, <1>3, FS_Subset DEF Keyed
<1>6. Cardinality(bx) <= Cardinality(by) /\ Cardinality(bx) # Cardinality(by)
  BY <1>1, <1>2, <1>5, FS_Subset
<1>7. Cardinality(bx) \in Nat /\ Cardinality(by) \in Nat
  BY <1>5, FS_CardinalityType
<1>. QED
  BY <1>4, <1>6, <1>7

LEMMA PrecedesIsTotal ==
  ASSUME NEW items, Keyed(items), NEW x \in items, NEW y \in items, x # y
  PROVE  Precedes(items, x, y) \/ Precedes(items, y, x)
<1>1. /\ Round(items, x) \in Nat /\ Round(items, y) \in Nat
      /\ Oldest(items, x.sender) \in Nat /\ Oldest(items, y.sender) \in Nat
  BY RoundIsNat, OldestIsLeast
<1>2. CASE x.sender = y.sender
  <2>1. x.seq < y.seq \/ y.seq < x.seq
    BY DEF Keyed
  <2>. QED
    BY <1>2, <2>1, RoundsGrow DEF Precedes
<1>3. CASE x.sender # y.sender
  <2>1. Oldest(items, x.sender) # Oldest(items, y.sender)
    <3>1. PICK u \in items : u.sender = x.sender /\ u.seq = Oldest(items, x.sender)
      BY OldestIsLeast
    <3>2. PICK v \in items : v.sender = y.sender /\ v.seq = Oldest(items, y.sender)
      BY OldestIsLeast
    <3>. QED
      BY <1>3, <3>1, <3>2 DEF Keyed
  <2>. QED
    BY <1>1, <2>1 DEF Precedes
<1>. QED
  BY <1>2, <1>3

LEMMA PrecedesIsStrict ==
  ASSUME NEW items, Keyed(items), NEW x \in items
  PROVE  /\ ~Precedes(items, x, x)
         /\ \A y, z \in items :
              Precedes(items, x, y) /\ Precedes(items, y, z) => Precedes(items, x, z)
<1>1. \A u \in items : Round(items, u) \in Nat /\ Oldest(items, u.sender) \in Nat
  BY RoundIsNat, OldestIsLeast
<1>. QED
  BY <1>1 DEF Precedes

(* What comes later has strictly more before it. *)
LEMMA PositionsGrow ==
  ASSUME NEW items, Keyed(items), NEW x \in items, NEW y \in items, Precedes(items, x, y)
  PROVE  /\ Cardinality({z \in items : Precedes(items, z, x)}) \in Nat
         /\ Cardinality({z \in items : Precedes(items, z, y)}) \in Nat
         /\ Cardinality({z \in items : Precedes(items, z, x)})
              < Cardinality({z \in items : Precedes(items, z, y)})
<1>. DEFINE bx == {z \in items : Precedes(items, z, x)}
            by == {z \in items : Precedes(items, z, y)}
<1>1. bx \subseteq by /\ x \in by /\ x \notin bx
  BY PrecedesIsStrict
<1>2. IsFiniteSet(by) /\ IsFiniteSet(bx)
  BY FS_Subset DEF Keyed
<1>. HIDE DEF bx, by
<1>3. Cardinality(bx) <= Cardinality(by) /\ Cardinality(bx) # Cardinality(by)
  BY <1>1, <1>2, FS_Subset
<1>4. Cardinality(bx) \in Nat /\ Cardinality(by) \in Nat
  BY <1>2, FS_CardinalityType
<1>. QED
  BY <1>3, <1>4 DEF bx, by

-----------------------------------------------------------------------------
(* The round robin keeps to its budget: positions are distinct numbers     *)
(* below it.                                                               *)
LEMMA RoundRobinWithinBudget ==
  ASSUME NEW items, Keyed(items), NEW budget \in Nat
  PROVE  /\ RoundRobin(items, budget) \subseteq items
         /\ IsFiniteSet(RoundRobin(items, budget))
         /\ Cardinality(RoundRobin(items, budget)) \in Nat
         /\ Cardinality(RoundRobin(items, budget)) <= budget
<1>. DEFINE taken == RoundRobin(items, budget)
            place == [x \in taken |-> Cardinality({z \in items : Precedes(items, z, x)})]
<1>1. taken \subseteq items
  BY DEF RoundRobin
<1>2. IsFiniteSet(taken) /\ Cardinality(taken) \in Nat
  BY <1>1, FS_Subset, FS_CardinalityType DEF Keyed
<1>3. place \in [taken -> 0..(budget - 1)]
  <2>1. ASSUME NEW x \in taken
        PROVE  Cardinality({z \in items : Precedes(items, z, x)}) \in 0..(budget - 1)
    <3>1. Cardinality({z \in items : Precedes(items, z, x)}) < budget
      BY DEF RoundRobin
    <3>2. IsFiniteSet({z \in items : Precedes(items, z, x)})
      BY FS_Subset DEF Keyed
    <3>3. Cardinality({z \in items : Precedes(items, z, x)}) \in Nat
      BY <3>2, FS_CardinalityType
    <3>. QED
      BY <3>1, <3>3
  <2>. QED
    BY <2>1
<1>4. ASSUME NEW x \in taken, NEW y \in taken, x # y
      PROVE  place[x] # place[y]
  <2>1. Precedes(items, x, y) \/ Precedes(items, y, x)
    BY <1>1, <1>4, PrecedesIsTotal
  <2>2. Cardinality({z \in items : Precedes(items, z, x)})
          # Cardinality({z \in items : Precedes(items, z, y)})
    <3>1. x \in items /\ y \in items
      BY <1>1
    <3>. HIDE DEF taken
    <3>2. CASE Precedes(items, x, y)
      BY <3>1, <3>2, PositionsGrow
    <3>3. CASE Precedes(items, y, x)
      BY <3>1, <3>3, PositionsGrow
    <3>. QED
      BY <2>1, <3>2, <3>3
  <2>. HIDE DEF taken
  <2>. QED
    BY <2>2
<1>5. IsFiniteSet(0..(budget - 1)) /\ Cardinality(0..(budget - 1)) = budget
  BY FS_Interval
<1>. HIDE DEF taken, place
<1>6. ~(Cardinality(0..(budget - 1)) < Cardinality(taken))
  BY <1>2, <1>3, <1>4, <1>5, FS_PigeonHole
<1>. QED
  BY <1>1, <1>2, <1>5, <1>6 DEF taken

(* The places of n items, all of them apart and below n, are 0 to n - 1.    *)
LEMMA PlacesHit ==
  ASSUME NEW S, IsFiniteSet(S), NEW place \in [S -> 0..(Cardinality(S) - 1)],
         \A x, y \in S : x # y => place[x] # place[y],
         NEW k \in 0..(Cardinality(S) - 1)
  PROVE  \E x \in S : place[x] = k
<1>. DEFINE n == Cardinality(S)
<1>1. n \in Nat
  BY FS_CardinalityType
<1>. HIDE DEF n
<1>2. IsFiniteSet(0..(n - 1)) /\ Cardinality(0..(n - 1)) = n
  BY <1>1, FS_Interval
<1>. SUFFICES ASSUME \A x \in S : place[x] # k PROVE FALSE
  OBVIOUS
<1>3. place \in [S -> (0..(n - 1)) \ {k}] /\ k \in 0..(n - 1)
  BY DEF n
<1>4. /\ IsFiniteSet((0..(n - 1)) \ {k})
      /\ Cardinality((0..(n - 1)) \ {k}) = n - 1
  BY <1>1, <1>2, <1>3, FS_RemoveElement
<1>. QED
  BY <1>1, <1>3, <1>4, FS_PigeonHole DEF n

(* Nor does a selection by position leave a slot of its budget empty while *)
(* there are items for it: the positions of n items are 0 to n - 1.        *)
LEMMA PlacesFill ==
  ASSUME NEW S, IsFiniteSet(S), NEW budget \in Nat,
         NEW place \in [S -> 0..(Cardinality(S) - 1)],
         \A x, y \in S : x # y => place[x] # place[y]
  PROVE  Cardinality({x \in S : place[x] < budget}) >= Lesser(budget, Cardinality(S))
<1>. DEFINE n == Cardinality(S)
            taken == {x \in S : place[x] < budget}
            m == Lesser(budget, n)
<1>a. n \in Nat
  BY FS_CardinalityType
<1>. HIDE DEF n
<1>1. m \in Nat /\ m <= n /\ m <= budget
  BY <1>a DEF Lesser
<1>. HIDE DEF m
<1>3. IsFiniteSet(0..(m - 1)) /\ Cardinality(0..(m - 1)) = m
  BY <1>1, FS_Interval
<1>4. ASSUME NEW k \in 0..(n - 1), \A x \in S : place[x] # k PROVE FALSE
  BY <1>4, PlacesHit DEF n
<1>5. IsFiniteSet(taken) /\ Cardinality(taken) \in Nat
  BY FS_Subset, FS_CardinalityType
<1>. DEFINE at == [k \in 0..(m - 1) |-> CHOOSE x \in S : place[x] = k]
<1>6. \A k \in 0..(m - 1) : at[k] \in S /\ place[at[k]] = k
  BY <1>a, <1>1, <1>4
<1>7. at \in [0..(m - 1) -> taken]
  BY <1>1, <1>6
<1>8. \A j, k \in 0..(m - 1) : j # k => at[j] # at[k]
  BY <1>6
<1>. HIDE DEF at, taken
<1>9. ~(Cardinality(taken) < m)
  BY <1>3, <1>5, <1>7, <1>8, FS_PigeonHole
<1>. QED
  BY <1>1, <1>5, <1>9 DEF m, n, taken

(* The round robin takes its budget, or all there is. *)
LEMMA RoundRobinFills ==
  ASSUME NEW items, Keyed(items), NEW budget \in Nat
  PROVE  Cardinality(RoundRobin(items, budget)) >= Lesser(budget, Cardinality(items))
<1>. DEFINE before(x) == {z \in items : Precedes(items, z, x)}
            place == [x \in items |-> Cardinality(before(x))]
<1>1. ASSUME NEW x \in items PROVE Cardinality(before(x)) \in 0..(Cardinality(items) - 1)
  <2>1. before(x) \subseteq items /\ x \notin before(x)
    BY PrecedesIsStrict
  <2>2. IsFiniteSet(before(x))
    BY <2>1, FS_Subset DEF Keyed
  <2>. HIDE DEF before
  <2>3. /\ Cardinality(before(x)) \in Nat /\ Cardinality(items) \in Nat
        /\ Cardinality(before(x)) <= Cardinality(items)
        /\ Cardinality(before(x)) # Cardinality(items)
    BY <2>1, <2>2, FS_Subset, FS_CardinalityType DEF Keyed
  <2>. QED
    BY <2>3
<1>2. place \in [items -> 0..(Cardinality(items) - 1)]
  BY <1>1
<1>3. ASSUME NEW x \in items, NEW y \in items, x # y PROVE place[x] # place[y]
  <2>1. Precedes(items, x, y) \/ Precedes(items, y, x)
    BY <1>3, PrecedesIsTotal
  <2>2. Cardinality(before(x)) # Cardinality(before(y))
    BY <2>1, PositionsGrow
  <2>. HIDE DEF before
  <2>. QED
    BY <2>2
<1>4. RoundRobin(items, budget) = {x \in items : place[x] < budget}
  BY DEF RoundRobin
<1>. HIDE DEF place
<1>. QED
  BY <1>2, <1>3, <1>4, PlacesFill DEF Keyed

(* So does a bounded read in seq order. *)
LEMMA LowestFills ==
  ASSUME NEW items, Keyed(items), NEW budget \in Nat
  PROVE  Cardinality(Lowest(items, budget)) >= Lesser(budget, Cardinality(items))
<1>. DEFINE before(x) == {z \in items : z.seq < x.seq}
            place == [x \in items |-> Cardinality(before(x))]
<1>1. ASSUME NEW x \in items
      PROVE  /\ IsFiniteSet(before(x))
             /\ Cardinality(before(x)) \in 0..(Cardinality(items) - 1)
  <2>1. before(x) \subseteq items /\ x \notin before(x)
    BY DEF Keyed
  <2>2. IsFiniteSet(before(x))
    BY <2>1, FS_Subset DEF Keyed
  <2>. HIDE DEF before
  <2>3. /\ Cardinality(before(x)) \in Nat /\ Cardinality(items) \in Nat
        /\ Cardinality(before(x)) <= Cardinality(items)
        /\ Cardinality(before(x)) # Cardinality(items)
    BY <2>1, <2>2, FS_Subset, FS_CardinalityType DEF Keyed
  <2>. QED
    BY <2>2, <2>3
<1>2. place \in [items -> 0..(Cardinality(items) - 1)]
  BY <1>1
<1>3. ASSUME NEW x \in items, NEW y \in items, x.seq < y.seq
      PROVE  Cardinality(before(x)) # Cardinality(before(y))
  <2>1. before(x) \subseteq before(y) /\ x \in before(y) /\ x \notin before(x)
    BY <1>3 DEF Keyed
  <2>2. IsFiniteSet(before(y))
    BY <1>1
  <2>. HIDE DEF before
  <2>. QED
    BY <2>1, <2>2, FS_Subset
<1>4. ASSUME NEW x \in items, NEW y \in items, x # y PROVE place[x] # place[y]
  <2>1. x.seq < y.seq \/ y.seq < x.seq
    BY <1>4 DEF Keyed
  <2>2. Cardinality(before(x)) # Cardinality(before(y))
    BY <1>3, <2>1
  <2>. HIDE DEF before
  <2>. QED
    BY <2>2
<1>5. Lowest(items, budget) = {x \in items : place[x] < budget}
  BY DEF Lowest
<1>. HIDE DEF place
<1>. QED
  BY <1>2, <1>4, <1>5, PlacesFill DEF Keyed

(* The oldest item of all has nothing before it. *)
LEMMA OldestLeads ==
  ASSUME NEW items, Keyed(items), NEW x \in items, \A y \in items : x.seq <= y.seq,
         NEW budget \in Nat, budget > 0
  PROVE  x \in RoundRobin(items, budget)
<1>1. Round(items, x) = 0
  <2>1. {y \in SentBy(items, x.sender) : y.seq < x.seq} = {}
    BY DEF SentBy, Keyed
  <2>. QED
    BY <2>1, FS_EmptySet DEF Round
<1>2. Oldest(items, x.sender) = x.seq
  <2>1. PICK y \in items : y.seq = Oldest(items, x.sender)
    BY OldestIsLeast
  <2>. QED
    BY <2>1, OldestIsLeast DEF Keyed
<1>3. \A y \in items : ~Precedes(items, y, x)
  <2>. SUFFICES ASSUME NEW y \in items PROVE ~Precedes(items, y, x)
    OBVIOUS
  <2>1. PICK z \in items : z.seq = Oldest(items, y.sender)
    BY OldestIsLeast
  <2>2. Round(items, y) \in Nat
    BY RoundIsNat
  <2>. QED
    BY <1>1, <1>2, <2>1, <2>2 DEF Precedes, Keyed
<1>4. {y \in items : Precedes(items, y, x)} = {}
  BY <1>3
<1>. QED
  BY <1>4, FS_EmptySet DEF RoundRobin

(* The reserved pass leaves a slot for the fair one. *)
LEMMA FloorLeavesRoom ==
  ASSUME NEW items, Keyed(items)
  PROVE  /\ ReservedPass(items, FetchCap, ReservedSlots) \subseteq items
         /\ IsFiniteSet(ReservedPass(items, FetchCap, ReservedSlots))
         /\ Cardinality(ReservedPass(items, FetchCap, ReservedSlots)) \in 0..(FetchCap - 1)
<1>1. PriorityOf(items) \in SUBSET items
  BY DEF PriorityOf
<1>2. Keyed(PriorityOf(items))
  BY <1>1, KeyedSubset
<1>3. Lesser(ReservedSlots, FetchCap) = ReservedSlots
  BY SyncAssumption DEF Lesser
<1>4. /\ RoundRobin(PriorityOf(items), ReservedSlots) \subseteq PriorityOf(items)
      /\ IsFiniteSet(RoundRobin(PriorityOf(items), ReservedSlots))
      /\ Cardinality(RoundRobin(PriorityOf(items), ReservedSlots)) \in Nat
      /\ Cardinality(RoundRobin(PriorityOf(items), ReservedSlots)) <= ReservedSlots
  BY <1>2, RoundRobinWithinBudget, SyncAssumption
<1>. QED
  BY <1>1, <1>3, <1>4, SyncAssumption DEF ReservedPass

-----------------------------------------------------------------------------
LEMMA CandidatesKeyed ==
  ASSUME NEW posts, Keyed(posts), NEW from \in Nat
  PROVE  /\ Candidates(posts, from) \subseteq Pending(posts, from)
         /\ Keyed(Pending(posts, from)) /\ Keyed(Candidates(posts, from))
<1>1. Candidates(posts, from) \in SUBSET Pending(posts, from)
  BY DEF Candidates, Lowest, PriorityOf
<1>2. Pending(posts, from) \in SUBSET posts
  BY DEF Pending
<1>. QED
  BY <1>1, <1>2, KeyedSubset

(* A page is pending messages, FetchCap of them at most. *)
THEOREM PageWithinCap ==
  ASSUME NEW posts, Keyed(posts), NEW from \in Nat
  PROVE  /\ Page(posts, from) \subseteq Pending(posts, from)
         /\ IsFiniteSet(Page(posts, from))
         /\ Cardinality(Page(posts, from)) <= FetchCap
<1>. DEFINE items == Candidates(posts, from)
            floor == ReservedPass(items, FetchCap, ReservedSlots)
            rest == RoundRobin(items \ floor, FetchCap - Cardinality(floor))
<1>1. Keyed(items) /\ items \subseteq Pending(posts, from)
  BY CandidatesKeyed
<1>2. Page(posts, from) = floor \cup rest
  BY DEF Page, SelectFair
<1>. HIDE DEF items
<1>3. floor \subseteq items /\ IsFiniteSet(floor) /\ Cardinality(floor) \in 0..(FetchCap - 1)
  BY <1>1, FloorLeavesRoom
<1>. HIDE DEF floor
<1>4. FetchCap - Cardinality(floor) \in Nat
  BY <1>3, SyncAssumption
<1>5. Keyed(items \ floor)
  BY <1>1, KeyedSubset
<1>6. /\ rest \subseteq items \ floor /\ IsFiniteSet(rest)
      /\ Cardinality(rest) \in Nat /\ Cardinality(rest) <= FetchCap - Cardinality(floor)
  BY <1>4, <1>5, RoundRobinWithinBudget
<1>. HIDE DEF rest
<1>7. floor \cap rest = {}
  BY <1>6
<1>8. /\ IsFiniteSet(floor \cup rest)
      /\ Cardinality(floor \cup rest) = Cardinality(floor) + Cardinality(rest) - Cardinality({})
  BY <1>3, <1>6, <1>7, FS_Union
<1>. QED
  BY <1>1, <1>2, <1>3, <1>6, <1>8, FS_EmptySet, SyncAssumption

(* The oldest pending message is in every page. *)
THEOREM OldestIsInPage ==
  ASSUME NEW posts, Keyed(posts), NEW from \in Nat, NEW x \in Pending(posts, from),
         \A y \in Pending(posts, from) : x.seq <= y.seq
  PROVE  x \in Page(posts, from)
<1>. DEFINE items == Candidates(posts, from)
            floor == ReservedPass(items, FetchCap, ReservedSlots)
<1>1. Keyed(items) /\ items \subseteq Pending(posts, from)
  BY CandidatesKeyed
<1>2. x \in items
  <2>1. {y \in Pending(posts, from) : y.seq < x.seq} = {}
    BY CandidatesKeyed DEF Keyed
  <2>2. Cardinality({y \in Pending(posts, from) : y.seq < x.seq}) < Window
    <3>1. 0 < Window
      BY SyncAssumption
    <3>. QED
      BY <2>1, <3>1, FS_EmptySet
  <2>3. x \in Lowest(Pending(posts, from), Window)
    BY <2>2 DEF Lowest
  <2>. QED
    BY <2>3 DEF Candidates
<1>. HIDE DEF items
<1>3. floor \subseteq items /\ Cardinality(floor) \in 0..(FetchCap - 1)
  BY <1>1, FloorLeavesRoom
<1>. HIDE DEF floor
<1>4. CASE x \notin floor
  <2>1. Keyed(items \ floor)
    BY <1>1, KeyedSubset
  <2>2. FetchCap - Cardinality(floor) \in Nat /\ FetchCap - Cardinality(floor) > 0
    BY <1>3, SyncAssumption
  <2>3. x \in RoundRobin(items \ floor, FetchCap - Cardinality(floor))
    BY <1>1, <1>2, <1>4, <2>1, <2>2, OldestLeads
  <2>. QED
    BY <2>3 DEF Page, SelectFair, items, floor
<1>. QED
  BY <1>4 DEF Page, SelectFair, items, floor

(* The reserved slots of every page are filled as far as warnings pend:    *)
(* the second read brings up to four times as many of them as there are    *)
(* slots, also from beyond the window.                                     *)
THEOREM FloorIsInPage ==
  ASSUME NEW posts, Keyed(posts), NEW from \in Nat
  PROVE  Cardinality(PriorityOf(Page(posts, from)))
           >= Lesser(ReservedSlots, Cardinality(PriorityOf(Pending(posts, from))))
<1>. DEFINE items == Candidates(posts, from)
            warnings == PriorityOf(Pending(posts, from))
            near == Lowest(warnings, 4 * ReservedSlots)
            floor == ReservedPass(items, FetchCap, ReservedSlots)
<1>1. Keyed(items) /\ Keyed(Pending(posts, from))
  BY CandidatesKeyed
<1>2. warnings \subseteq Pending(posts, from) /\ PriorityOf(items) \subseteq items
  BY DEF PriorityOf
<1>3. Keyed(warnings) /\ Keyed(PriorityOf(items))
  BY <1>1, <1>2, KeyedSubset
<1>4. near \subseteq PriorityOf(items)
  BY DEF Candidates, Lowest, PriorityOf
<1>5. floor = RoundRobin(PriorityOf(items), ReservedSlots)
  BY SyncAssumption DEF ReservedPass, Lesser
<1>6. floor \subseteq Page(posts, from)
  BY DEF Page, SelectFair
<1>7. IsFiniteSet(Page(posts, from))
  BY PageWithinCap
<1>. HIDE DEF items, warnings
<1>8. Cardinality(near) >= Lesser(4 * ReservedSlots, Cardinality(warnings))
  BY <1>3, LowestFills, SyncAssumption
<1>9. /\ Cardinality(floor) >= Lesser(ReservedSlots, Cardinality(PriorityOf(items)))
      /\ floor \subseteq PriorityOf(items) /\ Cardinality(floor) \in Nat
  BY <1>3, <1>5, RoundRobinFills, RoundRobinWithinBudget, SyncAssumption
<1>. HIDE DEF near, floor
<1>10. floor \subseteq PriorityOf(Page(posts, from))
  BY <1>6, <1>9 DEF PriorityOf
<1>11. PriorityOf(Page(posts, from)) \subseteq Page(posts, from)
  BY DEF PriorityOf
<1>12. /\ Cardinality(floor) <= Cardinality(PriorityOf(Page(posts, from)))
       /\ Cardinality(PriorityOf(Page(posts, from))) \in Nat
  BY <1>7, <1>10, <1>11, FS_Subset, FS_CardinalityType
<1>13. /\ Cardinality(near) <= Cardinality(PriorityOf(items))
       /\ Cardinality(near) \in Nat /\ Cardinality(PriorityOf(items)) \in Nat
       /\ Cardinality(warnings) \in Nat
  BY <1>3, <1>4, FS_Subset, FS_CardinalityType DEF Keyed
<1>. QED
  BY <1>8, <1>9, <1>12, <1>13, SyncAssumption DEF Lesser, warnings

-----------------------------------------------------------------------------
(* The reader: hooks, turns, the digest and its watermark. *)
(* The relay's stream of a reader: finite, one message per seq. *)
StreamInv ==
  /\ IsFiniteSet(stream)
  /\ Cardinality(stream) \in 0..MaxSeq
  /\ \A x \in stream : x.seq \in 1..Cardinality(stream)
  /\ \A x, y \in stream : x.seq = y.seq => x = y

LEMMA StreamInit == Init => StreamInv
  BY FS_EmptySet, DeliveryAssumption DEF Init, StreamInv

LEMMA StreamStep == StreamInv /\ [Next]_vars => StreamInv'
<1>. SUFFICES ASSUME StreamInv, [Next]_vars PROVE StreamInv'
  OBVIOUS
<1>1. ASSUME NEW sender \in Senders, NEW type \in Types, PeerPosts(sender, type)
      PROVE  StreamInv'
  <2>. DEFINE n == Cardinality(stream)
              new == [seq |-> n + 1, sender |-> sender, type |-> type, ts |-> clock]
  <2>1. n \in Nat /\ n < MaxSeq /\ stream' = stream \cup {new} /\ new.seq = n + 1
    BY <1>1, DeliveryAssumption DEF PeerPosts, StreamInv
  <2>2. \A x \in stream : x.seq \in 1..n
    BY DEF StreamInv
  <2>. HIDE DEF new
  <2>3. new \notin stream
    BY <2>1, <2>2
  <2>4. IsFiniteSet(stream') /\ Cardinality(stream') = n + 1
    BY <2>1, <2>3, FS_AddElement DEF StreamInv
  <2>5. \A x, y \in stream' : x.seq = y.seq => x = y
    BY <2>1, <2>2 DEF StreamInv
  <2>. HIDE DEF n
  <2>. QED
    BY <2>1, <2>2, <2>4, <2>5, DeliveryAssumption DEF StreamInv
<1>2. CASE stream' = stream
  BY <1>2 DEF StreamInv
<1>3. stream' = stream \/ \E sender \in Senders, type \in Types : PeerPosts(sender, type)
  BY DEF Next, vars, relay, Tick, Refresh, GoOn, Ask, Store, Unreachable, Push, Acknowledge, EndRefresh,
     ContextStart, Prompt, Submit, Consume, Show, Carry, Advance, RaiseFlag, Kill, MarkerStale
<1>. QED
  BY <1>1, <1>2, <1>3

LEMMA StreamIsKeyed == StreamInv => Keyed(stream)
  BY DeliveryAssumption DEF StreamInv, Keyed

(* Wherever a reader stands, the page it is answered holds the oldest      *)
(* message it has not read.                                                *)
THEOREM OldestAlwaysAnswered == Spec => []OldestIsAnswered
<1>1. StreamInv => OldestIsAnswered
  <2>. SUFFICES ASSUME StreamInv, NEW from \in 0..MaxSeq, NEW x \in Pending(stream, from),
                       \A y \in Pending(stream, from) : x.seq <= y.seq
                PROVE  x \in Page(stream, from)
    BY DEF OldestIsAnswered
  <2>1. from \in Nat
    BY DeliveryAssumption
  <2>. QED
    BY <2>1, StreamIsKeyed, OldestIsInPage
<1>. QED
  BY <1>1, StreamInit, StreamStep, PTL DEF Spec

(* Wherever a reader stands, its page has a warning in every reserved slot *)
(* there is a pending warning for.                                         *)
THEOREM WarningsAlwaysAnswered == Spec => []FloorIsFilled
<1>1. StreamInv => FloorIsFilled
  BY DeliveryAssumption, StreamIsKeyed, FloorIsInPage DEF FloorIsFilled
<1>. QED
  BY <1>1, StreamInit, StreamStep, PTL DEF Spec

-----------------------------------------------------------------------------
LEMMA HighestIs ==
  ASSUME NEW S \in SUBSET Seqs, S # {}
  PROVE  Highest(S) \in S
<1>1. S \in SUBSET (0..MaxSeq)
  BY DEF Seqs
<1>2. \E m \in S : \A k \in S : k <= m
  BY <1>1, GreatestNatural, DeliveryAssumption
<1>. QED
  BY <1>2 DEF Highest

(* What a refresh accepts are messages of the stream. *)
LEMMA AcceptedSeqs ==
  ASSUME StreamInv, NEW p \in Refreshers, hook[p].from \in Nat
  PROVE  /\ {x.seq : x \in Accepted(p)} \in SUBSET Seqs
         /\ DeriveCursor(p) \in {None} \cup {x.seq : x \in Accepted(p)}
<1>. DEFINE got == {x.seq : x \in Accepted(p)}
<1>1. Page(stream, hook[p].from) \subseteq stream
  BY StreamIsKeyed, PageWithinCap DEF Pending
<1>2. \A x \in stream : x.seq \in Seqs
  BY DeliveryAssumption DEF StreamInv, Seqs
<1>3. got \in SUBSET Seqs
  BY <1>1, <1>2 DEF Accepted
<1>4. DeriveCursor(p) = IF got = {} THEN None ELSE Highest(got)
  BY DEF DeriveCursor
<1>. HIDE DEF got
<1>. QED
  BY <1>3, <1>4, HighestIs DEF got

-----------------------------------------------------------------------------
(* Types.                                                                  *)
HookType == {Idle} \cup [at : {"asked"}, from : 0..MaxSeq, seen : SUBSET Seqs]
                   \cup [at : {"stored", "pushed"}]
TurnType == {Idle} \cup [at : {"shown"}, carried : SUBSET Seqs]
                   \cup [at : {"carried"}, next : Seqs \cup {None}] \cup [at : {"advanced"}]

LEMMA AskedFrom ==
  ASSUME TypeOK, NEW p \in Refreshers, hook[p].at = "asked"
  PROVE  hook[p].from \in 0..MaxSeq /\ hook[p].seen \in SUBSET Seqs
<1>1. hook[p] \in HookType
  BY DEF TypeOK, HookType
<1>. QED
  BY <1>1 DEF HookType, Idle

LEMMA TypeInit == Init => TypeOK
<1>. SUFFICES ASSUME Init PROVE TypeOK
  OBVIOUS
<1>1. digest \in [items : SUBSET Seqs, next : Seqs \cup {None}]
  BY DEF Init
<1>2. rendered \in [Seqs -> 0..2] /\ hook \in [Refreshers -> HookType]
  BY DEF Init, HookType
<1>3. stream \subseteq Message /\ clock \in 0..MaxClock /\ cursor \in 0..MaxSeq /\ watermark \in 0..MaxSeq
  BY DeliveryAssumption DEF Init
<1>. QED
  BY <1>1, <1>2, <1>3 DEF Init, TypeOK, HookType

LEMMA TypeStep == TypeOK /\ StreamInv /\ [Next]_vars => TypeOK'
<1>. SUFFICES ASSUME TypeOK, StreamInv, [Next]_vars PROVE TypeOK'
  OBVIOUS
<1>. USE DEF relay, local, history, vars
<1>1. CASE UNCHANGED vars
  BY <1>1 DEF TypeOK
<1>2. ASSUME NEW sender \in Senders, NEW type \in Types, PeerPosts(sender, type)
      PROVE  TypeOK'
  <2>1. Cardinality(stream) + 1 \in Seqs
    BY <1>2, DeliveryAssumption DEF PeerPosts, StreamInv, Seqs
  <2>2. stream' \subseteq Message
    BY <1>2, <2>1 DEF PeerPosts, TypeOK, Message
  <2>. QED
    BY <1>2, <2>2 DEF PeerPosts, TypeOK
<1>3. CASE Tick
  BY <1>3, DeliveryAssumption DEF Tick, TypeOK
<1>4. ASSUME NEW p \in Refreshers, Ask(p)
      PROVE  TypeOK'
  <2>1. [at |-> "asked", from |-> watermark, seen |-> seen] \in HookType
    BY DEF TypeOK, HookType
  <2>2. hook' \in [Refreshers -> HookType]
    BY <1>4, <2>1 DEF Ask, TypeOK, HookType
  <2>3. marker' \in BOOLEAN
    BY <1>4 DEF Ask, TypeOK
  <2>. QED
    BY <1>4, <2>2, <2>3 DEF Ask, TypeOK, HookType
<1>5. ASSUME NEW p \in Refreshers, NEW state \in {"stored", "pushed"},
             hook' = [hook EXCEPT ![p] = [at |-> state]]
      PROVE  hook' \in [Refreshers -> HookType]
  <2>1. [at |-> state] \in HookType
    BY DEF HookType
  <2>. QED
    BY <1>5, <2>1 DEF TypeOK, HookType
<1>6. ASSUME NEW p \in Refreshers, hook' = [hook EXCEPT ![p] = Idle]
      PROVE  hook' \in [Refreshers -> HookType]
  BY <1>6 DEF TypeOK, HookType
<1>7. ASSUME NEW p \in Refreshers, Store(p)
      PROVE  TypeOK'
  <2>1. hook[p].from \in Nat
    BY <1>7, AskedFrom, DeliveryAssumption DEF Store
  <2>. DEFINE got == {x.seq : x \in Accepted(p)}
  <2>2. got \in SUBSET Seqs /\ DeriveCursor(p) \in Seqs \cup {None}
    BY <2>1, AcceptedSeqs
  <2>3. digest' = [items |-> got, next |-> DeriveCursor(p)] /\ fetched' = fetched \cup got
    BY <1>7 DEF Store
  <2>. HIDE DEF got
  <2>4. digest' \in [items : SUBSET Seqs, next : Seqs \cup {None}] /\ fetched' \subseteq Seqs
    BY <2>2, <2>3 DEF TypeOK
  <2>5. hook' \in [Refreshers -> HookType]
    BY <1>5, <1>7 DEF Store
  <2>6. marker' \in BOOLEAN
    BY <1>7 DEF Store, TypeOK
  <2>. QED
    BY <1>7, <2>4, <2>5, <2>6 DEF Store, TypeOK, HookType
<1>8. ASSUME NEW p \in Refreshers, Unreachable(p)
      PROVE  TypeOK'
  <2>1. hook' \in [Refreshers -> HookType] /\ marker' \in BOOLEAN
    BY <1>5, <1>8 DEF Unreachable, TypeOK
  <2>. QED
    BY <1>8, <2>1 DEF Unreachable, TypeOK, HookType
<1>9. ASSUME NEW p \in Refreshers, Push(p)
      PROVE  TypeOK'
  <2>1. hook' \in [Refreshers -> HookType]
    BY <1>5, <1>9 DEF Push
  <2>2. cursor' \in 0..MaxSeq
    BY <1>9 DEF Push, Pushed, Later, TypeOK
  <2>. QED
    BY <1>9, <2>1, <2>2 DEF Push, TypeOK, HookType
<1>10. ASSUME NEW p \in Refreshers, Acknowledge(p) \/ EndRefresh(p)
       PROVE  TypeOK'
  <2>1. hook' \in [Refreshers -> HookType]
    BY <1>6, <1>10 DEF Acknowledge, EndRefresh
  <2>2. commitDue' \in BOOLEAN
    BY <1>10 DEF Acknowledge, EndRefresh, FlagUnpushed, TypeOK
  <2>. QED
    BY <1>10, <2>1, <2>2 DEF Acknowledge, EndRefresh, TypeOK, HookType
<1>11. CASE ContextStart
  <2>1. hook' \in [Refreshers -> HookType] /\ marker' \in BOOLEAN
    BY <1>5, <1>11 DEF ContextStart, Refreshers
  <2>. QED
    BY <1>11, <2>1 DEF ContextStart, TypeOK, HookType
<1>12. ASSUME NEW count \in 1..InjectCap, Show(count)
       PROVE  TypeOK'
  <2>1. Consumed(digest.items, count) \subseteq digest.items /\ digest.items \in SUBSET Seqs
    BY DEF Consumed, Top, TypeOK
  <2>2. turn' \in TurnType /\ seen' \subseteq Seqs
    BY <1>12, <2>1 DEF Show, TypeOK, TurnType
  <2>3. rendered' \in [Seqs -> 0..2]
    <3>1. \A n \in Seqs : Lesser(2, rendered[n] + 1) \in 0..2 /\ rendered[n] \in 0..2
      BY DEF TypeOK, Lesser
    <3>. QED
      BY <1>12, <3>1 DEF Show
  <2>. QED
    BY <1>12, <2>2, <2>3 DEF Show, TypeOK, TurnType
<1>13. CASE Carry
  <2>1. turn.carried \in SUBSET Seqs
    BY <1>13 DEF Carry, TypeOK, Idle
  <2>2. digest.next \in Seqs \cup {None} /\ digest' \in [items : SUBSET Seqs, next : Seqs \cup {None}]
    BY <1>13, <2>1 DEF Carry, Carried, TypeOK
  <2>3. turn' \in TurnType
    BY <1>13, <2>2 DEF Carry, TurnType
  <2>. QED
    BY <1>13, <2>2, <2>3 DEF Carry, TypeOK, TurnType
<1>14. CASE Advance
  <2>1. turn.next \in Seqs \cup {None}
    BY <1>14 DEF Advance, TypeOK, Idle
  <2>2. watermark' \in 0..MaxSeq
    BY <1>14, <2>1 DEF Advance, TypeOK, Seqs
  <2>3. turn' \in TurnType
    BY <1>14 DEF Advance, TurnType
  <2>. QED
    BY <1>14, <2>2, <2>3 DEF Advance, TypeOK, TurnType
<1>15. CASE RaiseFlag
  BY <1>15 DEF RaiseFlag, TypeOK
<1>16. ASSUME NEW p \in Killable, Kill(p)
       PROVE  TypeOK'
  <2>1. hook' \in [Refreshers -> HookType] /\ turn' \in TurnType
    BY <1>6, <1>16 DEF Kill, TypeOK, TurnType, HookType
  <2>. QED
    BY <1>16, <2>1 DEF Kill, TypeOK, TurnType, HookType
<1>17. CASE MarkerStale
  BY <1>17 DEF MarkerStale, TypeOK
<1>. QED
  BY <1>1, <1>2, <1>3, <1>4, <1>7, <1>8, <1>9, <1>10, <1>11, <1>12, <1>13, <1>14, <1>15, <1>16,
     <1>17 DEF Next, Refresh, GoOn, Prompt, Submit, Consume

(* The files, the hooks and the turn keep their shapes. *)
THEOREM DeliveryTypes == Spec => [](TypeOK /\ StreamInv)
<1>1. Init => TypeOK /\ StreamInv
  BY TypeInit, StreamInit
<1>2. TypeOK /\ StreamInv /\ [Next]_vars => (TypeOK /\ StreamInv)'
  BY TypeStep, StreamStep
<1>. QED
  BY <1>1, <1>2, PTL DEF Spec

-----------------------------------------------------------------------------
(* The steps that move the watermark or the relay's cursor.                *)
LEMMA WatermarkSteps ==
  [Next]_vars => watermark' = watermark \/ (Advance /\ turn.next # None /\ turn.next > watermark
                                                    /\ watermark' = turn.next)
  BY DEF Next, vars, local, PeerPosts, Tick, Refresh, GoOn, Ask, Store, Unreachable, Push, Acknowledge,
     EndRefresh, ContextStart, Prompt, Submit, Consume, Show, Carry, Advance, Ahead, RaiseFlag, Kill, MarkerStale

LEMMA CursorSteps ==
  [Next]_vars => cursor' = cursor \/ (watermark' = watermark /\ cursor' = Later(watermark, cursor))
  BY DEF Next, vars, local, PeerPosts, Tick, Refresh, GoOn, Ask, Store, Unreachable, Push, Pushed,
     Acknowledge, EndRefresh, ContextStart, Prompt, Submit, Consume, Show, Carry, Advance, RaiseFlag, Kill,
     MarkerStale

(* The consumed watermark never goes back. *)
THEOREM WatermarkNeverBack == Spec => WatermarkForward
<1>1. TypeOK /\ [Next]_vars => [watermark' >= watermark]_vars
  <2>. SUFFICES ASSUME TypeOK, [Next]_vars PROVE watermark' >= watermark
    OBVIOUS
  <2>1. watermark \in Nat
    BY DeliveryAssumption DEF TypeOK
  <2>2. Advance => turn.next \in Int
    BY DeliveryAssumption DEF Advance, TypeOK, Idle, None, Seqs
  <2>. QED
    BY <2>1, <2>2, WatermarkSteps
<1>. QED
  BY <1>1, DeliveryTypes, PTL DEF Spec, WatermarkForward

(* The relay's cursor stays behind it. *)
THEOREM RelayStaysBehind == Spec => []RelayFollows
<1>1. Init => RelayFollows
  BY DEF Init, RelayFollows
<1>2. TypeOK /\ RelayFollows /\ [Next]_vars /\ [watermark' >= watermark]_vars => RelayFollows'
  <2>. SUFFICES ASSUME TypeOK, RelayFollows, [Next]_vars, [watermark' >= watermark]_vars
                PROVE  RelayFollows'
    OBVIOUS
  <2>1. watermark \in Nat /\ cursor \in Nat
    BY DeliveryAssumption DEF TypeOK
  <2>2. watermark' = watermark \/ (watermark' > watermark /\ watermark' \in Int)
    <3>1. Advance => turn.next \in Int
      BY DeliveryAssumption DEF Advance, TypeOK, Idle, None, Seqs
    <3>. QED
      BY <3>1, WatermarkSteps
  <2>. QED
    BY <2>1, <2>2, CursorSteps DEF RelayFollows, Later
<1>. QED
  BY <1>1, <1>2, DeliveryTypes, WatermarkNeverBack, PTL DEF Spec, WatermarkForward

-----------------------------------------------------------------------------
(* The cursors on their way to the watermark are of messages some refresh  *)
(* accepted: the digest's, and the one a turn has read from it.            *)
CursorsFetched ==
  /\ digest.next \in {None} \cup fetched
  /\ turn.at = "carried" => turn.next \in {None} \cup fetched
  /\ WatermarkWasFetched

(* What a step makes of them.                                              *)
LEMMA CursorsFetchedStep ==
  TypeOK /\ StreamInv /\ CursorsFetched /\ [Next]_vars => CursorsFetched'
<1>. SUFFICES ASSUME TypeOK, StreamInv, CursorsFetched, [Next]_vars PROVE CursorsFetched'
  OBVIOUS
<1>1. ASSUME NEW p \in Refreshers, Store(p)
      PROVE  CursorsFetched'
  <2>. DEFINE got == {x.seq : x \in Accepted(p)}
  <2>1. hook[p].from \in Nat
    BY <1>1, AskedFrom, DeliveryAssumption DEF Store
  <2>2. DeriveCursor(p) \in {None} \cup got
    BY <2>1, AcceptedSeqs
  <2>3. /\ digest'.next = DeriveCursor(p) /\ fetched' = fetched \cup got
        /\ turn' = turn /\ watermark' = watermark
    BY <1>1 DEF Store
  <2>. HIDE DEF got
  <2>. QED
    BY <2>2, <2>3 DEF CursorsFetched, WatermarkWasFetched
<1>2. CASE Carry
  BY <1>2 DEF Carry, CursorsFetched, WatermarkWasFetched, local, history, TypeOK
<1>3. CASE Advance
  <2>1. turn.next \in {None} \cup fetched
    BY <1>3 DEF Advance, CursorsFetched
  <2>. QED
    BY <1>3, <2>1 DEF Advance, CursorsFetched, WatermarkWasFetched, history, Idle
<1>4. CASE /\ digest' = digest /\ fetched' = fetched /\ watermark' = watermark
           /\ turn' = turn \/ turn'.at # "carried"
  BY <1>4 DEF CursorsFetched, WatermarkWasFetched
<1>5. \/ \E p \in Refreshers : Store(p)
      \/ Carry \/ Advance
      \/ /\ digest' = digest /\ fetched' = fetched /\ watermark' = watermark
         /\ turn' = turn \/ turn'.at # "carried"
  BY DEF Next, vars, local, history, PeerPosts, Tick, Refresh, GoOn, Ask, Unreachable, Push, Acknowledge,
     EndRefresh, ContextStart, Prompt, Submit, Consume, Show, RaiseFlag, Kill, MarkerStale, Idle
<1>. QED
  BY <1>1, <1>2, <1>3, <1>4, <1>5

(* The watermark is never past what was accepted into a digest. *)
THEOREM WatermarkOnlyFetched == Spec => []WatermarkWasFetched
<1>1. Init => CursorsFetched
  BY DEF Init, CursorsFetched, WatermarkWasFetched, Idle
<1>2. CursorsFetched => WatermarkWasFetched
  BY DEF CursorsFetched
<1>. QED
  BY <1>1, <1>2, CursorsFetchedStep, DeliveryTypes, PTL DEF Spec

-----------------------------------------------------------------------------
(* What a reader may rely on as long as hooks run one at a time and a turn *)
(* that has printed its block comes to its end.                            *)
Unhurried == ~Overlapping /\ "UserPromptSubmit" \notin Killable

(* A turn under way is alone. *)
TurnsAlone == turn # Idle => \A p \in Refreshers : hook[p] = Idle

(* The steps that change nothing of what the reader has: they start a      *)
(* refresh, end one, or are somebody else's.                               *)
Aside ==
  /\ UNCHANGED <<cursor, local, turn, history>>
  /\ \A p \in Refreshers :
       \/ hook'[p] = hook[p]
       \/ hook'[p].at \in {"idle", "stored"}
       \/ hook'[p] = [at |-> "asked", from |-> watermark, seen |-> seen]

LEMMA ReaderSteps ==
  ASSUME TypeOK, Unhurried, [Next]_vars
  PROVE  \/ Aside
         \/ \E p \in Refreshers : Store(p) \/ Push(p) \/ Acknowledge(p) \/ EndRefresh(p)
         \/ \E count \in 1..InjectCap : Show(count)
         \/ Carry \/ Advance \/ RaiseFlag
<1>. USE DEF relay, local, history
<1>1. hook \in [Refreshers -> HookType]
  BY DEF TypeOK, HookType
<1>2. CASE UNCHANGED vars \/ MarkerStale \/ Tick
           \/ \E sender \in Senders, type \in Types : PeerPosts(sender, type)
  BY <1>2 DEF vars, MarkerStale, Tick, PeerPosts, Aside
<1>3. ASSUME NEW p \in Refreshers, Ask(p) \/ Unreachable(p)
      PROVE  Aside
  BY <1>1, <1>3 DEF Ask, Unreachable, Aside
<1>4. CASE ContextStart
  BY <1>1, <1>4 DEF ContextStart, Aside, Refreshers
<1>5. ASSUME NEW p \in Killable, Kill(p)
      PROVE  Aside
  BY <1>1, <1>5 DEF Kill, Unhurried, Aside, Idle
<1>. QED
  BY <1>2, <1>3, <1>4, <1>5 DEF Next, Refresh, GoOn, Prompt, Submit, Consume

LEMMA TurnsAloneStep ==
  Unhurried /\ TypeOK /\ TurnsAlone /\ [Next]_vars => TurnsAlone'
<1>. SUFFICES ASSUME Unhurried, TypeOK, TurnsAlone, [Next]_vars PROVE TurnsAlone'
  OBVIOUS
<1>. USE DEF relay, local, history
<1>1. hook \in [Refreshers -> HookType]
  BY DEF TypeOK, HookType
<1>2. CASE UNCHANGED vars \/ MarkerStale \/ Tick
           \/ \E sender \in Senders, type \in Types : PeerPosts(sender, type)
  BY <1>2 DEF vars, MarkerStale, Tick, PeerPosts, TurnsAlone
<1>3. ASSUME NEW p \in Refreshers, Ask(p) \/ ContextStart PROVE TurnsAlone'
  BY <1>3 DEF Ask, ContextStart, MayStart, AllQuiet, Unhurried, TurnsAlone
<1>4. ASSUME NEW p \in Refreshers, GoOn(p) PROVE TurnsAlone'
  BY <1>4 DEF GoOn, Unreachable, Push, Acknowledge, EndRefresh, Store, TurnsAlone, Idle
<1>5. ASSUME NEW count \in 1..InjectCap, Show(count) PROVE TurnsAlone'
  BY <1>5 DEF Show, MayStart, AllQuiet, Unhurried, TurnsAlone
<1>6. CASE Consume
  BY <1>6 DEF Consume, Carry, Advance, RaiseFlag, TurnsAlone, Idle
<1>7. ASSUME NEW p \in Killable, Kill(p) PROVE TurnsAlone'
  BY <1>1, <1>7 DEF Kill, Unhurried, TurnsAlone
<1>. QED
  BY <1>2, <1>3, <1>4, <1>5, <1>6, <1>7 DEF Next, Refresh, Prompt, Submit, Refreshers

(* A push that the relay has taken is of the watermark of now. *)
LagKnown ==
  /\ LagIsFlagged
  /\ \A p \in Refreshers : hook[p].at = "pushed" => cursor >= watermark

LEMMA LagKnownStep ==
  Unhurried /\ TypeOK /\ TurnsAlone /\ LagKnown /\ [Next]_vars => LagKnown'
<1>. SUFFICES ASSUME Unhurried, TypeOK, TurnsAlone, LagKnown, [Next]_vars PROVE LagKnown'
  OBVIOUS
<1>. USE DEF relay, local, history
<1>1. hook \in [Refreshers -> HookType] /\ watermark \in Nat /\ cursor \in Nat
  BY DeliveryAssumption DEF TypeOK, HookType
<1>2. CASE Aside
  BY <1>2 DEF Aside, LagKnown, LagIsFlagged
<1>3. ASSUME NEW p \in Refreshers, Store(p) PROVE LagKnown'
  BY <1>1, <1>3 DEF Store, LagKnown, LagIsFlagged
<1>4. ASSUME NEW p \in Refreshers, Push(p) PROVE LagKnown'
  <2>1. cursor' >= watermark'
    BY <1>1, <1>4 DEF Push, Pushed, Later
  <2>. QED
    BY <1>1, <1>4, <2>1 DEF Push, LagKnown, LagIsFlagged
<1>5. ASSUME NEW p \in Refreshers, Acknowledge(p) \/ EndRefresh(p) PROVE LagKnown'
  BY <1>1, <1>5 DEF Acknowledge, EndRefresh, FlagUnpushed, LagKnown, LagIsFlagged, Idle
<1>6. ASSUME NEW count \in 1..InjectCap, Show(count) PROVE LagKnown'
  BY <1>6 DEF Show, LagKnown, LagIsFlagged, Idle
<1>7. CASE Carry
  BY <1>7 DEF Carry, LagKnown, LagIsFlagged
<1>8. CASE Advance \/ RaiseFlag
  <2>1. \A p \in Refreshers : hook[p] = Idle /\ hook'[p] = Idle
    BY <1>8 DEF Advance, RaiseFlag, TurnsAlone, Idle
  <2>. QED
    BY <1>8, <2>1 DEF Advance, RaiseFlag, LagKnown, LagIsFlagged, Idle
<1>. QED
  BY <1>2, <1>3, <1>4, <1>5, <1>6, <1>7, <1>8, ReaderSteps

(* While hooks run one at a time, a relay that lags behind the watermark   *)
(* is never forgotten: the flag of the next push is up, or about to go up  *)
(* (advanceWatermark, commitPendingCursor).                                 *)
THEOREM LagIsAlwaysFlagged == Unhurried => (Spec => []LagIsFlagged)
<1>. SUFFICES ASSUME Unhurried PROVE Spec => []LagIsFlagged
  OBVIOUS
<1>1. Init => TurnsAlone /\ LagKnown
  BY DEF Init, TurnsAlone, LagKnown, LagIsFlagged, Idle
<1>2. LagKnown => LagIsFlagged
  BY DEF LagKnown
<1>3. TypeOK /\ TurnsAlone /\ [Next]_vars => TurnsAlone'
  BY TurnsAloneStep
<1>4. TypeOK /\ TurnsAlone /\ LagKnown /\ [Next]_vars => LagKnown'
  BY LagKnownStep
<1>. QED
  BY <1>1, <1>2, <1>3, <1>4, DeliveryTypes, PTL DEF Spec

-----------------------------------------------------------------------------
(* What was rendered is in the dedupe memory, and nothing on its way to a  *)
(* block is: neither in the digest, nor in what a turn carries over.  A    *)
(* refresh under way has read the memory as it is.                         *)
Remembered ==
  /\ \A n \in Seqs : rendered[n] \in 0..1 /\ (rendered[n] > 0 <=> n \in seen)
  /\ turn.at = "shown" => turn.carried \cap seen = {}
  /\ turn.at # "shown" => digest.items \cap seen = {}
  /\ \A p \in Refreshers : hook[p].at = "asked" => hook[p].seen = seen

LEMMA RememberedStep ==
  Unhurried /\ TypeOK /\ TurnsAlone /\ Remembered /\ [Next]_vars => Remembered'
<1>. SUFFICES ASSUME Unhurried, TypeOK, TurnsAlone, Remembered, [Next]_vars PROVE Remembered'
  OBVIOUS
<1>. USE DEF relay, local, history
<1>1. hook \in [Refreshers -> HookType] /\ digest \in [items : SUBSET Seqs, next : Seqs \cup {None}]
  BY DEF TypeOK, HookType
<1>2. CASE Aside
  BY <1>2 DEF Aside, Remembered
<1>3. ASSUME NEW p \in Refreshers, Store(p) PROVE Remembered'
  <2>1. turn = Idle /\ hook[p].seen = seen
    BY <1>3 DEF Store, TurnsAlone, Remembered, Idle
  <2>2. \A x \in Accepted(p) : x.seq \notin seen
    BY <2>1 DEF Accepted
  <2>3. digest'.items \cap seen = {}
    BY <1>3, <2>2 DEF Store
  <2>. QED
    BY <1>1, <1>3, <2>1, <2>3 DEF Store, Remembered, Idle
<1>4. ASSUME NEW p \in Refreshers, Push(p) \/ Acknowledge(p) \/ EndRefresh(p) PROVE Remembered'
  BY <1>1, <1>4 DEF Push, Acknowledge, EndRefresh, Remembered, Idle
<1>5. ASSUME NEW count \in 1..InjectCap, Show(count) PROVE Remembered'
  <2>. DEFINE top == Top(digest.items, count)
  <2>1. top \subseteq digest.items
    BY DEF Top
  <2>2. turn = Idle /\ digest.items \cap seen = {}
    BY <1>5 DEF Show, Remembered, Idle
  <2>3. /\ rendered' = [n \in Seqs |-> IF n \in top THEN Lesser(2, rendered[n] + 1) ELSE rendered[n]]
        /\ seen' = seen \cup top /\ turn' = [at |-> "shown", carried |-> digest.items \ top]
        /\ hook' = hook /\ digest' = digest
    BY <1>5 DEF Show, Consumed
  <2>. HIDE DEF top
  <2>4. \A n \in top : n \in Seqs /\ rendered[n] = 0
    BY <1>1, <2>1, <2>2 DEF Remembered
  <2>5. \A n \in Seqs : rendered'[n] = IF n \in top THEN 1 ELSE rendered[n]
    BY <2>3, <2>4 DEF Lesser
  <2>6. \A n \in Seqs : rendered'[n] \in 0..1 /\ (rendered'[n] > 0 <=> n \in seen')
    BY <2>3, <2>5 DEF Remembered
  <2>7. turn'.at = "shown" /\ turn'.carried \cap seen' = {}
    BY <2>1, <2>2, <2>3
  <2>8. \A p \in Refreshers : hook'[p].at # "asked"
    BY <1>5, <2>3 DEF Show, MayStart, AllQuiet, Unhurried, Idle
  <2>. QED
    BY <2>6, <2>7, <2>8 DEF Remembered
<1>6. CASE Carry
  <2>1. digest'.items = turn.carried /\ turn'.at = "carried" /\ turn.at = "shown"
    BY <1>1, <1>6 DEF Carry, Carried
  <2>. QED
    BY <1>6, <2>1 DEF Carry, Remembered
<1>7. CASE Advance \/ RaiseFlag
  BY <1>7 DEF Advance, RaiseFlag, Remembered, Idle
<1>. QED
  BY <1>2, <1>3, <1>4, <1>5, <1>6, <1>7, ReaderSteps

(* While hooks run one at a time, the model is shown no message twice,     *)
(* however a refresh fails, a hook is killed or the time goes on (buildView*)
(* consumes what it shows, accept rejects what was shown).                 *)
THEOREM MessagesAreShownOnce == Unhurried => (Spec => []ShownOnce)
<1>. SUFFICES ASSUME Unhurried PROVE Spec => []ShownOnce
  OBVIOUS
<1>1. Init => TurnsAlone /\ Remembered
  BY DEF Init, TurnsAlone, Remembered, Idle
<1>2. Remembered => ShownOnce
  BY DEF Remembered, ShownOnce
<1>3. TypeOK /\ TurnsAlone /\ [Next]_vars => TurnsAlone'
  BY TurnsAloneStep
<1>4. TypeOK /\ TurnsAlone /\ Remembered /\ [Next]_vars => Remembered'
  BY RememberedStep
<1>. QED
  BY <1>1, <1>2, <1>3, <1>4, DeliveryTypes, PTL DEF Spec

-----------------------------------------------------------------------------
(* Nothing is lost where the selection skips nothing.                      *)
InOrderOf(items) == \A x, y \in items : x.sender = y.sender /\ ~IsPriorityType(x.type)

(* With one sender and no warnings a page is a prefix of what is pending.  *)
LEMMA PageIsPrefix ==
  ASSUME NEW items, Keyed(items), NEW from \in Nat, InOrderOf(items),
         NEW x \in Page(items, from), NEW y \in Pending(items, from), y.seq <= x.seq
  PROVE  y \in Page(items, from)
<1>. DEFINE pending == Pending(items, from)
            near == Candidates(items, from)
<1>1. pending \subseteq items /\ near \subseteq pending /\ Keyed(pending) /\ Keyed(near)
  BY CandidatesKeyed DEF Pending
<1>2. PriorityOf(pending) = {} /\ PriorityOf(near) = {}
  BY <1>1 DEF PriorityOf, InOrderOf
<1>3. near = Lowest(pending, Window)
  BY <1>2 DEF Candidates, Lowest
<1>4. ReservedPass(near, FetchCap, ReservedSlots) = {}
  BY <1>2 DEF ReservedPass, RoundRobin
<1>5. Page(items, from) = RoundRobin(near, FetchCap)
  <2>1. Cardinality({}) = 0 /\ FetchCap - 0 = FetchCap
    BY FS_EmptySet, SyncAssumption
  <2>2. near \ {} = near
    OBVIOUS
  <2>. HIDE DEF near
  <2>. QED
    BY <1>4, <2>1, <2>2 DEF Page, SelectFair, near
<1>6. x \in near /\ x \in pending
  BY <1>1, <1>5 DEF RoundRobin
<1>. HIDE DEF pending, near
<1>7. CASE y = x
  BY <1>7
<1>8. CASE y # x
  <2>1. y \in pending
    BY DEF pending
  <2>2. y.seq < x.seq /\ y.sender = x.sender
    BY <1>1, <1>6, <1>8, <2>1 DEF Keyed, InOrderOf
  <2>3. y \in near
    <3>. DEFINE bx == {z \in pending : z.seq < x.seq}
                by == {z \in pending : z.seq < y.seq}
    <3>1. by \subseteq bx /\ bx \subseteq pending
      BY <1>1, <1>6, <2>1, <2>2 DEF Keyed
    <3>2. Cardinality(bx) < Window
      BY <1>3, <1>6 DEF Lowest
    <3>. HIDE DEF bx, by
    <3>3. /\ Cardinality(by) <= Cardinality(bx) /\ Cardinality(bx) \in Nat
          /\ Cardinality(by) \in Nat
      BY <1>1, <3>1, FS_Subset, FS_CardinalityType DEF Keyed
    <3>4. Cardinality(by) < Window
      BY <3>2, <3>3, SyncAssumption
    <3>. QED
      BY <1>3, <2>1, <3>4 DEF Lowest, by
  <2>4. Precedes(near, y, x)
    BY <1>1, <1>6, <2>2, <2>3, RoundsGrow DEF Precedes
  <2>5. /\ Cardinality({z \in near : Precedes(near, z, y)}) \in Nat
        /\ Cardinality({z \in near : Precedes(near, z, x)}) \in Nat
        /\ Cardinality({z \in near : Precedes(near, z, y)})
             < Cardinality({z \in near : Precedes(near, z, x)})
    BY <1>1, <1>6, <2>3, <2>4, PositionsGrow
  <2>6. Cardinality({z \in near : Precedes(near, z, x)}) < FetchCap
    BY <1>5 DEF RoundRobin
  <2>. QED
    BY <1>5, <2>3, <2>5, <2>6, SyncAssumption DEF RoundRobin
<1>. QED
  BY <1>7, <1>8

(* Seqs are issued without a gap. *)
Gapless == \A n \in 1..Cardinality(stream) : \E x \in stream : x.seq = n

LEMMA GaplessStep == StreamInv /\ Gapless /\ [Next]_vars => Gapless'
<1>. SUFFICES ASSUME StreamInv, Gapless, [Next]_vars PROVE Gapless'
  OBVIOUS
<1>1. ASSUME NEW sender \in Senders, NEW type \in Types, PeerPosts(sender, type)
      PROVE  Gapless'
  <2>. DEFINE n == Cardinality(stream)
              new == [seq |-> n + 1, sender |-> sender, type |-> type, ts |-> clock]
  <2>1. n \in Nat /\ stream' = stream \cup {new} /\ new.seq = n + 1
    BY <1>1, DeliveryAssumption DEF PeerPosts, StreamInv
  <2>. HIDE DEF new
  <2>2. new \notin stream
    BY <2>1 DEF StreamInv
  <2>3. Cardinality(stream') = n + 1
    BY <2>1, <2>2, FS_AddElement DEF StreamInv
  <2>4. \A k \in 1..n : \E x \in stream : x.seq = k
    BY DEF Gapless
  <2>5. \A k \in 1..(n + 1) : \E x \in stream' : x.seq = k
    BY <2>1, <2>4
  <2>. QED
    BY <2>3, <2>5 DEF Gapless
<1>2. CASE stream' = stream
  BY <1>2 DEF Gapless
<1>3. stream' = stream \/ \E sender \in Senders, type \in Types : PeerPosts(sender, type)
  BY DEF Next, vars, relay, Tick, Refresh, GoOn, Ask, Store, Unreachable, Push, Acknowledge, EndRefresh,
     ContextStart, Prompt, Submit, Consume, Show, Carry, Advance, RaiseFlag, Kill, MarkerStale
<1>. QED
  BY <1>1, <1>2, <1>3

(* Everything up to a cursor on its way to the watermark has been shown,   *)
(* or is in the digest that brought the cursor.                            *)
NothingSkipped ==
  /\ InOrder =>
       /\ \A n \in 1..watermark : rendered[n] > 0
       /\ digest.next # None => \A n \in 1..digest.next : rendered[n] > 0 \/ n \in digest.items
       /\ turn.at = "shown" => \A n \in digest.items : rendered[n] > 0
       /\ turn.at = "carried" /\ turn.next # None => \A n \in 1..turn.next : rendered[n] > 0
  /\ \A p \in Refreshers : hook[p].at = "asked" => hook[p].from = watermark

(* No message is too old to be accepted, and no block too small.           *)
Whole == InTurn = {} /\ \A x \in stream : Fresh(x)

LEMMA InOrderOnlyEnds == [Next]_vars => (InOrder' => InOrder)
<1>1. [Next]_vars => stream \subseteq stream'
  BY DEF Next, vars, relay, PeerPosts, Tick, Refresh, GoOn, Ask, Store, Unreachable, Push, Acknowledge,
     EndRefresh, ContextStart, Prompt, Submit, Consume, Show, Carry, Advance, RaiseFlag, Kill, MarkerStale
<1>. QED
  BY <1>1 DEF InOrder

LEMMA NothingSkippedStep ==
  /\ Unhurried /\ TypeOK /\ StreamInv /\ Gapless /\ TurnsAlone /\ Remembered
  /\ Whole /\ Whole' /\ NothingSkipped /\ [Next]_vars
  => NothingSkipped'
<1>. SUFFICES ASSUME Unhurried, TypeOK, StreamInv, Gapless, TurnsAlone, Remembered, Whole, Whole',
                     NothingSkipped, [Next]_vars
              PROVE  NothingSkipped'
  OBVIOUS
<1>. USE DEF relay, local, history
<1>1. /\ hook \in [Refreshers -> HookType] /\ watermark \in 0..MaxSeq
      /\ digest \in [items : SUBSET Seqs, next : Seqs \cup {None}]
  BY DEF TypeOK, HookType
<1>2. InOrder' => InOrder
  BY InOrderOnlyEnds
<1>3. CASE Aside
  BY <1>2, <1>3 DEF Aside, NothingSkipped
<1>4. ASSUME NEW p \in Refreshers, Store(p) PROVE NothingSkipped'
  <2>1. turn = Idle /\ hook[p].seen = seen /\ hook[p].from = watermark
    BY <1>4 DEF Store, TurnsAlone, Remembered, NothingSkipped, Idle
  <2>. DEFINE got == {x.seq : x \in Accepted(p)}
  <2>2. got \in SUBSET Seqs /\ DeriveCursor(p) \in {None} \cup got
    BY <1>1, <2>1, AcceptedSeqs, DeliveryAssumption
  <2>3. /\ digest'.items = got /\ digest'.next = DeriveCursor(p)
        /\ turn' = turn /\ watermark' = watermark /\ rendered' = rendered
    BY <1>4 DEF Store
  <2>4. ASSUME InOrder, DeriveCursor(p) # None, NEW n \in 1..DeriveCursor(p)
        PROVE  rendered[n] > 0 \/ n \in got
    <3>1. PICK x \in Accepted(p) : x.seq = DeriveCursor(p)
      BY <2>2, <2>4
    <3>2. x \in Page(stream, watermark) /\ x \in stream
      BY <1>1, <2>1, <3>1, StreamIsKeyed, PageWithinCap, DeliveryAssumption DEF Accepted, Pending
    <3>3. x.seq \in 1..Cardinality(stream) /\ Cardinality(stream) \in 0..MaxSeq
      BY <3>2 DEF StreamInv
    <3>4. n \in 1..Cardinality(stream) /\ n \in Seqs
      BY <2>4, <3>1, <3>3, DeliveryAssumption DEF Seqs
    <3>5. PICK y \in stream : y.seq = n
      BY <3>4 DEF Gapless
    <3>6. CASE n <= watermark
      BY <1>1, <2>4, <3>4, <3>6 DEF NothingSkipped, Seqs
    <3>7. CASE n > watermark
      <4>1. y \in Pending(stream, watermark)
        BY <3>5, <3>7 DEF Pending
      <4>2. InOrderOf(stream) /\ y.seq <= x.seq /\ watermark \in Nat
        BY <1>1, <2>4, <3>1, <3>3, <3>5, DeliveryAssumption DEF InOrder, InOrderOf
      <4>3. y \in Page(stream, watermark)
        BY <3>2, <4>1, <4>2, StreamIsKeyed, PageIsPrefix
      <4>4. Fresh(y)
        BY DEF Whole
      <4>5. n \in seen \/ y \in Accepted(p)
        BY <2>1, <3>5, <4>3, <4>4 DEF Accepted
      <4>. QED
        BY <3>4, <3>5, <4>5 DEF Remembered
    <3>. QED
      BY <1>1, <3>4, <3>6, <3>7, DeliveryAssumption DEF Seqs
  <2>5. InOrder' =>
          /\ \A n \in 1..watermark' : rendered'[n] > 0
          /\ digest'.next # None => \A n \in 1..digest'.next : rendered'[n] > 0 \/ n \in digest'.items
    BY <1>2, <2>3, <2>4 DEF NothingSkipped
  <2>6. turn'.at = "idle"
    BY <2>1, <2>3 DEF Idle
  <2>7. \A q \in Refreshers : hook'[q].at = "asked" => hook'[q].from = watermark'
    BY <1>1, <1>4 DEF Store, NothingSkipped
  <2>. QED
    BY <2>5, <2>6, <2>7 DEF NothingSkipped
<1>5. ASSUME NEW p \in Refreshers, Push(p) \/ Acknowledge(p) \/ EndRefresh(p) PROVE NothingSkipped'
  BY <1>1, <1>2, <1>5 DEF Push, Acknowledge, EndRefresh, NothingSkipped, Idle
<1>6. ASSUME NEW count \in 1..InjectCap, Show(count) PROVE NothingSkipped'
  <2>. DEFINE top == Top(digest.items, count)
  <2>1. /\ rendered' = [n \in Seqs |-> IF n \in top THEN Lesser(2, rendered[n] + 1) ELSE rendered[n]]
        /\ turn' = [at |-> "shown", carried |-> digest.items \ top]
        /\ hook' = hook /\ digest' = digest /\ watermark' = watermark
    BY <1>6 DEF Show, Consumed
  <2>2. digest.items \subseteq top
    BY <2>1 DEF Whole, InTurn
  <2>. HIDE DEF top
  <2>3. \A n \in Seqs : rendered[n] \in 0..2 /\ (n \in top \/ rendered[n] > 0 => rendered'[n] > 0)
    BY <2>1 DEF Lesser, TypeOK
  <2>4. \A n \in digest.items : rendered'[n] > 0
    BY <1>1, <2>2, <2>3
  <2>5. \A n \in 1..watermark : n \in Seqs
    BY <1>1, DeliveryAssumption DEF Seqs
  <2>6. digest.next # None => \A n \in 1..digest.next : n \in Seqs
    BY <1>1, DeliveryAssumption DEF Seqs
  <2>. QED
    BY <1>2, <2>1, <2>3, <2>4, <2>5, <2>6 DEF NothingSkipped
<1>7. CASE Carry
  <2>1. /\ digest'.items = turn.carried /\ digest'.next = digest.next /\ turn.at = "shown"
        /\ turn'.at = "carried" /\ turn'.next = digest.next
        /\ rendered' = rendered /\ watermark' = watermark /\ hook' = hook
    BY <1>1, <1>7 DEF Carry, Carried
  <2>. QED
    BY <1>2, <2>1 DEF NothingSkipped
<1>8. CASE Advance
  <2>1. /\ watermark' = watermark \/ (turn.next # None /\ watermark' = turn.next)
        /\ turn.at = "carried" /\ turn'.at \in {"advanced", "idle"}
        /\ digest' = digest /\ rendered' = rendered /\ hook' = hook
    BY <1>8 DEF Advance, Idle
  <2>2. \A p \in Refreshers : hook'[p].at # "asked"
    BY <2>1 DEF TurnsAlone, Idle
  <2>. QED
    BY <1>2, <2>1, <2>2 DEF NothingSkipped
<1>9. CASE RaiseFlag
  BY <1>2, <1>9 DEF RaiseFlag, NothingSkipped, Idle
<1>. QED
  BY <1>3, <1>4, <1>5, <1>6, <1>7, <1>8, <1>9, ReaderSteps

(* While hooks run one at a time, blocks have room for what the digest     *)
(* holds and messages are fetched while they are fresh, the watermark      *)
(* passes nothing that was not shown (deriveCursor, advanceWatermark), if  *)
(* the selection skips nothing.                                            *)
THEOREM NothingIsLost == Unhurried => (Spec /\ []Whole => []NoneLost)
<1>. SUFFICES ASSUME Unhurried PROVE Spec /\ []Whole => []NoneLost
  OBVIOUS
<1>1. Init => TurnsAlone /\ Remembered /\ Gapless /\ NothingSkipped
  BY FS_EmptySet DEF Init, TurnsAlone, Remembered, Gapless, NothingSkipped, Idle, None
<1>2. NothingSkipped => NoneLost
  BY DEF NothingSkipped, NoneLost
<1>3. TypeOK /\ TurnsAlone /\ [Next]_vars => TurnsAlone'
  BY TurnsAloneStep
<1>4. TypeOK /\ TurnsAlone /\ Remembered /\ [Next]_vars => Remembered'
  BY RememberedStep
<1>5. /\ TypeOK /\ StreamInv /\ Gapless /\ TurnsAlone /\ Remembered
      /\ Whole /\ Whole' /\ NothingSkipped /\ [Next]_vars
      => NothingSkipped'
  BY NothingSkippedStep
<1>. QED
  BY <1>1, <1>2, <1>3, <1>4, <1>5, GaplessStep, DeliveryTypes, PTL DEF Spec

-----------------------------------------------------------------------------
(***************************************************************************)
(* The selection as it runs (FairLoop), for every input, cap and floor.    *)
(***************************************************************************)
(* Items that rank numbers apart are enumerated once each, in its order.   *)
LEMMA SortedIs ==
  ASSUME NEW S, IsFiniteSet(S), NEW rank,
         \A x \in S : rank[x] \in Nat, \A x, y \in S : rank[x] = rank[y] => x = y
  PROVE  LET n == Cardinality(S)
             before(x) == Cardinality({y \in S : rank[y] < rank[x]})
         IN  /\ n \in Nat /\ Sorted(S, rank) \in Seq(S) /\ Len(Sorted(S, rank)) = n
             /\ \A x \in S : before(x) \in 0..(n - 1) /\ Sorted(S, rank)[before(x) + 1] = x
             /\ \A k \in 1..n : /\ Sorted(S, rank)[k] \in S
                                /\ before(Sorted(S, rank)[k]) = k - 1
<1>. DEFINE n == Cardinality(S)
            below(x) == {y \in S : rank[y] < rank[x]}
            before(x) == Cardinality(below(x))
            place == [x \in S |-> before(x)]
<1>1. n \in Nat
  BY FS_CardinalityType
<1>2. ASSUME NEW x \in S PROVE IsFiniteSet(below(x)) /\ before(x) \in 0..(n - 1)
  <2>1. below(x) \in SUBSET S /\ x \notin below(x)
    OBVIOUS
  <2>. HIDE DEF below
  <2>2. /\ IsFiniteSet(below(x)) /\ before(x) \in Nat
        /\ before(x) <= n /\ before(x) # n
    BY <2>1, FS_Subset, FS_CardinalityType
  <2>. QED
    BY <1>1, <2>2
<1>3. ASSUME NEW x \in S, NEW y \in S, rank[x] < rank[y] PROVE before(x) # before(y)
  <2>1. below(x) \in SUBSET below(y) /\ x \in below(y) /\ x \notin below(x)
    BY <1>3
  <2>2. IsFiniteSet(below(y))
    BY <1>2
  <2>. HIDE DEF below
  <2>. QED
    BY <2>1, <2>2, FS_Subset
<1>4. ASSUME NEW x \in S, NEW y \in S, x # y PROVE before(x) # before(y)
  <2>1. rank[x] < rank[y] \/ rank[y] < rank[x]
    BY <1>4
  <2>. HIDE DEF before
  <2>. QED
    BY <1>3, <2>1
<1>5. ASSUME NEW k \in 1..n
      PROVE  \E x \in S : before(x) = k - 1
  <2>. HIDE DEF before
  <2>1. place \in [S -> 0..(n - 1)] /\ \A x, y \in S : x # y => place[x] # place[y]
    BY <1>2, <1>4
  <2>2. k - 1 \in 0..(n - 1)
    BY <1>1
  <2>. HIDE DEF place
  <2>3. \E x \in S : place[x] = k - 1
    BY <2>1, <2>2, PlacesHit
  <2>. QED
    BY <2>3 DEF place
<1>6. Sorted(S, rank) = [k \in 1..n |-> CHOOSE x \in S : before(x) = k - 1]
  BY DEF Sorted
<1>. HIDE DEF before
<1>7. ASSUME NEW k \in 1..n
      PROVE  Sorted(S, rank)[k] \in S /\ before(Sorted(S, rank)[k]) = k - 1
  BY <1>5, <1>6
<1>. HIDE DEF n
<1>8. Sorted(S, rank) \in Seq(S) /\ Len(Sorted(S, rank)) = n
  BY <1>1, <1>6, <1>7
<1>9. ASSUME NEW x \in S PROVE Sorted(S, rank)[before(x) + 1] = x
  <2>1. before(x) \in 0..(n - 1)
    BY <1>2 DEF before
  <2>2. before(x) + 1 \in 1..n /\ (before(x) + 1) - 1 = before(x)
    BY <1>1, <2>1
  <2>3. /\ Sorted(S, rank)[before(x) + 1] \in S
        /\ before(Sorted(S, rank)[before(x) + 1]) = before(x)
    BY <1>7, <2>2
  <2>. QED
    BY <1>4, <2>3 DEF before
<1>. QED
  BY <1>1, <1>2, <1>7, <1>8, <1>9 DEF n, before

(* A group holds its sender's items, the item of each round at its place.  *)
LEMMA GroupIs ==
  ASSUME Keyed(Pool), NEW s
  PROVE  /\ Group(s) \in Seq(SentBy(Pool, s)) /\ Len(Group(s)) \in Nat
         /\ Len(Group(s)) = Cardinality(SentBy(Pool, s))
         /\ \A x \in SentBy(Pool, s) :
              /\ Round(Pool, x) \in 0..(Len(Group(s)) - 1)
              /\ Group(s)[Round(Pool, x) + 1] = x
         /\ \A k \in 1..Len(Group(s)) : /\ Group(s)[k] \in SentBy(Pool, s)
                                        /\ Round(Pool, Group(s)[k]) = k - 1
<1>. DEFINE sent == SentBy(Pool, s)
            rank == [x \in sent |-> x.seq]
<1>1. sent \in SUBSET Pool /\ \A x \in sent : x.sender = s
  BY DEF SentBy
<1>2. Keyed(sent)
  BY <1>1, KeyedSubset
<1>3. Group(s) = Sorted(sent, rank)
  BY DEF Group
<1>4. ASSUME NEW x \in sent
      PROVE  Cardinality({y \in sent : rank[y] < rank[x]}) = Round(Pool, x)
  <2>1. {y \in sent : rank[y] < rank[x]} = {y \in SentBy(Pool, x.sender) : y.seq < x.seq}
    BY <1>1
  <2>. QED
    BY <2>1 DEF Round
<1>5. IsFiniteSet(sent) /\ \A x \in sent : rank[x] \in Nat
  BY <1>2 DEF Keyed
<1>6. \A x, y \in sent : rank[x] = rank[y] => x = y
  BY <1>2 DEF Keyed
<1>. HIDE DEF sent, rank
<1>7. /\ Cardinality(sent) \in Nat /\ Sorted(sent, rank) \in Seq(sent)
      /\ Len(Sorted(sent, rank)) = Cardinality(sent)
      /\ \A x \in sent :
           /\ Cardinality({y \in sent : rank[y] < rank[x]}) \in 0..(Cardinality(sent) - 1)
           /\ Sorted(sent, rank)[Cardinality({y \in sent : rank[y] < rank[x]}) + 1] = x
      /\ \A k \in 1..Cardinality(sent) :
           /\ Sorted(sent, rank)[k] \in sent
           /\ Cardinality({y \in sent : rank[y] < rank[Sorted(sent, rank)[k]]}) = k - 1
  BY <1>5, <1>6, SortedIs
<1>. QED
  BY <1>3, <1>4, <1>7 DEF sent

(* The first item of a group is the oldest of its sender.                  *)
LEMMA GroupStarts ==
  ASSUME Keyed(Pool), NEW x \in Pool
  PROVE  /\ Group(x.sender)[1].seq = Oldest(Pool, x.sender)
         /\ Oldest(Pool, x.sender) \in Nat
<1>. DEFINE g == Group(x.sender)[1]
<1>1. x \in SentBy(Pool, x.sender)
  BY DEF SentBy
<1>2. /\ Len(Group(x.sender)) \in Nat
      /\ Round(Pool, x) \in 0..(Len(Group(x.sender)) - 1)
  BY <1>1, GroupIs
<1>3. 1 \in 1..Len(Group(x.sender)) /\ 1 - 1 = 0
  BY <1>2
<1>4. g \in SentBy(Pool, x.sender) /\ Round(Pool, g) = 0
  BY <1>3, GroupIs
<1>5. g \in Pool /\ g.sender = x.sender
  BY <1>4 DEF SentBy
<1>6. PICK y \in Pool : y.sender = x.sender /\ y.seq = Oldest(Pool, x.sender)
  BY OldestIsLeast
<1>7. Round(Pool, y) \in Nat /\ y.seq \in Nat /\ g.seq \in Nat
  BY <1>5, RoundIsNat DEF Keyed
<1>8. y.seq <= g.seq
  BY <1>5, <1>6, OldestIsLeast
<1>. HIDE DEF g
<1>9. ~(y.seq < g.seq)
  BY <1>4, <1>5, <1>6, <1>7, RoundsGrow
<1>. QED
  BY <1>6, <1>7, <1>8, <1>9 DEF g

(* The place of a sender's group in the order in which they are visited.   *)
Seat(items, s) ==
  Cardinality({t \in {x.sender : x \in items} : Oldest(items, t) < Oldest(items, s)}) + 1

LEMMA SendersAreFinite ==
  ASSUME NEW items, Keyed(items) PROVE IsFiniteSet({x.sender : x \in items})
<1>. DEFINE f == [x \in items |-> x.sender]
<1>1. f \in Surjection(items, {x.sender : x \in items})
  BY DEF Surjection
<1>. QED
  BY <1>1, FS_Surjection DEF Keyed

LEMMA SeatIsPositive ==
  ASSUME NEW items, Keyed(items), NEW s PROVE Seat(items, s) \in Nat \ {0}
<1>. DEFINE S == {x.sender : x \in items}
            older == {t \in S : Oldest(items, t) < Oldest(items, s)}
<1>1. older \in SUBSET S
  OBVIOUS
<1>2. IsFiniteSet(S)
  BY SendersAreFinite
<1>. HIDE DEF S
<1>3. Cardinality(older) \in Nat
  BY <1>1, <1>2, FS_Subset, FS_CardinalityType
<1>. QED
  BY <1>3 DEF Seat, S

LEMMA OrderIs ==
  ASSUME Keyed(Pool)
  PROVE  /\ Len(Order) \in Nat
         /\ \A x \in Pool : /\ Seat(Pool, x.sender) \in 1..Len(Order)
                            /\ Order[Seat(Pool, x.sender)] = x.sender
         /\ \A k \in 1..Len(Order) : Order[k] \in GroupKeys /\ Seat(Pool, Order[k]) = k
<1>. DEFINE rank == [s \in GroupKeys |-> Group(s)[1].seq]
<1>1. ASSUME NEW s \in GroupKeys
      PROVE  /\ rank[s] = Oldest(Pool, s) /\ rank[s] \in Nat
             /\ \E y \in Pool : y.sender = s /\ y.seq = rank[s]
  <2>1. PICK x \in Pool : s = x.sender
    BY DEF GroupKeys
  <2>. QED
    BY <2>1, GroupStarts, OldestIsLeast
<1>2. ASSUME NEW s \in GroupKeys, NEW t \in GroupKeys, rank[s] = rank[t] PROVE s = t
  <2>. HIDE DEF rank
  <2>. QED
    BY <1>1, <1>2 DEF Keyed
<1>3. Order = Sorted(GroupKeys, rank)
  BY DEF Order
<1>. HIDE DEF rank
<1>4. ASSUME NEW s \in GroupKeys
      PROVE  Cardinality({t \in GroupKeys : rank[t] < rank[s]}) + 1 = Seat(Pool, s)
  <2>1. {t \in GroupKeys : rank[t] < rank[s]}
          = {t \in GroupKeys : Oldest(Pool, t) < Oldest(Pool, s)}
    BY <1>1
  <2>. QED
    BY <2>1 DEF Seat, GroupKeys
<1>5. /\ Cardinality(GroupKeys) \in Nat /\ Len(Order) = Cardinality(GroupKeys)
      /\ \A s \in GroupKeys :
           /\ Cardinality({t \in GroupKeys : rank[t] < rank[s]}) \in 0..(Cardinality(GroupKeys) - 1)
           /\ Order[Cardinality({t \in GroupKeys : rank[t] < rank[s]}) + 1] = s
      /\ \A k \in 1..Cardinality(GroupKeys) :
           /\ Order[k] \in GroupKeys
           /\ Cardinality({t \in GroupKeys : rank[t] < rank[Order[k]]}) = k - 1
  <2>1. IsFiniteSet(GroupKeys) /\ \A s \in GroupKeys : rank[s] \in Nat
    BY <1>1, SendersAreFinite DEF GroupKeys
  <2>2. \A s, t \in GroupKeys : rank[s] = rank[t] => s = t
    BY <1>2
  <2>3. LET n == Cardinality(GroupKeys)
            before(x) == Cardinality({y \in GroupKeys : rank[y] < rank[x]})
        IN  /\ n \in Nat /\ Len(Sorted(GroupKeys, rank)) = n
            /\ \A x \in GroupKeys :
                 before(x) \in 0..(n - 1) /\ Sorted(GroupKeys, rank)[before(x) + 1] = x
            /\ \A k \in 1..n : /\ Sorted(GroupKeys, rank)[k] \in GroupKeys
                               /\ before(Sorted(GroupKeys, rank)[k]) = k - 1
    BY <2>1, <2>2, SortedIs
  <2>. QED
    BY <1>3, <2>3
<1>6. ASSUME NEW s \in GroupKeys PROVE Seat(Pool, s) \in 1..Len(Order) /\ Order[Seat(Pool, s)] = s
  <2>. DEFINE before == Cardinality({t \in GroupKeys : rank[t] < rank[s]})
  <2>1. /\ before \in 0..(Cardinality(GroupKeys) - 1) /\ Order[before + 1] = s
        /\ before + 1 = Seat(Pool, s)
    BY <1>4, <1>5
  <2>. HIDE DEF before
  <2>2. before + 1 \in 1..Len(Order)
    BY <1>5, <2>1
  <2>. QED
    BY <2>1, <2>2
<1>7. \A x \in Pool : x.sender \in GroupKeys
  BY DEF GroupKeys
<1>8. ASSUME NEW k \in 1..Len(Order) PROVE Order[k] \in GroupKeys /\ Seat(Pool, Order[k]) = k
  <2>1. Order[k] \in GroupKeys /\ Cardinality({t \in GroupKeys : rank[t] < rank[Order[k]]}) = k - 1
    BY <1>5
  <2>2. Seat(Pool, Order[k]) = (k - 1) + 1
    BY <1>4, <2>1
  <2>. QED
    BY <2>1, <2>2
<1>. QED
  BY <1>5, <1>6, <1>7, <1>8

LEMMA OlderSitsFirst ==
  ASSUME NEW items, Keyed(items), NEW x \in items, NEW y \in items,
         Oldest(items, x.sender) < Oldest(items, y.sender)
  PROVE  Seat(items, x.sender) < Seat(items, y.sender)
<1>. DEFINE S == {z.sender : z \in items}
            bx == {t \in S : Oldest(items, t) < Oldest(items, x.sender)}
            by == {t \in S : Oldest(items, t) < Oldest(items, y.sender)}
<1>1. \A t \in S : Oldest(items, t) \in Nat
  BY OldestIsLeast
<1>2. IsFiniteSet(S)
  BY SendersAreFinite
<1>3. x.sender \in S /\ y.sender \in S
  OBVIOUS
<1>4. Seat(items, x.sender) = Cardinality(bx) + 1 /\ Seat(items, y.sender) = Cardinality(by) + 1
  BY DEF Seat
<1>. HIDE DEF S
<1>5. bx \in SUBSET by /\ x.sender \in by /\ x.sender \notin bx
  BY <1>1, <1>3
<1>6. IsFiniteSet(by) /\ IsFiniteSet(bx)
  BY <1>2, FS_Subset
<1>. HIDE DEF bx, by
<1>. QED
  BY <1>4, <1>5, <1>6, FS_Subset, FS_CardinalityType

-----------------------------------------------------------------------------
(* A set that nothing outside it precedes, and that has the budget's size  *)
(* or is everything, is what the round robin selects.                      *)
LEMMA PrefixIsRoundRobin ==
  ASSUME NEW items, Keyed(items), NEW budget \in Nat, NEW prefix \in SUBSET items,
         \A x \in prefix, y \in items : Precedes(items, y, x) => y \in prefix,
         Cardinality(prefix) <= budget,
         Cardinality(prefix) = budget \/ prefix = items
  PROVE  prefix = RoundRobin(items, budget)
<1>. DEFINE before(x) == {y \in items : Precedes(items, y, x)}
<1>1. IsFiniteSet(prefix) /\ Cardinality(prefix) \in Nat
  BY FS_Subset, FS_CardinalityType DEF Keyed
<1>2. ASSUME NEW x \in items PROVE IsFiniteSet(before(x)) /\ Cardinality(before(x)) \in Nat
  BY FS_Subset, FS_CardinalityType DEF Keyed
<1>3. ASSUME NEW x \in prefix PROVE Cardinality(before(x)) < budget
  <2>1. before(x) \in SUBSET prefix /\ x \in prefix /\ x \notin before(x)
    BY PrecedesIsStrict
  <2>2. Cardinality(before(x)) \in Nat
    BY <1>2
  <2>. HIDE DEF before
  <2>. QED
    BY <1>1, <2>1, <2>2, FS_Subset
<1>4. ASSUME NEW x \in items, x \notin prefix PROVE ~(Cardinality(before(x)) < budget)
  <2>1. Cardinality(prefix) = budget
    BY <1>4
  <2>2. prefix \in SUBSET before(x)
    <3>1. ASSUME NEW y \in prefix PROVE Precedes(items, y, x)
      BY <1>4, PrecedesIsTotal
    <3>. QED
      BY <3>1
  <2>3. IsFiniteSet(before(x)) /\ Cardinality(before(x)) \in Nat
    BY <1>2
  <2>. HIDE DEF before
  <2>. QED
    BY <1>1, <2>1, <2>2, <2>3, FS_Subset
<1>5. RoundRobin(items, budget) = {x \in items : Cardinality(before(x)) < budget}
  BY DEF RoundRobin
<1>. HIDE DEF before
<1>. QED
  BY <1>3, <1>4, <1>5

-----------------------------------------------------------------------------
(* What a pass has pushed when the group at place i of round r is next: the *)
(* earlier rounds, and of this one the items of the groups before.         *)
Given(items, r, i) ==
  {x \in items : \/ Round(items, x) < r
                 \/ Round(items, x) = r /\ Seat(items, x.sender) < i}

LEMMA GivenIsClosed ==
  ASSUME NEW items, Keyed(items), NEW r \in Nat, NEW i \in Nat,
         NEW x \in Given(items, r, i), NEW y \in items, Precedes(items, y, x)
  PROVE  y \in Given(items, r, i)
<1>1. x \in items
  BY DEF Given
<1>2. /\ Round(items, x) \in Nat /\ Round(items, y) \in Nat
      /\ Seat(items, x.sender) \in Nat /\ Seat(items, y.sender) \in Nat
  BY <1>1, RoundIsNat, SeatIsPositive
<1>3. CASE Round(items, y) < Round(items, x)
  BY <1>2, <1>3 DEF Given
<1>4. CASE Round(items, y) = Round(items, x) /\ Seat(items, y.sender) < Seat(items, x.sender)
  BY <1>2, <1>4 DEF Given
<1>. QED
  BY <1>1, <1>3, <1>4, OlderSitsFirst DEF Precedes

LEMMA GivenStarts ==
  ASSUME NEW items, Keyed(items) PROVE Given(items, 0, 1) = {}
<1>1. \A x \in items : Round(items, x) \in Nat /\ Seat(items, x.sender) \in Nat \ {0}
  BY RoundIsNat, SeatIsPositive
<1>. QED
  BY <1>1 DEF Given

(* What is chosen between the passes, and the items, the order and the     *)
(* number of what the pass under way has pushed.                           *)
Chosen ==
  CASE pass = "reserved" -> {}
    [] pass = "fair" -> ReservedPass(candidates, cap, reserved)
    [] OTHER -> SelectFair(candidates, cap, reserved)

PassInv ==
  LET given == Given(Pool, round, index)
  IN  /\ out \in Seq(Pool) /\ ToSet(out) = given
      /\ Len(out) = Cardinality(given) /\ Len(out) <= Budget
      /\ progressed \/ \A x \in given : Round(Pool, x) # round

LoopInv ==
  /\ Keyed(candidates) /\ cap \in Nat /\ reserved \in Nat
  /\ pass \in {"reserved", "fair", "done"}
  /\ round \in Nat /\ index \in Nat \ {0}
  /\ chosen = Chosen
  /\ pass # "done" => PassInv

LEMMA InputsAreKeyed == \A items \in Inputs : Keyed(items)
<1>. SUFFICES ASSUME NEW n \in 0..MaxCandidates, NEW f \in [1..n -> Senders \X Types]
              PROVE  Keyed({[seq |-> i, sender |-> f[i][1], type |-> f[i][2]] : i \in 1..n})
  BY DEF Inputs
<1>. DEFINE items == {[seq |-> i, sender |-> f[i][1], type |-> f[i][2]] : i \in 1..n}
            item == [i \in 1..n |-> [seq |-> i, sender |-> f[i][1], type |-> f[i][2]]]
<1>1. n \in Nat
  BY FairLoopAssumption
<1>2. item \in Surjection(1..n, items)
  BY DEF Surjection
<1>3. IsFiniteSet(1..n)
  BY <1>1, FS_Interval
<1>4. IsFiniteSet(items)
  BY <1>2, <1>3, FS_Surjection
<1>5. \A x \in items : x.seq \in Nat
  BY <1>1
<1>6. \A x, y \in items : x.seq = y.seq => x = y
  OBVIOUS
<1>. HIDE DEF items
<1>7. Keyed(items)
  BY <1>4, <1>5, <1>6 DEF Keyed
<1>. QED
  BY <1>7 DEF items

(* Whatever the pass, its items are keyed and its budget is no less than 0. *)
LEMMA FloorWithin ==
  ASSUME NEW items, Keyed(items), NEW slots \in Nat, NEW reserve \in Nat
  PROVE  /\ ReservedPass(items, slots, reserve) \subseteq items
         /\ IsFiniteSet(ReservedPass(items, slots, reserve))
         /\ Cardinality(ReservedPass(items, slots, reserve)) \in 0..slots
<1>1. PriorityOf(items) \in SUBSET items
  BY DEF PriorityOf
<1>2. Keyed(PriorityOf(items))
  BY <1>1, KeyedSubset
<1>3. Lesser(reserve, slots) \in Nat /\ Lesser(reserve, slots) <= slots
  BY DEF Lesser
<1>. HIDE DEF PriorityOf
<1>4. LET floor == RoundRobin(PriorityOf(items), Lesser(reserve, slots))
      IN  /\ floor \subseteq PriorityOf(items) /\ IsFiniteSet(floor)
          /\ Cardinality(floor) \in Nat /\ Cardinality(floor) <= Lesser(reserve, slots)
  BY <1>2, <1>3, RoundRobinWithinBudget
<1>. QED
  BY <1>1, <1>3, <1>4 DEF ReservedPass

LEMMA PoolIs ==
  ASSUME LoopInv, pass # "done"
  PROVE  Keyed(Pool) /\ Budget \in Nat
<1>. USE DEF LoopInv, Chosen
<1>1. CASE pass = "reserved"
  <2>1. Pool \in SUBSET candidates
    BY DEF Pool, PriorityOf
  <2>2. Budget \in Nat
    BY <1>1 DEF Budget, Lesser
  <2>. QED
    BY <2>1, <2>2, KeyedSubset
<1>2. CASE pass = "fair"
  <2>1. Pool \in SUBSET candidates
    BY <1>2 DEF Pool
  <2>2. Cardinality(chosen) \in 0..cap
    BY <1>2, FloorWithin
  <2>3. Budget \in Nat
    BY <1>2, <2>2 DEF Budget
  <2>. QED
    BY <2>1, <2>3, KeyedSubset
<1>. QED
  BY <1>1, <1>2

LEMMA LoopStarts ==
  Keyed(candidates) /\ cap \in Nat /\ reserved \in Nat /\ LoopStart => LoopInv
<1>. SUFFICES ASSUME Keyed(candidates), cap \in Nat, reserved \in Nat, LoopStart PROVE LoopInv
  OBVIOUS
<1>1. Pool \in SUBSET candidates
  BY DEF Pool, PriorityOf
<1>2. Given(Pool, round, index) = {}
  BY <1>1, KeyedSubset, GivenStarts DEF LoopStart
<1>3. Budget \in Nat
  BY DEF LoopStart, Budget, Lesser
<1>4. out = <<>> /\ Len(out) = 0 /\ ToSet(out) = {} /\ out \in Seq(Pool)
  BY DEF LoopStart, ToSet
<1>5. PassInv
  BY <1>2, <1>3, <1>4, FS_EmptySet DEF PassInv
<1>. QED
  BY <1>5 DEF LoopInv, LoopStart, Chosen

(* The group at its turn gives its item of the round, or has none.         *)
LEMMA VisitStep == LoopInv /\ Visit => LoopInv'
<1>. SUFFICES ASSUME LoopInv, Visit PROVE LoopInv'
  OBVIOUS
<1>. DEFINE s == Order[index]
            given == Given(Pool, round, index)
<1>1. /\ pass # "done" /\ pass' = pass /\ chosen' = chosen
      /\ candidates' = candidates /\ cap' = cap /\ reserved' = reserved
      /\ round' = round /\ index' = index + 1
  BY DEF Visit, args
<1>2. Pool' = Pool /\ Budget' = Budget
  BY <1>1 DEF Pool, Budget
<1>3. Keyed(Pool) /\ Budget \in Nat
  BY <1>1, PoolIs
<1>4. round \in Nat /\ index \in Nat \ {0} /\ PassInv
  BY <1>1 DEF LoopInv
<1>5. Len(Order) \in Nat
  BY <1>3, OrderIs
<1>6. index \in 1..Len(Order)
  BY <1>4, <1>5 DEF Visit
<1>7. \A x \in Pool : Seat(Pool, x.sender) = index <=> x.sender = s
  BY <1>3, <1>6, OrderIs
<1>8. \A x \in Pool : Round(Pool, x) \in Nat /\ Seat(Pool, x.sender) \in Nat
  BY <1>3, RoundIsNat, SeatIsPositive
<1>9. Given(Pool, round, index + 1)
        = given \cup {x \in Pool : Round(Pool, x) = round /\ x.sender = s}
  BY <1>4, <1>7, <1>8 DEF Given
<1>10. IsFiniteSet(given)
  <2>1. given \in SUBSET Pool
    BY DEF Given
  <2>. QED
    BY <1>3, <2>1, FS_Subset DEF Keyed
<1>11. Len(out) < Budget /\ out \in Seq(Pool)
  BY <1>4 DEF Visit, PassInv
<1>12. PassInv'
  <2>. HIDE DEF s
  <2>1. /\ Group(s) \in Seq(SentBy(Pool, s)) /\ Len(Group(s)) \in Nat
        /\ \A x \in SentBy(Pool, s) :
              /\ Round(Pool, x) \in 0..(Len(Group(s)) - 1)
              /\ Group(s)[Round(Pool, x) + 1] = x
        /\ \A k \in 1..Len(Group(s)) : /\ Group(s)[k] \in SentBy(Pool, s)
                                       /\ Round(Pool, Group(s)[k]) = k - 1
    BY <1>3, GroupIs
  <2>2. CASE Len(Group(s)) > round
    <3>. DEFINE x == Group(s)[round + 1]
    <3>1. out' = Append(out, x) /\ progressed' = TRUE
      BY <2>2 DEF Visit, Visited, s
    <3>2. x \in SentBy(Pool, s) /\ Round(Pool, x) = round
      <4>1. round + 1 \in 1..Len(Group(s)) /\ (round + 1) - 1 = round
        BY <1>4, <2>1, <2>2
      <4>. QED
        BY <2>1, <4>1
    <3>3. x \in Pool /\ x.sender = s
      BY <3>2 DEF SentBy
    <3>4. ASSUME NEW y \in Pool, Round(Pool, y) = round, y.sender = s PROVE y = x
      <4>1. y \in SentBy(Pool, s)
        BY <3>4 DEF SentBy
      <4>. QED
        BY <2>1, <3>4, <4>1
    <3>5. x \notin given
      BY <1>4, <1>7, <3>2, <3>3 DEF Given
    <3>. HIDE DEF x
    <3>6. Given(Pool, round, index + 1) = given \cup {x}
      BY <1>9, <3>2, <3>3, <3>4
    <3>7. Cardinality(given \cup {x}) = Cardinality(given) + 1
      BY <1>10, <3>5, FS_AddElement
    <3>8. /\ out' \in Seq(Pool) /\ Len(out') = Len(out) + 1
          /\ ToSet(out') = ToSet(out) \cup {x}
      BY <1>11, <3>1, <3>3 DEF ToSet
    <3>. HIDE DEF given
    <3>9. Given(Pool, round, index)' = Given(Pool, round, index + 1)
      BY <1>1, <1>2
    <3>10. out \in Seq(Pool) /\ ToSet(out) = given /\ Len(out) = Cardinality(given)
      BY <1>4 DEF PassInv, given
    <3>11. ToSet(out') = given \cup {x} /\ Len(out') = Cardinality(given \cup {x})
      BY <3>7, <3>8, <3>10
    <3>12. Len(out') <= Budget
      BY <1>3, <1>11, <3>8
    <3>. QED
      BY <1>2, <3>1, <3>6, <3>8, <3>9, <3>11, <3>12 DEF PassInv
  <2>3. CASE ~(Len(Group(s)) > round)
    <3>1. out' = out /\ progressed' = progressed
      BY <2>3 DEF Visit, Visited, s
    <3>2. ASSUME NEW y \in Pool, Round(Pool, y) = round, y.sender = s PROVE FALSE
      <4>1. y \in SentBy(Pool, s)
        BY <3>2 DEF SentBy
      <4>. QED
        BY <1>4, <2>1, <2>3, <3>2, <4>1
    <3>3. Given(Pool, round, index + 1) = given
      BY <1>9, <3>2
    <3>. QED
      BY <1>1, <1>2, <1>4, <3>1, <3>3 DEF PassInv
  <2>. QED
    BY <2>2, <2>3
<1>13. Keyed(candidates)' /\ chosen' = Chosen'
  BY <1>1 DEF LoopInv, Chosen
<1>. QED
  BY <1>1, <1>4, <1>12, <1>13 DEF LoopInv

(* A round that all groups have had their turn in is wholly given.         *)
LEMMA RoundOver ==
  ASSUME LoopInv, pass # "done", index > Len(Order)
  PROVE  Given(Pool, round, index) = {x \in Pool : Round(Pool, x) <= round}
<1>1. Keyed(Pool)
  BY PoolIs
<1>2. \A x \in Pool : Round(Pool, x) \in Nat /\ Seat(Pool, x.sender) < index
  BY <1>1, RoundIsNat, OrderIs DEF LoopInv
<1>. QED
  BY <1>2 DEF Given, LoopInv

LEMMA NextRoundStep == LoopInv /\ NextRound => LoopInv'
<1>. SUFFICES ASSUME LoopInv, NextRound PROVE LoopInv'
  OBVIOUS
<1>1. /\ pass # "done" /\ pass' = pass /\ chosen' = chosen /\ out' = out
      /\ candidates' = candidates /\ cap' = cap /\ reserved' = reserved
      /\ round' = round + 1 /\ index' = 1 /\ index > Len(Order)
  BY DEF NextRound, args
<1>2. Pool' = Pool /\ Budget' = Budget
  BY <1>1 DEF Pool, Budget
<1>3. Keyed(Pool) /\ round \in Nat /\ PassInv
  BY <1>1, PoolIs DEF LoopInv
<1>4. Given(Pool, round, index) = {x \in Pool : Round(Pool, x) <= round}
  BY <1>1, RoundOver
<1>5. \A x \in Pool : Round(Pool, x) \in Nat /\ Seat(Pool, x.sender) \in Nat \ {0}
  BY <1>3, RoundIsNat, SeatIsPositive
<1>6. Given(Pool, round + 1, 1) = {x \in Pool : Round(Pool, x) <= round}
  BY <1>3, <1>5 DEF Given
<1>7. Given(Pool, round, index)' = Given(Pool, round, index)
  BY <1>1, <1>2, <1>4, <1>6
<1>8. \A x \in Given(Pool, round, index) : Round(Pool, x) # round + 1
  BY <1>3, <1>4, <1>5
<1>9. PassInv'
  BY <1>1, <1>2, <1>3, <1>7, <1>8 DEF PassInv
<1>10. Keyed(candidates)' /\ chosen' = Chosen'
  BY <1>1 DEF LoopInv, Chosen
<1>. QED
  BY <1>1, <1>3, <1>9, <1>10 DEF LoopInv

(* The rounds of a sender follow each other without a gap.                 *)
LEMMA RoundsFollow ==
  ASSUME NEW items, Keyed(items), NEW x \in items, NEW r \in 0..Round(items, x)
  PROVE  \E y \in SentBy(items, x.sender) : Round(items, y) = r
<1>. DEFINE sent == SentBy(items, x.sender)
            place == [y \in sent |-> Round(items, y)]
<1>1. sent \in SUBSET items /\ x \in sent /\ \A y \in sent : y.sender = x.sender
  BY DEF SentBy
<1>2. IsFiniteSet(sent) /\ Cardinality(sent) \in Nat
  BY <1>1, FS_Subset, FS_CardinalityType DEF Keyed
<1>3. ASSUME NEW y \in sent PROVE Round(items, y) \in 0..(Cardinality(sent) - 1)
  <2>. DEFINE earlier == {z \in sent : z.seq < y.seq}
  <2>1. Round(items, y) = Cardinality(earlier)
    BY <1>1 DEF Round
  <2>2. earlier \in SUBSET sent /\ y \notin earlier
    BY <1>1 DEF Keyed
  <2>. HIDE DEF earlier, sent
  <2>3. /\ Cardinality(earlier) \in Nat /\ Cardinality(earlier) <= Cardinality(sent)
        /\ Cardinality(earlier) # Cardinality(sent)
    BY <1>2, <2>2, FS_Subset, FS_CardinalityType
  <2>. QED
    BY <1>2, <2>1, <2>3
<1>4. ASSUME NEW y \in sent, NEW z \in sent, y # z PROVE Round(items, y) # Round(items, z)
  <2>1. y \in items /\ z \in items /\ y.sender = z.sender
    BY <1>1
  <2>2. y.seq < z.seq \/ z.seq < y.seq
    BY <1>4, <2>1 DEF Keyed
  <2>3. Round(items, y) < Round(items, z) \/ Round(items, z) < Round(items, y)
    BY <2>1, <2>2, RoundsGrow
  <2>. QED
    BY <2>1, <2>3, RoundIsNat
<1>5. r \in 0..(Cardinality(sent) - 1)
  BY <1>1, <1>2, <1>3
<1>. HIDE DEF sent
<1>6. place \in [sent -> 0..(Cardinality(sent) - 1)] /\ \A y, z \in sent : y # z => place[y] # place[z]
  BY <1>3, <1>4
<1>. HIDE DEF place
<1>7. \E y \in sent : place[y] = r
  BY <1>2, <1>5, <1>6, PlacesHit
<1>. QED
  BY <1>7 DEF place, sent

(* A round that gave nothing was past the last.                            *)
LEMMA EmptyRoundIsLast ==
  ASSUME NEW items, Keyed(items), NEW r \in Nat, \A x \in items : Round(items, x) # r,
         NEW x \in items
  PROVE  Round(items, x) < r
<1>1. Round(items, x) \in Nat
  BY RoundIsNat
<1>2. ASSUME NEW y \in SentBy(items, x.sender) PROVE Round(items, y) # r
  BY DEF SentBy
<1>. QED
  BY <1>1, <1>2, RoundsFollow

(* At its end a pass has pushed the first items of the round robin.        *)
LEMMA PassSelects ==
  ASSUME LoopInv, EndPass
  PROVE  ToSet(out) = RoundRobin(Pool, Budget)
<1>. DEFINE given == Given(Pool, round, index)
<1>1. pass # "done" /\ (Len(out) >= Budget \/ (index > Len(Order) /\ ~progressed))
  BY DEF EndPass
<1>2. Keyed(Pool) /\ Budget \in Nat /\ round \in Nat /\ index \in Nat
  BY <1>1, PoolIs DEF LoopInv
<1>3. /\ ToSet(out) = given /\ Len(out) = Cardinality(given)
      /\ Len(out) \in Nat /\ Len(out) <= Budget
      /\ progressed \/ \A x \in given : Round(Pool, x) # round
  BY <1>1 DEF LoopInv, PassInv
<1>4. given \in SUBSET Pool
  BY DEF Given
<1>5. \A x \in given, y \in Pool : Precedes(Pool, y, x) => y \in given
  BY <1>2, GivenIsClosed
<1>6. Cardinality(given) = Budget \/ given = Pool
  <2>1. CASE Len(out) >= Budget
    BY <1>2, <1>3, <2>1
  <2>2. CASE index > Len(Order) /\ ~progressed
    <3>1. given = {x \in Pool : Round(Pool, x) <= round}
      BY <1>1, <2>2, RoundOver
    <3>. HIDE DEF given
    <3>2. \A x \in Pool : Round(Pool, x) # round
      BY <1>2, <1>3, <2>2, <3>1
    <3>3. \A x \in Pool : Round(Pool, x) < round
      BY <1>2, <3>2, EmptyRoundIsLast
    <3>. QED
      BY <1>2, <3>1, <3>3, RoundIsNat
  <2>. QED
    BY <1>1, <2>1, <2>2
<1>. HIDE DEF given
<1>. QED
  BY <1>2, <1>3, <1>4, <1>5, <1>6, PrefixIsRoundRobin

LEMMA EndPassStep == LoopInv /\ EndPass => LoopInv'
<1>. SUFFICES ASSUME LoopInv, EndPass PROVE LoopInv'
  OBVIOUS
<1>. USE DEF LoopInv
<1>1. /\ pass # "done" /\ pass' = IF pass = "reserved" THEN "fair" ELSE "done"
      /\ candidates' = candidates /\ cap' = cap /\ reserved' = reserved
      /\ out' = <<>> /\ round' = 0 /\ index' = 1 /\ progressed' = FALSE
      /\ chosen' = chosen \cup RoundRobin(Pool, Budget)
  BY PassSelects DEF EndPass, args
<1>2. CASE pass = "reserved"
  <2>1. Pool = PriorityOf(candidates) /\ Budget = Lesser(reserved, cap) /\ chosen = {}
    BY <1>2 DEF Pool, Budget, Chosen
  <2>2. chosen' = ReservedPass(candidates, cap, reserved)
    BY <1>1, <2>1 DEF ReservedPass
  <2>3. Cardinality(chosen') \in 0..cap
    BY <2>2, FloorWithin
  <2>4. Budget' \in Nat
    BY <1>1, <1>2, <2>3 DEF Budget
  <2>5. Pool' \in SUBSET candidates
    BY <1>1, <1>2 DEF Pool
  <2>6. Given(Pool', 0, 1) = {}
    BY <2>5, KeyedSubset, GivenStarts
  <2>7. out' = <<>> /\ Len(out') = 0 /\ ToSet(out') = {} /\ out' \in Seq(Pool')
    BY <1>1 DEF ToSet
  <2>8. Given(Pool, round, index)' = {}
    BY <1>1, <2>6
  <2>9. PassInv'
    BY <2>4, <2>7, <2>8, FS_EmptySet DEF PassInv
  <2>10. chosen' = Chosen'
    BY <1>1, <1>2, <2>2 DEF Chosen
  <2>. QED
    BY <1>1, <1>2, <2>9, <2>10
<1>3. CASE pass = "fair"
  <2>1. /\ Pool = candidates \ chosen /\ Budget = cap - Cardinality(chosen)
        /\ chosen = ReservedPass(candidates, cap, reserved)
    BY <1>3 DEF Pool, Budget, Chosen
  <2>2. chosen' = SelectFair(candidates, cap, reserved)
    BY <1>1, <2>1 DEF SelectFair
  <2>3. chosen' = Chosen'
    BY <1>1, <1>3, <2>2 DEF Chosen
  <2>. QED
    BY <1>1, <1>3, <2>3
<1>. QED
  BY <1>1, <1>2, <1>3

LEMMA LoopSteps == LoopInv /\ [LoopNext]_loopVars => LoopInv'
<1>. SUFFICES ASSUME LoopInv, [LoopNext]_loopVars PROVE LoopInv'
  OBVIOUS
<1>1. CASE UNCHANGED loopVars
  BY <1>1 DEF loopVars, LoopInv, PassInv, Pool, Budget, Chosen
<1>. QED
  BY <1>1, VisitStep, NextRoundStep, EndPassStep DEF LoopNext

LEMMA LoopHolds == LoopSpec => []LoopInv
<1>1. LoopInit => Keyed(candidates) /\ cap \in Nat /\ reserved \in Nat /\ LoopStart
  BY InputsAreKeyed, FairLoopAssumption DEF LoopInit
<1>. QED
  BY <1>1, LoopStarts, LoopSteps, PTL DEF LoopSpec

(* Run group by group and round by round, selectFair answers exactly the   *)
(* selection the page of a sync is stated with, for any number of          *)
(* candidates and senders, any cap and any floor.                          *)
THEOREM LoopChoosesFairly == LoopSpec => []ChoosesFairly
<1>1. LoopInv => ChoosesFairly
  BY DEF LoopInv, ChoosesFairly, Chosen, Done
<1>. QED
  BY <1>1, LoopHolds, PTL

(* The page of a sync is what the loop chooses of the candidates that      *)
(* #sync reads, whatever their seqs.                                       *)
THEOREM PageIsTheLoops ==
  ASSUME NEW posts, Keyed(posts), NEW from \in Nat
  PROVE  /\ LoopStart /\ [][LoopNext]_loopVars
         /\ candidates = Candidates(posts, from) /\ cap = FetchCap /\ reserved = ReservedSlots
         => [](Done => chosen = Page(posts, from))
<1>. DEFINE Asked == /\ candidates = Candidates(posts, from)
                     /\ cap = FetchCap /\ reserved = ReservedSlots
<1>1. Asked /\ LoopStart => LoopInv
  BY CandidatesKeyed, SyncAssumption, LoopStarts
<1>2. Asked /\ [LoopNext]_loopVars => Asked'
  BY DEF LoopNext, Visit, NextRound, EndPass, args, loopVars
<1>3. Asked /\ LoopInv => (Done => chosen = Page(posts, from))
  BY DEF LoopInv, Chosen, Done, Page
<1>. HIDE DEF Asked
<1>4. Asked /\ LoopStart /\ [][LoopNext]_loopVars => [](Done => chosen = Page(posts, from))
  BY <1>1, <1>2, <1>3, LoopSteps, PTL
<1>. QED
  BY <1>4 DEF Asked

(* If a message of s is left over, every sender has had all its rounds but *)
(* one up to the last that anyone was given.                               *)
LEMMA RoundRobinBuriesNobody ==
  ASSUME NEW items, Keyed(items), NEW budget \in Nat, NEW s, NEW t,
         NEW z \in SentBy(items, s), z \notin RoundRobin(items, budget)
  PROVE  Cardinality(SentBy(RoundRobin(items, budget), t))
           <= Cardinality(SentBy(RoundRobin(items, budget), s)) + 1
<1>. DEFINE taken == RoundRobin(items, budget)
            mine == SentBy(taken, s)
            theirs == SentBy(taken, t)
<1>1. taken \in SUBSET items /\ IsFiniteSet(taken)
  BY RoundRobinWithinBudget
<1>2. ASSUME NEW x \in taken, NEW y \in items, Precedes(items, y, x) PROVE y \in taken
  <2>. DEFINE n(u) == Cardinality({v \in items : Precedes(items, v, u)})
  <2>1. x \in items /\ n(x) < budget
    BY DEF RoundRobin
  <2>2. n(y) \in Nat /\ n(x) \in Nat /\ n(y) < n(x)
    BY <1>2, <2>1, PositionsGrow
  <2>3. n(y) < budget
    BY <2>1, <2>2
  <2>. QED
    BY <2>3 DEF RoundRobin
<1>. HIDE DEF taken
<1>3. /\ mine \in SUBSET taken /\ theirs \in SUBSET taken
      /\ \A x \in mine : x.sender = s
      /\ \A x \in theirs : x.sender = t
  BY DEF SentBy
<1>4. /\ IsFiniteSet(mine) /\ Cardinality(mine) \in Nat
      /\ IsFiniteSet(theirs) /\ Cardinality(theirs) \in Nat
  BY <1>1, <1>3, FS_Subset, FS_CardinalityType
<1>5. z \in items /\ z.sender = s /\ z \notin taken
  BY DEF SentBy, taken
<1>6. ASSUME theirs = {} PROVE Cardinality(theirs) <= Cardinality(mine) + 1
  <2>. HIDE DEF theirs, mine
  <2>. QED
    BY <1>4, <1>6, FS_EmptySet
<1>7. ASSUME theirs # {} PROVE Cardinality(theirs) <= Cardinality(mine) + 1
  <2>1. PICK x \in theirs : \A y \in theirs : Round(items, y) <= Round(items, x)
    <3>. DEFINE rounds == {Round(items, y) : y \in theirs}
    <3>1. \A y \in theirs : Round(items, y) \in 0..Cardinality(items)
      <4>1. ASSUME NEW y \in items PROVE Round(items, y) \in 0..Cardinality(items)
        <5>. DEFINE earlier == {v \in SentBy(items, y.sender) : v.seq < y.seq}
        <5>1. earlier \in SUBSET items /\ Round(items, y) = Cardinality(earlier)
          BY DEF SentBy, Round
        <5>. HIDE DEF earlier
        <5>. QED
          BY <5>1, FS_Subset, FS_CardinalityType DEF Keyed
      <4>. QED
        BY <1>1, <1>3, <4>1
    <3>2. rounds \in SUBSET (0..Cardinality(items)) /\ rounds # {}
      BY <1>7, <3>1
    <3>3. Cardinality(items) \in Nat
      BY FS_CardinalityType DEF Keyed
    <3>. HIDE DEF rounds
    <3>4. PICK m \in rounds : \A k \in rounds : k <= m
      BY <3>2, <3>3, GreatestNatural
    <3>. QED
      BY <3>4 DEF rounds
  <2>2. x \in taken /\ x \in items /\ x.sender = t
    BY <1>1, <1>3, <2>1
  <2>3. Round(items, x) \in Nat /\ Round(items, z) \in Nat
    BY <1>5, <2>2, RoundIsNat
  <2>4. Cardinality(theirs) <= Round(items, x) + 1
    <3>. DEFINE earlier == {y \in SentBy(items, x.sender) : y.seq < x.seq}
    <3>1. ASSUME NEW y \in theirs, y # x PROVE y \in earlier
      <4>1. y \in items /\ y.sender = x.sender
        BY <1>1, <1>3, <2>2
      <4>2. y.seq \in Nat /\ x.seq \in Nat /\ y.seq # x.seq
        BY <2>2, <3>1, <4>1 DEF Keyed
      <4>3. ~(x.seq < y.seq)
        BY <2>1, <2>2, <2>3, <4>1, RoundIsNat, RoundsGrow
      <4>. QED
        BY <4>1, <4>2, <4>3 DEF SentBy
    <3>2. earlier \in SUBSET items /\ Round(items, x) = Cardinality(earlier)
      BY DEF SentBy, Round
    <3>3. x \notin earlier
      BY <2>2 DEF Keyed
    <3>. HIDE DEF earlier, mine, theirs
    <3>4. IsFiniteSet(earlier)
      BY <3>2, FS_Subset DEF Keyed
    <3>5. theirs \in SUBSET (earlier \cup {x})
      BY <3>1
    <3>6. /\ IsFiniteSet(earlier \cup {x})
          /\ Cardinality(earlier \cup {x}) = Cardinality(earlier) + 1
      BY <3>3, <3>4, FS_AddElement
    <3>. QED
      BY <3>2, <3>5, <3>6, FS_Subset
  <2>5. Round(items, x) <= Cardinality(mine)
    <3>1. Round(items, x) <= Round(items, z)
      BY <1>2, <1>5, <2>2, <2>3 DEF Precedes
    <3>2. PICK w \in SentBy(items, s) : Round(items, w) = Round(items, x)
      BY <1>5, <2>3, <3>1, RoundsFollow
    <3>3. w \in items /\ w.sender = s
      BY <3>2 DEF SentBy
    <3>. DEFINE earlier == {y \in SentBy(items, w.sender) : y.seq < w.seq}
    <3>4. Round(items, w) = Cardinality(earlier)
      BY DEF Round
    <3>5. ASSUME NEW y \in earlier PROVE y \in mine
      <4>1. y \in items /\ y.sender = w.sender /\ y.seq < w.seq
        BY DEF SentBy
      <4>2. Round(items, y) < Round(items, x)
        BY <3>2, <3>3, <4>1, RoundsGrow
      <4>3. y \in taken
        BY <1>2, <2>2, <4>1, <4>2 DEF Precedes
      <4>. QED
        BY <3>3, <4>1, <4>3 DEF SentBy
    <3>6. earlier \in SUBSET mine
      BY <3>5
    <3>. HIDE DEF earlier, mine
    <3>. QED
      BY <1>4, <3>2, <3>4, <3>6, FS_Subset
  <2>. HIDE DEF theirs, mine
  <2>. QED
    BY <1>4, <2>3, <2>4, <2>5
<1>. QED
  BY <1>6, <1>7 DEF taken

LEMMA SelectBuriesNobody ==
  ASSUME NEW items, Keyed(items), NEW slots \in Nat, NEW reserve \in Nat, NEW s, NEW t,
         ~(SentBy(items, s) \subseteq SelectFair(items, slots, reserve))
  PROVE  Cardinality(SentBy(SelectFair(items, slots, reserve) \ PriorityOf(items), t))
           <= Cardinality(SentBy(SelectFair(items, slots, reserve), s)) + 1
<1>. DEFINE floor == ReservedPass(items, slots, reserve)
            room == slots - Cardinality(floor)
            rest == RoundRobin(items \ floor, room)
            all == SelectFair(items, slots, reserve)
<1>0. floor \subseteq PriorityOf(items)
  BY DEF ReservedPass, RoundRobin
<1>1. IsFiniteSet(floor) /\ Cardinality(floor) \in 0..slots
  BY FloorWithin
<1>2. room \in Nat /\ all = floor \cup rest
  BY <1>1 DEF SelectFair
<1>. HIDE DEF room, floor, all
<1>3. Keyed(items \ floor)
  BY KeyedSubset
<1>4. rest \subseteq items \ floor /\ IsFiniteSet(rest)
  BY <1>2, <1>3, RoundRobinWithinBudget
<1>5. PICK z \in SentBy(items, s) : z \notin all
  BY DEF all
<1>6. z \in SentBy(items \ floor, s) /\ z \notin rest
  BY <1>2, <1>5 DEF SentBy
<1>7. Cardinality(SentBy(rest, t)) <= Cardinality(SentBy(rest, s)) + 1
  BY <1>2, <1>3, <1>6, RoundRobinBuriesNobody
<1>. HIDE DEF rest
<1>8. /\ SentBy(all \ PriorityOf(items), t) \in SUBSET SentBy(rest, t)
      /\ SentBy(rest, s) \in SUBSET SentBy(all, s)
      /\ SentBy(rest, t) \in SUBSET rest /\ SentBy(all, s) \in SUBSET all
  BY <1>0, <1>2 DEF SentBy
<1>9. IsFiniteSet(all)
  BY <1>1, <1>2, <1>4, FS_Union
<1>10. IsFiniteSet(SentBy(rest, t)) /\ IsFiniteSet(SentBy(all, s))
  BY <1>4, <1>8, <1>9, FS_Subset
<1>11. /\ Cardinality(SentBy(all \ PriorityOf(items), t)) \in Nat
       /\ Cardinality(SentBy(all \ PriorityOf(items), t)) <= Cardinality(SentBy(rest, t))
       /\ Cardinality(SentBy(rest, t)) \in Nat
  BY <1>8, <1>10, FS_Subset, FS_CardinalityType
<1>12. /\ Cardinality(SentBy(rest, s)) \in Nat
       /\ Cardinality(SentBy(rest, s)) <= Cardinality(SentBy(all, s))
       /\ Cardinality(SentBy(all, s)) \in Nat
  BY <1>8, <1>10, FS_Subset, FS_CardinalityType
<1>. QED
  BY <1>7, <1>11, <1>12 DEF all

(* One chatty sender does not bury another's messages: whoever has a       *)
(* message left over was given as many as anyone was given routine ones,   *)
(* but for one.                                                            *)
THEOREM LoopBuriesNobody == LoopSpec => []NobodyBuried
<1>1. LoopInv => NobodyBuried
  <2>. SUFFICES ASSUME LoopInv, Done, NEW s \in Senders, NEW t \in Senders,
                       ~(SentBy(candidates, s) \subseteq chosen)
                PROVE  Cardinality(SentBy(chosen \ PriorityOf(candidates), t))
                         <= Cardinality(SentBy(chosen, s)) + 1
    BY DEF NobodyBuried
  <2>1. /\ chosen = SelectFair(candidates, cap, reserved)
        /\ Keyed(candidates) /\ cap \in Nat /\ reserved \in Nat
    BY DEF LoopInv, Chosen, Done
  <2>. QED
    BY <2>1, SelectBuriesNobody
<1>. QED
  BY <1>1, LoopHolds, PTL

(* A round that gave something is the round of one of the candidates.      *)
RoundsInv ==
  /\ Cardinality(candidates) <= MaxCandidates
  /\ pass # "done" /\ progressed => \E x \in Pool : Round(Pool, x) = round

LEMMA RoundsStart == LoopInit => RoundsInv
<1>. SUFFICES ASSUME NEW n \in 0..MaxCandidates, NEW f \in [1..n -> Senders \X Types]
              PROVE  Cardinality({[seq |-> i, sender |-> f[i][1], type |-> f[i][2]] : i \in 1..n})
                       <= MaxCandidates
  BY DEF LoopInit, LoopStart, Inputs, RoundsInv
<1>. DEFINE items == {[seq |-> i, sender |-> f[i][1], type |-> f[i][2]] : i \in 1..n}
            item == [i \in 1..n |-> [seq |-> i, sender |-> f[i][1], type |-> f[i][2]]]
<1>1. n \in Nat /\ n <= MaxCandidates /\ MaxCandidates \in Nat
  BY FairLoopAssumption
<1>2. item \in Surjection(1..n, items)
  BY DEF Surjection
<1>3. IsFiniteSet(1..n) /\ Cardinality(1..n) = n
  BY <1>1, FS_Interval
<1>. HIDE DEF items
<1>4. IsFiniteSet(items) /\ Cardinality(items) <= n
  BY <1>2, <1>3, FS_Surjection
<1>. QED
  BY <1>1, <1>4, FS_CardinalityType DEF items

LEMMA RoundsStep == LoopInv /\ RoundsInv /\ [LoopNext]_loopVars => RoundsInv'
<1>. SUFFICES ASSUME LoopInv, RoundsInv, [LoopNext]_loopVars PROVE RoundsInv'
  OBVIOUS
<1>1. candidates' = candidates
  BY DEF LoopNext, Visit, NextRound, EndPass, args, loopVars
<1>2. CASE UNCHANGED loopVars
  BY <1>1, <1>2 DEF RoundsInv, loopVars, Pool
<1>3. CASE NextRound \/ EndPass
  BY <1>1, <1>3 DEF RoundsInv, NextRound, EndPass
<1>4. CASE Visit
  <2>1. pass # "done" /\ Pool' = Pool /\ round' = round /\ pass' = pass
    BY <1>4 DEF Visit, Pool, args
  <2>2. Keyed(Pool) /\ round \in Nat
    BY <2>1, PoolIs DEF LoopInv
  <2>3. CASE Len(Group(Order[index])) > round
    <3>. DEFINE s == Order[index]
    <3>1. Len(Group(s)) \in Nat
      BY <2>2, GroupIs
    <3>2. round + 1 \in 1..Len(Group(s)) /\ (round + 1) - 1 = round
      BY <2>2, <2>3, <3>1
    <3>. HIDE DEF s
    <3>3. Group(s)[round + 1] \in SentBy(Pool, s) /\ Round(Pool, Group(s)[round + 1]) = round
      BY <2>2, <3>2, GroupIs
    <3>. QED
      BY <1>1, <2>1, <3>3 DEF RoundsInv, SentBy
  <2>4. CASE ~(Len(Group(Order[index])) > round)
    <3>1. progressed' = progressed
      BY <1>4, <2>4 DEF Visit, Visited
    <3>. QED
      BY <1>1, <2>1, <3>1 DEF RoundsInv
  <2>. QED
    BY <2>3, <2>4
<1>. QED
  BY <1>2, <1>3, <1>4 DEF LoopNext

(* The bound of the model on rounds ends no loop that the code would go on *)
(* with: a round that follows one that gave something is within it.        *)
THEOREM RoundsNeverRunOut ==
  LoopSpec => [](pass # "done" /\ progressed => round < MaxCandidates)
<1>1. LoopInv /\ RoundsInv => (pass # "done" /\ progressed => round < MaxCandidates)
  <2>. SUFFICES ASSUME LoopInv, RoundsInv, pass # "done", progressed
                PROVE  round < MaxCandidates
    OBVIOUS
  <2>1. Keyed(Pool) /\ Keyed(candidates)
    BY PoolIs DEF LoopInv
  <2>2. PICK x \in Pool : Round(Pool, x) = round
    BY DEF RoundsInv
  <2>. DEFINE earlier == {y \in SentBy(Pool, x.sender) : y.seq < x.seq}
  <2>3. earlier \in SUBSET candidates /\ x \in candidates /\ x \notin earlier
    BY <2>1 DEF SentBy, Pool, PriorityOf, Keyed
  <2>4. round = Cardinality(earlier)
    BY <2>2 DEF Round
  <2>. HIDE DEF earlier
  <2>5. /\ Cardinality(earlier) \in Nat /\ Cardinality(candidates) \in Nat
        /\ Cardinality(earlier) <= Cardinality(candidates)
        /\ Cardinality(earlier) # Cardinality(candidates)
    BY <2>1, <2>3, FS_Subset, FS_CardinalityType DEF Keyed
  <2>. QED
    BY <2>4, <2>5, FairLoopAssumption DEF RoundsInv
<1>. QED
  BY <1>1, LoopHolds, RoundsStart, RoundsStep, PTL DEF LoopSpec
=============================================================================
