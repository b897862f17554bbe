----------------------------- MODULE OutboxProofs -----------------------------
(***************************************************************************)
(* Proofs about the posting half of a client, for any commands, hooks,     *)
(* items, cap and bindings.                                                *)
(***************************************************************************)
EXTENDS Outbox, SequenceTheorems, FiniteSetTheorems, TLAPS

(***************************************************************************)
(* The sweep: the entries that are left keep their order and their fields. *)
(***************************************************************************)
Rank(K, k) == Cardinality({i \in K : i <= k})

(* Numbers of a finite set are ranked from 1 on, and the rank is strictly  *)
(* monotone.                                                               *)
LEMMA RankGrows ==
  ASSUME NEW n \in Nat, NEW K \in SUBSET (1..n)
  PROVE  /\ IsFiniteSet(K)
         /\ Cardinality(K) \in 0..n
         /\ \A k \in K : Rank(K, k) \in 1..Cardinality(K)
         /\ \A j, k \in K : j < k => Rank(K, j) < Rank(K, k)
<1>1. IsFiniteSet(1..n) /\ Cardinality(1..n) = n
  BY FS_Interval
<1>2. IsFiniteSet(K) /\ Cardinality(K) <= n
  BY <1>1, FS_Subset
<1>3. Cardinality(K) \in 0..n
  BY <1>2, FS_CardinalityType
<1>. DEFINE Below(k) == {i \in K : i <= k}
<1>4. \A k \in K : IsFiniteSet(Below(k)) /\ Cardinality(Below(k)) \in 1..Cardinality(K)
  <2>. TAKE k \in K
  <2>1. Below(k) \subseteq K /\ k \in Below(k)
    OBVIOUS
  <2>2. IsFiniteSet(Below(k)) /\ Cardinality(Below(k)) <= Cardinality(K)
    BY <1>2, <2>1, FS_Subset
  <2>3. Cardinality(Below(k)) \in Nat /\ Cardinality(Below(k)) # 0
    BY <2>1, <2>2, FS_CardinalityType, FS_EmptySet
  <2>. HIDE DEF Below
  <2>. QED
    BY <1>3, <2>2, <2>3
<1>5. \A j, k \in K : j < k => Cardinality(Below(j)) < Cardinality(Below(k))
  <2>. SUFFICES ASSUME NEW j \in K, NEW k \in K, j < k
                PROVE  Cardinality(Below(j)) < Cardinality(Below(k))
    OBVIOUS
  <2>1. j \in Int /\ k \in Int /\ \A i \in K : i \in Int
    OBVIOUS
  <2>2. Below(j) \subseteq Below(k) /\ Below(j) # Below(k)
    <3>1. /\ k \in Below(k) /\ k \notin Below(j)
          /\ \A i \in K : i <= j => i <= k
      BY <2>1
    <3>. QED
      BY <3>1
  <2>3. /\ Cardinality(Below(j)) <= Cardinality(Below(k))
        /\ Cardinality(Below(j)) # Cardinality(Below(k))
    BY <1>4, <2>2, FS_Subset
  <2>. HIDE DEF Below
  <2>. QED
    BY <1>3, <1>4, <2>3
<1>. QED
  BY <1>2, <1>3, <1>4, <1>5 DEF Rank

(* Nth is the inverse of the rank: it counts K out in order.               *)
LEMMA NthCounts ==
  ASSUME NEW n \in Nat, NEW K \in SUBSET (1..n)
  PROVE  /\ Cardinality(K) \in 0..n
         /\ \A j \in 1..Cardinality(K) : Nth(K, j) \in K
         /\ \A i, j \in 1..Cardinality(K) : i < j => Nth(K, i) < Nth(K, j)
         /\ \A k \in K : \E j \in 1..Cardinality(K) : Nth(K, j) = k
<1>. DEFINE c == Cardinality(K)
            rank == [k \in K |-> Rank(K, k)]
<1>1. c \in 0..n /\ IsFiniteSet(K)
  BY RankGrows
<1>2. \A k \in K : Rank(K, k) \in 1..c
  BY RankGrows
<1>3. \A j, k \in K : j < k => Rank(K, j) < Rank(K, k)
  BY RankGrows
<1>. HIDE DEF c
<1>4. \A j, k \in K : Rank(K, j) = Rank(K, k) => j = k
  <2>. SUFFICES ASSUME NEW j \in K, NEW k \in K, j # k PROVE Rank(K, j) # Rank(K, k)
    OBVIOUS
  <2>1. Rank(K, j) \in Nat /\ Rank(K, k) \in Nat
    BY <1>1, <1>2
  <2>2. j < k \/ k < j
    OBVIOUS
  <2>. QED
    BY <1>3, <2>1, <2>2
<1>5. rank \in Injection(K, 1..c)
  BY <1>2, <1>4 DEF Injection, IsInjective
<1>6. IsFiniteSet(1..c) /\ Cardinality(1..c) = c
  BY <1>1, FS_Interval
<1>7. rank \in Surjection(K, 1..c)
  BY <1>5, <1>6, FS_Injection DEF c
<1>8. \A j \in 1..c : \E k \in K : Rank(K, k) = j
  BY <1>7 DEF Surjection
<1>9. \A j \in 1..c : Nth(K, j) \in K /\ Rank(K, Nth(K, j)) = j
  BY <1>8 DEF Nth, Rank
<1>10. \A k \in K : Nth(K, Rank(K, k)) = k
  BY <1>2, <1>4, <1>9
<1>11. ASSUME NEW i \in 1..c, NEW j \in 1..c, i < j PROVE Nth(K, i) < Nth(K, j)
  <2>1. Nth(K, i) \in 1..n /\ Nth(K, j) \in 1..n
    BY <1>9
  <2>2. Nth(K, i) # Nth(K, j)
    BY <1>9, <1>11
  <2>3. ~(Nth(K, j) < Nth(K, i))
    <3>1. Nth(K, j) < Nth(K, i) => j < i
      BY <1>3, <1>9
    <3>. QED
      BY <1>1, <1>11, <3>1
  <2>. QED
    BY <2>1, <2>2, <2>3
<1>. QED
  BY <1>1, <1>2, <1>9, <1>10, <1>11 DEF c

(***************************************************************************)
(* What the operations on a queue do to its entries.                       *)
(***************************************************************************)
LEMMA ItemsAre ==
  ASSUME NEW S, NEW entries \in Seq(S)
  PROVE  \A i : i \in ItemsOf(entries) <=> \E k \in 1..Len(entries) : entries[k].item = i
  BY DEF ItemsOf, ToSet

(* One sequence holds what another holds, in its order, with gaps.         *)
Thins(new, old) ==
  \E m \in [1..Len(new) -> 1..Len(old)] :
    /\ \A j \in 1..Len(new) : new[j] = old[m[j]]
    /\ \A i, j \in 1..Len(new) : i < j => m[i] < m[j]

LEMMA ThinsSelf == ASSUME NEW S, NEW a \in Seq(S) PROVE Thins(a, a)
<1>. DEFINE m == [j \in 1..Len(a) |-> j]
<1>1. m \in [1..Len(a) -> 1..Len(a)]
  OBVIOUS
<1>2. \A j \in 1..Len(a) : m[j] = j
  OBVIOUS
<1>. HIDE DEF m
<1>. QED
  BY <1>1, <1>2 DEF Thins

LEMMA ThinsNone == ASSUME NEW a, NEW b, a = <<>> PROVE Thins(a, b)
<1>. DEFINE m == [j \in 1..Len(a) |-> j]
<1>1. 1..Len(a) = {}
  OBVIOUS
<1>2. m \in [1..Len(a) -> 1..Len(b)]
  BY <1>1
<1>. HIDE DEF m
<1>. QED
  BY <1>1, <1>2 DEF Thins

LEMMA ThinsChain ==
  ASSUME NEW S, NEW a \in Seq(S), NEW b \in Seq(S), NEW c \in Seq(S),
         Thins(a, b), Thins(b, c)
  PROVE  Thins(a, c)
<1>1. PICK f \in [1..Len(a) -> 1..Len(b)] :
        /\ \A j \in 1..Len(a) : a[j] = b[f[j]]
        /\ \A i, j \in 1..Len(a) : i < j => f[i] < f[j]
  BY DEF Thins
<1>2. PICK g \in [1..Len(b) -> 1..Len(c)] :
        /\ \A j \in 1..Len(b) : b[j] = c[g[j]]
        /\ \A i, j \in 1..Len(b) : i < j => g[i] < g[j]
  BY DEF Thins
<1>. DEFINE m == [j \in 1..Len(a) |-> g[f[j]]]
<1>3. m \in [1..Len(a) -> 1..Len(c)]
  BY <1>1, <1>2
<1>4. \A j \in 1..Len(a) : m[j] = g[f[j]]
  OBVIOUS
<1>. HIDE DEF m
<1>5. \A j \in 1..Len(a) : a[j] = c[m[j]]
  BY <1>1, <1>2, <1>4
<1>6. \A j \in 1..Len(a) : f[j] \in 1..Len(b)
  BY <1>1
<1>7. ASSUME NEW i \in 1..Len(a), NEW j \in 1..Len(a), i < j PROVE m[i] < m[j]
  BY <1>1, <1>2, <1>4, <1>6, <1>7
<1>. QED
  BY <1>3, <1>5, <1>7 DEF Thins

LEMMA ThinsJoined ==
  ASSUME NEW S, NEW a \in Seq(S), NEW b \in Seq(S), NEW e \in S, Thins(a, b)
  PROVE  Thins(Append(a, e), Append(b, e))
<1>1. PICK f \in [1..Len(a) -> 1..Len(b)] :
        /\ \A j \in 1..Len(a) : a[j] = b[f[j]]
        /\ \A i, j \in 1..Len(a) : i < j => f[i] < f[j]
  BY DEF Thins
<1>. DEFINE x == Append(a, e)
            y == Append(b, e)
            m == [j \in 1..Len(a) + 1 |-> IF j <= Len(a) THEN f[j] ELSE Len(b) + 1]
<1>2. /\ Len(x) = Len(a) + 1 /\ Len(y) = Len(b) + 1 /\ Len(a) \in Nat /\ Len(b) \in Nat
      /\ \A j \in 1..Len(a) : x[j] = a[j]
      /\ \A j \in 1..Len(b) : y[j] = b[j]
      /\ x[Len(a) + 1] = e /\ y[Len(b) + 1] = e
  OBVIOUS
<1>. HIDE DEF x, y
<1>3. m \in [1..Len(x) -> 1..Len(y)]
  BY <1>1, <1>2
<1>4. /\ \A j \in 1..Len(a) : m[j] = f[j] /\ f[j] \in 1..Len(b)
      /\ m[Len(a) + 1] = Len(b) + 1
  <2>1. Len(a) + 1 \in 1..Len(a) + 1 /\ ~(Len(a) + 1 <= Len(a))
    BY <1>2
  <2>2. \A j \in 1..Len(a) : j \in 1..Len(a) + 1 /\ j <= Len(a)
    BY <1>2
  <2>. QED
    BY <1>1, <2>1, <2>2
<1>. HIDE DEF m
<1>5. \A j \in 1..Len(x) : x[j] = y[m[j]]
  <2>1. \A j \in 1..Len(a) : x[j] = y[m[j]]
    BY <1>1, <1>2, <1>4
  <2>2. x[Len(a) + 1] = y[m[Len(a) + 1]]
    BY <1>2, <1>4
  <2>. QED
    BY <1>2, <2>1, <2>2
<1>6. \A i, j \in 1..Len(x) : i < j => m[i] < m[j]
  <2>. SUFFICES ASSUME NEW i \in 1..Len(x), NEW j \in 1..Len(x), i < j PROVE m[i] < m[j]
    OBVIOUS
  <2>1. i \in 1..Len(a) /\ m[i] \in 1..Len(b)
    BY <1>2, <1>4
  <2>2. CASE j = Len(a) + 1
    BY <1>2, <1>4, <2>1, <2>2
  <2>3. CASE j # Len(a) + 1
    <3>1. j \in 1..Len(a)
      BY <1>2, <2>3
    <3>. QED
      BY <1>1, <1>4, <2>1, <3>1
  <2>. QED
    BY <2>2, <2>3
<1>. QED
  BY <1>3, <1>5, <1>6 DEF Thins, x, y

(* A sweep leaves a thinned queue, without only what is expired.           *)
LEMMA SweptIs ==
  ASSUME NEW doc \in QueueDoc
  PROVE  /\ Swept(doc) \in QueueDoc
         /\ Swept(doc).binding = doc.binding
         /\ Len(Swept(doc).entries) <= Len(doc.entries)
         /\ Thins(Swept(doc).entries, doc.entries)
         /\ \A k \in 1..Len(doc.entries) :
              \/ doc.entries[k].item \in stale
              \/ \E j \in 1..Len(Swept(doc).entries) : Swept(doc).entries[j] = doc.entries[k]
<1>. DEFINE n == Len(doc.entries)
            fresh == {k \in DOMAIN doc.entries : doc.entries[k].item \notin stale}
            c == Cardinality(fresh)
            left == [j \in 1..c |-> doc.entries[Nth(fresh, j)]]
<1>1. n \in Nat /\ doc.entries \in Seq(Entry) /\ DOMAIN doc.entries = 1..n
  BY DEF QueueDoc
<1>2. fresh \in SUBSET (1..n)
  BY <1>1
<1>. HIDE DEF fresh, n
<1>3. /\ c \in 0..n
      /\ \A j \in 1..c : Nth(fresh, j) \in fresh
      /\ \A i, j \in 1..c : i < j => Nth(fresh, i) < Nth(fresh, j)
      /\ \A k \in fresh : \E j \in 1..c : Nth(fresh, j) = k
  BY <1>1, <1>2, NthCounts
<1>. HIDE DEF c
<1>4. c \in Nat /\ \A j \in 1..c : doc.entries[Nth(fresh, j)] \in Entry
  <2>1. ASSUME NEW j \in 1..c PROVE doc.entries[Nth(fresh, j)] \in Entry
    <3>1. Nth(fresh, j) \in 1..Len(doc.entries)
      BY <1>2, <1>3 DEF n
    <3>. QED
      BY <1>1, <3>1, ElementOfSeq
  <2>. QED
    BY <1>1, <1>3, <2>1
<1>5. left \in Seq(Entry) /\ Len(left) = c
  BY <1>4
<1>6. \A j \in 1..c : left[j] = doc.entries[Nth(fresh, j)]
  OBVIOUS
<1>7. Swept(doc) = [doc EXCEPT !.entries = left]
  BY DEF Swept, fresh, c
<1>. HIDE DEF left
<1>8. /\ Swept(doc) \in QueueDoc /\ Swept(doc).binding = doc.binding
      /\ Swept(doc).entries = left
  BY <1>5, <1>7 DEF QueueDoc
<1>9. Thins(left, doc.entries)
  <2>. DEFINE m == [j \in 1..c |-> Nth(fresh, j)]
  <2>1. m \in [1..Len(left) -> 1..Len(doc.entries)]
    BY <1>2, <1>3, <1>5 DEF n
  <2>2. \A j \in 1..c : m[j] = Nth(fresh, j)
    OBVIOUS
  <2>. HIDE DEF m
  <2>. QED
    BY <1>3, <1>5, <1>6, <2>1, <2>2 DEF Thins
<1>10. \A k \in 1..n : doc.entries[k].item \in stale \/ \E j \in 1..c : left[j] = doc.entries[k]
  BY <1>1, <1>3, <1>6 DEF fresh
<1>. QED
  BY <1>3, <1>5, <1>8, <1>9, <1>10 DEF n

(* The cap leaves the newest.                                              *)
LEMMA CappedIs ==
  ASSUME NEW doc \in QueueDoc
  PROVE  /\ Capped(doc) \in QueueDoc
         /\ Capped(doc).binding = doc.binding
         /\ Len(Capped(doc).entries) <= QueueMax
         /\ Thins(Capped(doc).entries, doc.entries)
<1>. DEFINE n == Len(doc.entries)
            over == IF n > QueueMax THEN n - QueueMax ELSE 0
            left == SubSeq(doc.entries, over + 1, n)
<1>1. n \in Nat /\ doc.entries \in Seq(Entry) /\ doc.dropped \in Nat
  BY DEF QueueDoc
<1>2. QueueMax \in Nat
  BY OutboxAssumption
<1>3. over \in 0..n /\ n - over <= QueueMax
  BY <1>1, <1>2
<1>. HIDE DEF over
<1>4. /\ left \in Seq(Entry) /\ Len(left) = n - over
      /\ \A j \in 1..(n - over) : left[j] = doc.entries[over + j]
  BY <1>1, <1>3
<1>5. Capped(doc) = [doc EXCEPT !.entries = left, !.dropped = @ + over]
  BY DEF Capped, over
<1>. HIDE DEF left
<1>6. /\ Capped(doc) \in QueueDoc /\ Capped(doc).binding = doc.binding
      /\ Capped(doc).entries = left
  <2>1. doc.dropped + over \in Nat
    BY <1>1, <1>3
  <2>. QED
    BY <1>4, <1>5, <2>1 DEF QueueDoc
<1>7. Thins(left, doc.entries)
  <2>. DEFINE m == [j \in 1..Len(left) |-> over + j]
  <2>1. m \in [1..Len(left) -> 1..n]
    BY <1>1, <1>3, <1>4
  <2>2. \A j \in 1..Len(left) : m[j] = over + j
    OBVIOUS
  <2>. HIDE DEF m
  <2>3. \A j \in 1..Len(left) : left[j] = doc.entries[m[j]]
    BY <1>4, <2>2
  <2>4. \A i, j \in 1..Len(left) : i < j => m[i] < m[j]
    BY <1>1, <1>3, <1>4, <2>2
  <2>. QED
    BY <2>1, <2>3, <2>4 DEF Thins
<1>. QED
  BY <1>3, <1>4, <1>6, <1>7

LEMMA RestIs ==
  ASSUME NEW doc \in QueueDoc, doc.entries # <<>>
  PROVE  /\ Rest(doc) \in QueueDoc
         /\ Rest(doc).binding = doc.binding
         /\ Len(Rest(doc).entries) = Len(doc.entries) - 1
         /\ Head(doc.entries) = doc.entries[1]
         /\ \A j \in 1..Len(Rest(doc).entries) : Rest(doc).entries[j] = doc.entries[j + 1]
         /\ Thins(Rest(doc).entries, doc.entries)
<1>. DEFINE left == Tail(doc.entries)
<1>1. doc.entries \in Seq(Entry) /\ Len(doc.entries) \in Nat \ {0}
  BY DEF QueueDoc
<1>2. /\ left \in Seq(Entry) /\ Len(left) = Len(doc.entries) - 1
      /\ \A j \in 1..Len(left) : left[j] = doc.entries[j + 1]
  BY <1>1
<1>3. Rest(doc) = [doc EXCEPT !.entries = left]
  BY DEF Rest
<1>. HIDE DEF left
<1>4. /\ Rest(doc) \in QueueDoc /\ Rest(doc).binding = doc.binding
      /\ Rest(doc).entries = left
  BY <1>2, <1>3 DEF QueueDoc
<1>5. Thins(left, doc.entries)
  <2>. DEFINE m == [j \in 1..Len(left) |-> j + 1]
  <2>1. m \in [1..Len(left) -> 1..Len(doc.entries)]
    BY <1>1, <1>2
  <2>2. \A j \in 1..Len(left) : m[j] = j + 1
    OBVIOUS
  <2>. HIDE DEF m
  <2>3. \A i, j \in 1..Len(left) : i < j => m[i] < m[j]
    BY <1>1, <1>2, <2>2
  <2>. QED
    BY <1>2, <2>1, <2>2, <2>3 DEF Thins
<1>. QED
  BY <1>1, <1>2, <1>4, <1>5

LEMMA ReconciledIs ==
  ASSUME NEW doc \in QueueDoc, NEW binding \in Bindings
  PROVE  /\ Reconciled(doc, binding) \in QueueDoc
         /\ Reconciled(doc, binding).binding = binding
         /\ \/ Reconciled(doc, binding) = doc
            \/ doc.binding # binding /\ Reconciled(doc, binding).entries = <<>>
  BY DEF Reconciled, QueueDoc

LEMMA ItemsInItems ==
  ASSUME NEW doc \in QueueDoc
  PROVE  ItemsOf(doc.entries) \subseteq Items
<1>1. doc.entries \in Seq(Entry)
  BY DEF QueueDoc
<1>2. \A k \in 1..Len(doc.entries) : doc.entries[k] \in Entry
  BY <1>1, ElementOfSeq
<1>. QED
  BY <1>1, <1>2, ItemsAre DEF Entry

(***************************************************************************)
(* The types.  A command in the middle of a drain has an entry to send.    *)
(***************************************************************************)
Active == [at : Stages, next : Stages, session : Sessions, item : Items, binding : Bindings, latch : BOOLEAN,
           seq : Nat, again : Nat, read : StateDoc, doc : QueueDoc, reached : BOOLEAN]
Working == {p \in Procs : proc[p] # Idle}
Filled == {"resign", "restamp", "send", "sending"}
Onward == {"publish", "sweep", "push"}
Row == [item : Items, seq : Nat, binding : Bindings, home : Bindings \cup {None}]

Files ==
  /\ state \in StateDoc /\ queue \in QueueDoc /\ Len(queue.entries) <= QueueMax
  /\ latch \in Flags /\ refused \subseteq Sessions /\ crossed \in BOOLEAN /\ shared \in BOOLEAN

Commands ==
  /\ proc \in [Procs -> {Idle} \cup Active]
  /\ hook \in [Hooks -> {Free} \cup [busy : {TRUE}, read : StateDoc]]
  /\ \A p \in Working : /\ Len(proc[p].doc.entries) <= QueueMax
                        /\ proc[p].at \in Filled => proc[p].doc.entries # <<>>
                        /\ proc[p].next \in Onward

Records ==
  /\ log \in Seq(Row)
  /\ told \in [Items -> {"no", "going", "sent", "queued", "blocked"}]
  /\ line \in Seq(Items)
  /\ stale \subseteq Items /\ dropped \subseteq Items /\ lapsed \subseteq Items
  /\ unheard \subseteq Items /\ unkept \subseteq Items

Shape == Files /\ Commands /\ Records

LEMMA IdleIsNot == Idle \notin Active /\ Idle.at \notin Stages
  BY DEF Idle, Active, Stages

(* A command at a stage is under way.                                      *)
LEMMA AtWork ==
  ASSUME Shape, NEW p \in Procs, NEW s \in Stages, proc[p].at = s
  PROVE  proc[p] \in Active /\ p \in Working
  BY IdleIsNot DEF Shape, Commands, Working

LEMMA ShapeIsTyped == Shape => TypeOK
<1>. SUFFICES ASSUME Shape PROVE TypeOK
  OBVIOUS
<1>1. ASSUME NEW p \in Procs, proc[p] # Idle
      PROVE  proc[p] \in Active
  BY <1>1 DEF Shape, Commands
<1>2. ASSUME NEW h \in Hooks
      PROVE  hook[h] = Free \/ (hook[h].busy /\ hook[h].read \in StateDoc)
  BY DEF Shape, Commands
<1>3. ASSUME NEW i \in DOMAIN log
      PROVE  log[i] \in [item : Items, seq : Nat, binding : Bindings, home : Bindings \cup {None}]
  <2>1. log \in Seq(Row) /\ DOMAIN log = 1..Len(log)
    BY DEF Shape, Records
  <2>. QED
    BY <2>1, ElementOfSeq DEF Row
<1>. QED
  BY <1>1, <1>2, <1>3 DEF Shape, Files, Records, TypeOK, Active

LEMMA ShapeInit == Init => Shape
<1>. SUFFICES ASSUME Init PROVE Shape
  OBVIOUS
<1>. USE OutboxAssumption
<1>1. 0 \in Bindings /\ <<>> \in Seq(Entry) /\ Len(<<>>) = 0 /\ 0 <= QueueMax
  BY DEF Bindings
<1>2. Files
  BY <1>1 DEF Init, Files, StateDoc, QueueDoc, Flags
<1>3. Commands
  BY DEF Init, Commands, Working
<1>4. Records
  BY DEF Init, Records
<1>. QED
  BY <1>2, <1>3, <1>4 DEF Shape

(* What one command does to its own record.                                *)
LEMMA OwnRecord ==
  ASSUME Shape, NEW p \in Procs, NEW next,
         proc' = [proc EXCEPT ![p] = next],
         \/ next = Idle
         \/ /\ next \in Active /\ Len(next.doc.entries) <= QueueMax
            /\ next.at \in Filled => next.doc.entries # <<>>
            /\ next.next \in Onward,
         hook' = hook
  PROVE  Commands'
<1>1. proc' \in [Procs -> {Idle} \cup Active]
  BY DEF Shape, Commands
<1>2. ASSUME NEW q \in Procs, proc'[q] # Idle
      PROVE  /\ Len(proc'[q].doc.entries) <= QueueMax
             /\ proc'[q].at \in Filled => proc'[q].doc.entries # <<>>
             /\ proc'[q].next \in Onward
  <2>1. CASE q = p
    BY <1>2, <2>1 DEF Shape, Commands
  <2>2. CASE q # p
    BY <1>2, <2>2 DEF Shape, Commands, Working
  <2>. QED
    BY <2>1, <2>2
<1>. QED
  BY <1>1, <1>2 DEF Shape, Commands, Working

LEMMA StoredIs ==
  ASSUME Shape, NEW row \in Row
  PROVE  /\ Stored(row) \in Seq(Row)
         /\ Stored(row) = log \/ Stored(row) = Append(log, row)
  BY DEF Shape, Records, Stored

LEMMA ParcelIs ==
  ASSUME Shape, NEW p \in Procs, proc[p].at \in {"send", "sending", "publish", "publishing"}
  PROVE  Parcel(p) \in Row
<1>1. proc[p] \in Active /\ p \in Working
  BY AtWork DEF Stages
<1>2. CASE proc[p].at \in {"send", "sending"}
  <2>1. proc[p].doc \in QueueDoc /\ proc[p].doc.entries # <<>>
    BY <1>1, <1>2 DEF Active, Shape, Commands, Filled
  <2>2. Head(proc[p].doc.entries) \in Entry
    BY <2>1 DEF QueueDoc
  <2>. QED
    BY <1>1, <1>2, <2>2 DEF Parcel, Row, Active, Entry
<1>3. CASE proc[p].at \notin {"send", "sending"}
  BY <1>1, <1>3 DEF Parcel, Row, Active
<1>. QED
  BY <1>2, <1>3

LEMMA SaveIs ==
  ASSUME NEW p, proc[p].session \in Sessions, refused \subseteq Sessions,
         NEW stopped \in BOOLEAN, Save(p, stopped)
  PROVE  latch' \in Flags /\ refused' \subseteq Sessions
  BY DEF Save, Flags

LEMMA ReadsKeepShape ==
  ASSUME Shape, NEW p \in Procs, Start(p) \/ ReadCounter(p) \/ WriteCounter(p) \/ Blocked(p)
  PROVE  Shape'
<1>. USE DEF Shape
<1>1. CASE Start(p)
  <2>1. PICK i \in Items, s \in Sessions :
          /\ proc' = [proc EXCEPT ![p] =
               [at |-> "build", next |-> "publish", session |-> s, item |-> i,
                binding |-> state.binding, latch |-> Loaded(s), seq |-> 0, again |-> 0,
                read |-> state, doc |-> queue, reached |-> FALSE]]
          /\ told' = [told EXCEPT ![i] = "going"]
    BY <1>1 DEF Start
  <2>2. state.binding \in Bindings /\ Loaded(s) \in BOOLEAN
    BY DEF Files, StateDoc, Loaded, Flags
  <2>. DEFINE next == [at |-> "build", next |-> "publish", session |-> s, item |-> i,
                       binding |-> state.binding, latch |-> Loaded(s), seq |-> 0, again |-> 0,
                       read |-> state, doc |-> queue, reached |-> FALSE]
  <2>3. Commands'
    <3>1. next \in Active
      BY <2>2 DEF Files, Active, Stages
    <3>2. Len(next.doc.entries) <= QueueMax /\ next.at \notin Filled /\ next.next \in Onward
      BY DEF Files, Filled, Onward
    <3>3. proc' = [proc EXCEPT ![p] = next] /\ hook' = hook
      BY <1>1, <2>1 DEF Start
    <3>. HIDE DEF next
    <3>. QED
      BY <3>1, <3>2, <3>3, OwnRecord
  <2>4. Files'
    <3>1. shared' \in BOOLEAN /\ crossed' \in BOOLEAN
      BY <1>1 DEF Start
    <3>2. state' = state /\ queue' = queue /\ latch' = latch /\ refused' = refused
      BY <1>1 DEF Start, files, marks
    <3>. QED
      BY <3>1, <3>2 DEF Files
  <2>5. Records'
    BY <1>1, <2>1 DEF Start, marks, kept, Records
  <2>. QED
    BY <2>3, <2>4, <2>5
<1>2. CASE ReadCounter(p)
  <2>1. PICK way \in {<<"build", "stamp">>, <<"resign", "restamp">>} :
          proc[p].at = way[1] /\ proc' = [proc EXCEPT ![p].at = way[2], ![p].read = state]
    BY <1>2 DEF ReadCounter
  <2>2. proc[p] \in Active /\ p \in Working
    BY <2>1, AtWork DEF Stages
  <2>. DEFINE next == [proc[p] EXCEPT !.at = way[2], !.read = state]
  <2>3. proc' = [proc EXCEPT ![p] = next] /\ hook' = hook
    BY <1>2, <2>1 DEF ReadCounter, Commands
  <2>4. next \in Active /\ next.doc = proc[p].doc /\ next.at = way[2] /\ next.next = proc[p].next
    <3>1. way[2] \in Stages
      BY <2>1 DEF Stages
    <3>. QED
      BY <2>2, <3>1 DEF Active, Files
  <2>5. way[2] \in Filled => proc[p].at \in Filled
    BY <2>1 DEF Filled
  <2>. HIDE DEF next
  <2>6. Commands'
    BY <2>2, <2>3, <2>4, <2>5, OwnRecord DEF Commands
  <2>. QED
    BY <1>2, <2>6 DEF ReadCounter, files, fate, marks, kept, Files, Records
<1>3. CASE WriteCounter(p)
  <2>. USE <1>3 DEF WriteCounter
  <2>1. proc[p] \in Active /\ p \in Working
    BY AtWork DEF Stages
  <2>2. proc[p].read \in StateDoc /\ proc[p].read.counter + 1 \in Nat
    BY <2>1 DEF Active, StateDoc
  <2>3. Counted(proc[p].read) \in StateDoc
    BY <2>2 DEF Counted, StateDoc
  <2>4. Commands'
    <3>. DEFINE n == proc[p].read.counter + 1
                own == [proc[p] EXCEPT !.at = "look", !.seq = n]
                other == [proc[p] EXCEPT !.at = "send", !.again = n]
    <3>1. CASE proc[p].at = "stamp"
      <4>1. own \in Active /\ own.doc = proc[p].doc /\ own.next = proc[p].next /\ own.at \notin Filled
        BY <2>1, <2>2 DEF Active, Stages, Filled
      <4>2. proc' = [proc EXCEPT ![p] = own]
        BY <3>1 DEF Commands
      <4>. HIDE DEF own
      <4>. QED
        BY <2>1, <4>1, <4>2, OwnRecord DEF Commands
    <3>2. CASE proc[p].at = "restamp"
      <4>1. other \in Active /\ other.doc = proc[p].doc /\ other.next = proc[p].next
        BY <2>1, <2>2 DEF Active, Stages
      <4>2. proc' = [proc EXCEPT ![p] = other]
        BY <3>2 DEF Commands
      <4>3. proc[p].at \in Filled
        BY <3>2 DEF Filled
      <4>. HIDE DEF other
      <4>. QED
        BY <2>1, <4>1, <4>2, <4>3, OwnRecord DEF Commands
    <3>. QED
      BY <3>1, <3>2
  <2>. QED
    BY <2>3, <2>4 DEF fate, marks, kept, Files, Records
<1>4. CASE Blocked(p)
  <2>1. proc[p] \in Active
    BY <1>4, AtWork DEF Blocked, Stages
  <2>2. Commands'
    BY <1>4, OwnRecord DEF Blocked
  <2>3. latch' \in Flags /\ refused' \subseteq Sessions
    BY <1>4, <2>1, SaveIs DEF Blocked, Files, Active
  <2>4. Files'
    BY <1>4, <2>3 DEF Blocked, Files
  <2>5. Records'
    BY <1>4, <2>1 DEF Blocked, kept, Records, Active
  <2>. QED
    BY <2>2, <2>4, <2>5
<1>. QED
  BY <1>1, <1>2, <1>3, <1>4

LEMMA DrainKeepsShape ==
  ASSUME Shape, NEW p \in Procs,
         DrainNext(p) \/ DrainEnds(p) \/ Refuse(p) \/ Transmit(p)
  PROVE  Shape'
<1>. USE DEF Shape
<1>1. CASE DrainNext(p)
  <2>1. proc[p] \in Active /\ p \in Working
    BY <1>1, AtWork DEF DrainNext, Step, Stages
  <2>2. Commands'
    BY <1>1, <2>1, OwnRecord DEF DrainNext, Step, Active, Stages, Filled, Commands
  <2>. QED
    BY <1>1, <2>2 DEF DrainNext, files, fate, marks, kept, Files, Records
<1>2. CASE DrainEnds(p)
  <2>1. proc[p] \in Active /\ p \in Working
    BY <1>2, AtWork DEF DrainEnds, Step, Stages
  <2>2. Commands'
    BY <1>2, <2>1, OwnRecord DEF DrainEnds, Step, Active, Stages, Filled, Commands
  <2>3. Files'
    BY <1>2, <2>1 DEF DrainEnds, Step, fate, marks, kept, Files, Commands, Active
  <2>. QED
    BY <1>2, <2>2, <2>3 DEF DrainEnds, fate, marks, kept, Records
<1>3. CASE Refuse(p)
  <2>. DEFINE doc == Rest(proc[p].doc)
  <2>1. proc[p] \in Active /\ p \in Working
    BY <1>3, AtWork DEF Refuse, Stages
  <2>2. /\ proc[p].doc \in QueueDoc /\ proc[p].doc.entries # <<>>
        /\ Len(proc[p].doc.entries) <= QueueMax
    BY <1>3, <2>1 DEF Refuse, Active, Commands, Filled
  <2>3. doc \in QueueDoc /\ Len(doc.entries) <= QueueMax
    <3>1. Len(proc[p].doc.entries) \in Nat /\ QueueMax \in Nat
      BY <2>2, OutboxAssumption DEF QueueDoc
    <3>. QED
      BY <2>2, <3>1, RestIs
  <2>. HIDE DEF doc
  <2>4. Head(proc[p].doc.entries).item \in Items
    <3>1. Head(proc[p].doc.entries) \in Entry
      BY <2>2 DEF QueueDoc
    <3>. QED
      BY <3>1 DEF Entry
  <2>5. /\ queue' = doc /\ Save(p, TRUE)
        /\ proc' = [proc EXCEPT ![p].at = "publish", ![p].doc = doc, ![p].latch = TRUE]
        /\ hook' = hook
    BY <1>3 DEF Refuse, doc
  <2>6. Commands'
    <3>. DEFINE next == [proc[p] EXCEPT !.at = "publish", !.doc = doc, !.latch = TRUE]
    <3>1. next \in Active /\ next.doc = doc /\ next.at \notin Filled /\ next.next = proc[p].next
      BY <2>1, <2>3 DEF Active, Stages, Filled
    <3>2. proc' = [proc EXCEPT ![p] = next]
      BY <2>5 DEF Commands
    <3>. HIDE DEF next
    <3>. QED
      BY <2>1, <2>3, <2>5, <3>1, <3>2, OwnRecord DEF Commands
  <2>7. Files'
    BY <1>3, <2>1, <2>3, <2>5, SaveIs DEF Refuse, Files, Active
  <2>. QED
    BY <1>3, <2>4, <2>6, <2>7 DEF Refuse, Records
<1>4. CASE Transmit(p)
  <2>1. PICK reached \in BOOLEAN, way \in {<<"send", "sending">>, <<"publish", "publishing">>} :
          /\ proc[p].at = way[1]
          /\ proc' = [proc EXCEPT ![p].at = way[2], ![p].reached = reached]
          /\ log' = IF reached THEN Stored(Parcel(p)) ELSE log
    BY <1>4 DEF Transmit
  <2>2. proc[p] \in Active /\ p \in Working
    BY <2>1, AtWork DEF Stages
  <2>3. way[2] \in Filled => proc[p].at \in Filled
    BY <2>1 DEF Filled
  <2>4. Commands'
    <3>. DEFINE next == [proc[p] EXCEPT !.at = way[2], !.reached = reached]
    <3>1. way[2] \in Stages
      BY <2>1 DEF Stages
    <3>2. next \in Active /\ next.doc = proc[p].doc /\ next.at = way[2] /\ next.next = proc[p].next
      BY <2>2, <3>1 DEF Active
    <3>3. proc' = [proc EXCEPT ![p] = next] /\ hook' = hook
      BY <1>4, <2>1 DEF Transmit, Commands
    <3>. HIDE DEF next
    <3>. QED
      BY <2>2, <2>3, <3>2, <3>3, OwnRecord DEF Commands
  <2>5. log' \in Seq(Row)
    <3>1. Parcel(p) \in Row
      BY <2>1, ParcelIs
    <3>. QED
      BY <2>1, <3>1, StoredIs DEF Records
  <2>. QED
    BY <1>4, <2>4, <2>5 DEF Transmit, files, fate, marks, kept, Files, Records
<1>. QED
  BY <1>1, <1>2, <1>3, <1>4

LEMMA AnswersKeepShape ==
  ASSUME Shape, NEW p \in Procs,
         \/ SentOk(p) \/ SentSilent(p) \/ SentLoud(p)
         \/ PublishedOk(p) \/ PublishedSilent(p) \/ PublishedLoud(p)
  PROVE  Shape'
<1>. USE DEF Shape
<1>0. proc[p] \in Active /\ p \in Working
  BY AtWork DEF SentOk, SentSilent, SentLoud, PublishedOk, PublishedSilent, PublishedLoud, Step, Stages
<1>1. CASE SentOk(p)
  <2>. DEFINE doc == Rest(proc[p].doc)
              next == [proc[p] EXCEPT !.at = "drain", !.doc = doc]
  <2>1. /\ proc[p].doc \in QueueDoc /\ proc[p].doc.entries # <<>>
        /\ Len(proc[p].doc.entries) <= QueueMax
    BY <1>0, <1>1 DEF SentOk, Active, Commands, Filled
  <2>2. doc \in QueueDoc /\ Len(doc.entries) <= QueueMax
    <3>1. Len(proc[p].doc.entries) \in Nat /\ QueueMax \in Nat
      BY <2>1, OutboxAssumption DEF QueueDoc
    <3>. QED
      BY <2>1, <3>1, RestIs
  <2>3. queue' = doc /\ proc' = [proc EXCEPT ![p] = next] /\ hook' = hook
    BY <1>1 DEF SentOk, Commands
  <2>. HIDE DEF doc
  <2>4. next \in Active /\ next.doc = doc /\ next.at \notin Filled /\ next.next = proc[p].next
    BY <1>0, <2>2 DEF Active, Stages, Filled
  <2>. HIDE DEF next
  <2>5. Commands'
    BY <1>0, <2>2, <2>3, <2>4, OwnRecord DEF Commands
  <2>. QED
    BY <1>1, <2>2, <2>3, <2>5 DEF SentOk, fate, marks, kept, Files, Records
<1>2. CASE SentSilent(p)
  <2>. DEFINE next == [proc[p] EXCEPT !.at = "publish"]
  <2>1. /\ proc' = [proc EXCEPT ![p] = next] /\ queue' = next.doc /\ hook' = hook
    BY <1>0, <1>2 DEF SentSilent, AfterFailure, Commands
  <2>2. next \in Active /\ next.doc = proc[p].doc /\ next.at \notin Filled /\ next.next = proc[p].next
    BY <1>0 DEF Active, Stages, Filled
  <2>. HIDE DEF next
  <2>3. Commands'
    BY <1>0, <2>1, <2>2, OwnRecord DEF Commands
  <2>4. Files'
    BY <1>0, <1>2, <2>1, <2>2 DEF SentSilent, Files, Commands, Active
  <2>5. Parcel(p).item \in Items
    BY <1>2, ParcelIs DEF SentSilent, Row
  <2>6. unheard' \subseteq Items
    BY <1>2, <2>5 DEF SentSilent, Unheard, Records
  <2>. QED
    BY <1>2, <2>3, <2>4, <2>6 DEF SentSilent, Records
<1>3. CASE SentLoud(p)
  <2>. DEFINE next == [proc[p] EXCEPT !.at = "publish", !.latch = TRUE]
  <2>1. /\ proc' = [proc EXCEPT ![p] = next] /\ queue' = proc[p].doc /\ hook' = hook
    BY <1>3 DEF SentLoud, Commands
  <2>2. next \in Active /\ next.doc = proc[p].doc /\ next.at \notin Filled /\ next.next = proc[p].next
    BY <1>0 DEF Active, Stages, Filled
  <2>. HIDE DEF next
  <2>3. Commands'
    BY <1>0, <2>1, <2>2, OwnRecord DEF Commands
  <2>4. Files'
    BY <1>0, <1>3, <2>1, SaveIs DEF SentLoud, Files, Commands, Active
  <2>. QED
    BY <1>3, <2>3, <2>4 DEF SentLoud, kept, Records
<1>4. CASE PublishedOk(p)
  <2>1. Commands'
    BY <1>4, OwnRecord DEF PublishedOk
  <2>. QED
    BY <1>0, <1>4, <2>1 DEF PublishedOk, files, fate, marks, kept, Files, Records, Active
<1>5. CASE PublishedSilent(p)
  <2>. DEFINE next == [proc[p] EXCEPT !.at = "reconcile", !.next = "push"]
  <2>1. proc' = [proc EXCEPT ![p] = next] /\ hook' = hook
    BY <1>5 DEF PublishedSilent, Commands
  <2>2. next \in Active /\ next.doc = proc[p].doc /\ next.at \notin Filled /\ next.next \in Onward
    BY <1>0 DEF Active, Stages, Filled, Onward
  <2>. HIDE DEF next
  <2>3. Commands'
    BY <1>0, <2>1, <2>2, OwnRecord DEF Commands
  <2>4. Files'
    BY <1>0, <1>5, SaveIs DEF PublishedSilent, Files, Active
  <2>5. Parcel(p).item \in Items
    BY <1>5, ParcelIs DEF PublishedSilent, Row
  <2>6. unheard' \subseteq Items
    BY <1>5, <2>5 DEF PublishedSilent, Unheard, Records
  <2>. QED
    BY <1>5, <2>3, <2>4, <2>6 DEF PublishedSilent, Records
<1>6. CASE PublishedLoud(p)
  <2>1. Commands'
    BY <1>6, OwnRecord DEF PublishedLoud
  <2>2. Files'
    BY <1>0, <1>6, SaveIs DEF PublishedLoud, Files, Active
  <2>3. Records'
    BY <1>0, <1>6 DEF PublishedLoud, kept, Records, Active
  <2>. QED
    BY <2>1, <2>2, <2>3
<1>. QED
  BY <1>1, <1>2, <1>3, <1>4, <1>5, <1>6

LEMMA ReconcileKeepsShape ==
  ASSUME Shape, NEW p \in Procs, Look(p) \/ ReconcileRead(p) \/ ReconcileWrite(p)
  PROVE  Shape'
<1>. USE DEF Shape
<1>0. proc[p] \in Active /\ p \in Working
  BY AtWork DEF Look, ReconcileRead, ReconcileWrite, Stages
<1>1. CASE Look(p)
  <2>. DEFINE on == IF queue.entries = <<>> THEN "publish" ELSE "sweep"
              next == [proc[p] EXCEPT !.at = "reconcile", !.next = on]
  <2>1. proc' = [proc EXCEPT ![p] = next] /\ hook' = hook
    BY <1>1 DEF Look, Commands
  <2>2. on \in Stages /\ on \in Onward
    BY DEF Stages, Onward
  <2>. HIDE DEF on
  <2>3. next \in Active /\ next.doc = proc[p].doc /\ next.at \notin Filled /\ next.next = on
    <3>1. "reconcile" \in Stages /\ "reconcile" \notin Filled
      BY DEF Stages, Filled
    <3>. QED
      BY <1>0, <2>2, <3>1 DEF Active
  <2>. HIDE DEF next
  <2>4. Commands'
    BY <1>0, <2>1, <2>2, <2>3, OwnRecord DEF Commands
  <2>. QED
    BY <1>1, <2>4 DEF Look, files, fate, marks, kept, Files, Records
<1>2. CASE ReconcileRead(p)
  <2>. DEFINE on == [proc[p] EXCEPT !.at = proc[p].next]
              wipe == [proc[p] EXCEPT !.at = "wipe", !.doc = queue]
  <2>1. CASE queue.binding = proc[p].binding
    <3>1. proc' = [proc EXCEPT ![p] = on] /\ hook' = hook
      BY <1>2, <2>1 DEF ReconcileRead, Commands
    <3>2. on \in Active /\ on.doc = proc[p].doc /\ on.at = proc[p].next /\ on.next = proc[p].next
      BY <1>0 DEF Active
    <3>3. proc[p].next \notin Filled
      BY <1>0 DEF Commands, Onward, Filled
    <3>. HIDE DEF on
    <3>4. Commands'
      BY <1>0, <3>1, <3>2, <3>3, OwnRecord DEF Commands
    <3>. QED
      BY <1>2, <3>4 DEF ReconcileRead, files, fate, marks, kept, Files, Records
  <2>2. CASE queue.binding # proc[p].binding
    <3>1. proc' = [proc EXCEPT ![p] = wipe] /\ hook' = hook
      BY <1>2, <2>2 DEF ReconcileRead, Commands
    <3>2. wipe \in Active /\ wipe.doc = queue /\ wipe.at \notin Filled /\ wipe.next = proc[p].next
      BY <1>0 DEF Active, Stages, Files, Filled
    <3>. HIDE DEF wipe
    <3>4. Commands'
      BY <1>0, <3>1, <3>2, OwnRecord DEF Commands, Files
    <3>. QED
      BY <1>2, <3>4 DEF ReconcileRead, files, fate, marks, kept, Files, Records
  <2>. QED
    BY <2>1, <2>2
<1>3. CASE ReconcileWrite(p)
  <2>. DEFINE doc == Reconciled(proc[p].doc, proc[p].binding)
              next == [proc[p] EXCEPT !.at = proc[p].next]
  <2>1. /\ proc' = [proc EXCEPT ![p] = next] /\ queue' = doc /\ hook' = hook
    BY <1>3 DEF ReconcileWrite, Commands
  <2>2. doc \in QueueDoc /\ Len(doc.entries) <= QueueMax
    <3>1. proc[p].doc \in QueueDoc /\ Len(proc[p].doc.entries) <= QueueMax
      BY <1>0 DEF Active, Commands
    <3>2. Len(<<>>) = 0 /\ 0 <= QueueMax
      BY OutboxAssumption
    <3>. QED
      BY <1>0, <3>1, <3>2, ReconciledIs DEF Active
  <2>. HIDE DEF doc
  <2>3. next \in Active /\ next.doc = proc[p].doc /\ next.at = proc[p].next /\ next.next = proc[p].next
    BY <1>0 DEF Active
  <2>4. proc[p].next \notin Filled
    BY <1>0 DEF Commands, Onward, Filled
  <2>. HIDE DEF next
  <2>5. Commands'
    BY <1>0, <2>1, <2>3, <2>4, OwnRecord DEF Commands
  <2>6. ItemsOf(proc[p].doc.entries) \subseteq Items
    BY <1>0, ItemsInItems DEF Active
  <2>. QED
    BY <1>3, <2>1, <2>2, <2>5, <2>6 DEF ReconcileWrite, Files, Records
<1>. QED
  BY <1>1, <1>2, <1>3

LEMMA SweptFits ==
  ASSUME NEW doc \in QueueDoc, Len(doc.entries) <= QueueMax
  PROVE  Swept(doc) \in QueueDoc /\ Len(Swept(doc).entries) <= QueueMax
<1>1. Len(doc.entries) \in Nat /\ Len(Swept(doc).entries) \in Nat /\ QueueMax \in Nat
  BY SweptIs, OutboxAssumption DEF QueueDoc
<1>. QED
  BY <1>1, SweptIs

LEMMA SweepKeepsShape ==
  ASSUME Shape, NEW p \in Procs, SweepRead(p) \/ SweepWrite(p) \/ OpenQueue(p)
  PROVE  Shape'
<1>. USE DEF Shape
<1>0. proc[p] \in Active /\ p \in Working
  BY AtWork DEF SweepRead, SweepWrite, OpenQueue, Step, Stages
<1>1. CASE SweepRead(p)
  <2>. DEFINE on == IF Expired(queue) = {} THEN "open" ELSE "rewrite"
              doc == Swept(queue)
              next == [proc[p] EXCEPT !.at = on, !.doc = doc]
  <2>1. proc' = [proc EXCEPT ![p] = next] /\ hook' = hook
    BY <1>1 DEF SweepRead, Commands
  <2>2. on \in Stages /\ on \notin Filled
    BY DEF Stages, Filled
  <2>3. doc \in QueueDoc /\ Len(doc.entries) <= QueueMax
    BY SweptFits DEF Files
  <2>. HIDE DEF on, doc
  <2>4. next \in Active /\ next.doc = doc /\ next.at = on /\ next.next = proc[p].next
    BY <1>0, <2>2, <2>3 DEF Active
  <2>. HIDE DEF next
  <2>5. Commands'
    BY <1>0, <2>1, <2>2, <2>3, <2>4, OwnRecord DEF Commands
  <2>6. Expired(queue) \subseteq Items
    BY DEF Expired, Records
  <2>. QED
    BY <1>1, <2>5, <2>6 DEF SweepRead, files, Files, Records
<1>2. CASE SweepWrite(p)
  <2>1. Commands'
    BY <1>0, <1>2, OwnRecord DEF SweepWrite, Step, Active, Stages, Filled, Commands
  <2>2. Files'
    BY <1>0, <1>2 DEF SweepWrite, Step, fate, marks, Files, Commands, Active
  <2>. QED
    BY <1>2, <2>1, <2>2 DEF SweepWrite, fate, marks, kept, Records
<1>3. CASE OpenQueue(p)
  <2>. DEFINE next == [proc[p] EXCEPT !.at = "drain", !.doc = queue]
  <2>1. proc' = [proc EXCEPT ![p] = next] /\ hook' = hook
    BY <1>3 DEF OpenQueue, Commands
  <2>2. next \in Active /\ next.doc = queue /\ next.at \notin Filled /\ next.next = proc[p].next
    BY <1>0 DEF Active, Stages, Filled, Files
  <2>. HIDE DEF next
  <2>3. Commands'
    BY <1>0, <2>1, <2>2, OwnRecord DEF Commands, Files
  <2>. QED
    BY <1>3, <2>3 DEF OpenQueue, files, fate, marks, kept, Files, Records
<1>. QED
  BY <1>1, <1>2, <1>3

LEMMA EnqueueKeepsShape ==
  ASSUME Shape, NEW p \in Procs, EnqueueRead(p) \/ EnqueueWrite(p) \/ EnqueueFails(p)
  PROVE  Shape'
<1>. USE DEF Shape
<1>0. proc[p] \in Active /\ p \in Working
  BY AtWork DEF EnqueueRead, EnqueueWrite, EnqueueFails, Stages
<1>1. CASE EnqueueRead(p)
  <2>. DEFINE doc == Swept(queue)
              next == [proc[p] EXCEPT !.at = "write", !.doc = doc]
  <2>1. doc \in QueueDoc /\ Len(doc.entries) <= QueueMax
    BY SweptFits DEF Files
  <2>2. proc' = [proc EXCEPT ![p] = next] /\ hook' = hook
    BY <1>1 DEF EnqueueRead, Commands
  <2>. HIDE DEF doc
  <2>3. next \in Active /\ next.doc = doc /\ next.at \notin Filled /\ next.next = proc[p].next
    BY <1>0, <2>1 DEF Active, Stages, Filled
  <2>. HIDE DEF next
  <2>4. Commands'
    BY <1>0, <2>1, <2>2, <2>3, OwnRecord DEF Commands
  <2>5. Expired(queue) \subseteq Items
    BY DEF Expired, Records
  <2>. QED
    BY <1>1, <2>4, <2>5 DEF EnqueueRead, files, Files, Records
<1>2. CASE EnqueueWrite(p)
  <2>. DEFINE e == [item |-> proc[p].item, home |-> proc[p].binding]
              full == [proc[p].doc EXCEPT !.entries = Joined(@, e), !.binding = proc[p].binding]
  <2>1. proc[p].doc \in QueueDoc /\ e \in Entry /\ proc[p].binding \in Bindings
    BY <1>0 DEF Active, Entry
  <2>. HIDE DEF e
  <2>2. full \in QueueDoc
    <3>1. Append(proc[p].doc.entries, e) \in Seq(Entry)
      BY <2>1 DEF QueueDoc
    <3>. QED
      BY <2>1, <3>1 DEF QueueDoc, Joined
  <2>3. /\ queue' = Capped(full)
        /\ dropped' = dropped \cup (ItemsOf(full.entries) \ ItemsOf(queue'.entries))
    BY <1>2 DEF EnqueueWrite, e
  <2>. HIDE DEF full
  <2>4. ItemsOf(full.entries) \subseteq Items
    BY <2>2, ItemsInItems
  <2>5. Capped(full) \in QueueDoc /\ Len(Capped(full).entries) <= QueueMax
    BY <2>2, CappedIs
  <2>6. Commands'
    BY <1>2, OwnRecord DEF EnqueueWrite
  <2>7. Files'
    BY <1>2, <2>3, <2>5 DEF EnqueueWrite, Files
  <2>8. line' \in Seq(Items)
    BY <1>0, <1>2 DEF EnqueueWrite, Records, Active
  <2>9. told' \in [Items -> {"no", "going", "sent", "queued", "blocked"}]
    BY <1>0, <1>2 DEF EnqueueWrite, Records, Active
  <2>10. Records'
    BY <1>2, <2>3, <2>4, <2>8, <2>9 DEF EnqueueWrite, Records
  <2>. QED
    BY <2>6, <2>7, <2>10
<1>3. CASE EnqueueFails(p)
  <2>1. Commands'
    BY <1>3, OwnRecord DEF EnqueueFails
  <2>2. told' \in [Items -> {"no", "going", "sent", "queued", "blocked"}] /\ proc[p].item \in Items
    BY <1>0, <1>3 DEF EnqueueFails, Records, Active
  <2>. QED
    BY <1>3, <2>1, <2>2 DEF EnqueueFails, files, Files, Records
<1>. QED
  BY <1>1, <1>2, <1>3

LEMMA ShapeStep == Shape /\ [Next]_vars => Shape'
<1>. SUFFICES ASSUME Shape, [Next]_vars PROVE Shape'
  OBVIOUS
<1>. USE DEF Shape
<1>1. ASSUME NEW p \in Procs, Command(p) PROVE Shape'
  BY <1>1, ReadsKeepShape, ReconcileKeepsShape, SweepKeepsShape, DrainKeepsShape,
     AnswersKeepShape, EnqueueKeepsShape DEF Command
<1>2. ASSUME NEW h \in Hooks, HookReads(h) PROVE Shape'
  <2>1. Commands'
    BY <1>2 DEF HookReads, files, Files, Commands, Working
  <2>2. shared' \in BOOLEAN
    BY <1>2 DEF HookReads
  <2>3. Files'
    BY <1>2, <2>2 DEF HookReads, files, marks, Files
  <2>. QED
    BY <1>2, <2>1, <2>3 DEF HookReads, marks, kept, Records
<1>3. ASSUME NEW h \in Hooks, HookWrites(h) PROVE Shape'
  <2>1. hook[h] \in [busy : {TRUE}, read : StateDoc]
    BY <1>3 DEF HookWrites, Commands
  <2>2. Commands'
    BY <1>3 DEF HookWrites, Commands, Working
  <2>. QED
    BY <1>3, <2>1, <2>2 DEF HookWrites, fate, marks, kept, Files, Records
<1>4. CASE Age
  <2>1. ItemsOf(queue.entries) \subseteq Items
    <3>1. queue.entries \in Seq(Entry)
      BY DEF Files, QueueDoc
    <3>2. \A k \in 1..Len(queue.entries) : queue.entries[k] \in Entry
      BY <3>1, ElementOfSeq
    <3>. QED
      BY <3>1, <3>2, ItemsAre DEF Entry
  <2>. QED
    BY <1>4, <2>1 DEF Age, files, fate, marks, kept, Files, Commands, Working, Records
<1>5. CASE Rebind
  <2>1. state.binding + 1 \in Bindings
    BY <1>5, OutboxAssumption DEF Rebind, Files, StateDoc, Bindings
  <2>2. state' \in StateDoc
    BY <1>5, <2>1 DEF Rebind, Files, StateDoc
  <2>. QED
    BY <1>5, <2>2 DEF Rebind, fate, marks, kept, Files, Commands, Working, Records
<1>6. CASE UNCHANGED vars
  BY <1>6 DEF vars, files, fate, marks, kept, Files, Commands, Working, Records
<1>. QED
  BY <1>1, <1>2, <1>3, <1>4, <1>5, <1>6 DEF Next

(* The files, the commands and the rows keep their types, and the queue    *)
(* its cap, whatever runs at once.                                         *)
THEOREM OutboxTypes == Spec => []TypeOK
<1>1. Spec => []Shape
  BY ShapeInit, ShapeStep, PTL DEF Spec
<1>. QED
  BY <1>1, ShapeIsTyped, PTL

(***************************************************************************)
(* The binding.  As long as commands of two bindings have not run at once, *)
(* every entry of the queue file, and of every copy a command holds of it, *)
(* was made under the binding the file or the copy names; and from its     *)
(* reconciling on, a command finds its own binding in the file, and in the *)
(* copies it sends and writes from.                                        *)
(***************************************************************************)
Homed(doc) == \A k \in 1..Len(doc.entries) : doc.entries[k].home = doc.binding
Bound == Filled \cup {"rewrite", "drain", "write"}
Settled == Bound \cup {"sweep", "open", "push"}
OwnHome(p) ==
  proc[p] # Idle =>
    /\ Homed(proc[p].doc)
    /\ proc[p].at \in Bound => proc[p].doc.binding = proc[p].binding
    /\ proc[p].at \in Settled => queue.binding = proc[p].binding
RowHome(row) == row.home \in {None, row.binding}
OneBinding == \A p, q \in Working : proc[p].binding = proc[q].binding

Homely ==
  /\ OneBinding
  /\ Homed(queue)
  /\ \A p \in Procs : OwnHome(p)
  /\ \A i \in 1..Len(log) : RowHome(log[i])
BindingInv == ~crossed => Homely

LEMMA ThinnedHome ==
  ASSUME NEW doc \in QueueDoc, NEW new \in QueueDoc,
         Homed(doc), new.binding = doc.binding, Thins(new.entries, doc.entries)
  PROVE  Homed(new)
  BY DEF Homed, Thins

LEMMA HomedOps ==
  ASSUME NEW doc \in QueueDoc, Homed(doc)
  PROVE  /\ Homed(Swept(doc))
         /\ Homed(Capped(doc))
         /\ doc.entries # <<>> => Homed(Rest(doc))
         /\ \A b \in Bindings : Homed(Reconciled(doc, b))
<1>1. Homed(Swept(doc))
  BY SweptIs, ThinnedHome
<1>2. Homed(Capped(doc))
  BY CappedIs, ThinnedHome
<1>3. doc.entries # <<>> => Homed(Rest(doc))
  BY RestIs, ThinnedHome
<1>4. ASSUME NEW b \in Bindings PROVE Homed(Reconciled(doc, b))
  BY DEF Reconciled, Homed
<1>. QED
  BY <1>1, <1>2, <1>3, <1>4

(* A command changes its own record only.                                  *)
LEMMA OthersStay ==
  ASSUME Shape, NEW p \in Procs, Command(p)
  PROVE  /\ \A q \in Procs \ {p} : proc'[q] = proc[q]
         /\ hook' = hook /\ stale' = stale
<1>. USE DEF Shape, Commands
<1>1. CASE Start(p) \/ ReadCounter(p) \/ WriteCounter(p) \/ Blocked(p)
  BY <1>1 DEF Start, ReadCounter, WriteCounter, Blocked
<1>2. CASE DrainNext(p) \/ DrainEnds(p) \/ Refuse(p) \/ Transmit(p)
  BY <1>2 DEF DrainNext, DrainEnds, Refuse, Transmit, Step
<1>3. CASE SentOk(p) \/ SentSilent(p) \/ SentLoud(p)
  BY <1>3 DEF SentOk, SentSilent, SentLoud
<1>4. CASE PublishedOk(p) \/ PublishedSilent(p) \/ PublishedLoud(p)
  BY <1>4 DEF PublishedOk, PublishedSilent, PublishedLoud
<1>5. CASE EnqueueRead(p) \/ EnqueueWrite(p) \/ EnqueueFails(p)
  BY <1>5 DEF EnqueueRead, EnqueueWrite, EnqueueFails
<1>6. CASE Look(p) \/ ReconcileRead(p) \/ ReconcileWrite(p)
  BY <1>6 DEF Look, ReconcileRead, ReconcileWrite
<1>7. CASE SweepRead(p) \/ SweepWrite(p) \/ OpenQueue(p)
  BY <1>7 DEF SweepRead, SweepWrite, OpenQueue, Step
<1>. QED
  BY <1>1, <1>2, <1>3, <1>4, <1>5, <1>6, <1>7 DEF Command

(* The rows a step adds: none, or the one a request carries.               *)
LEMMA LogFate ==
  ASSUME Shape, NEW p \in Procs, Command(p)
  PROVE  \/ log' = log
         \/ /\ Transmit(p) /\ proc[p].at \in {"send", "publish"}
            /\ log' = Append(log, Parcel(p)) /\ Parcel(p) \in Row
            /\ \A i \in 1..Len(log) : ~(log[i].seq = Parcel(p).seq /\ log[i].binding = Parcel(p).binding)
<1>1. CASE Transmit(p)
  <2>1. PICK reached \in BOOLEAN, way \in {<<"send", "sending">>, <<"publish", "publishing">>} :
          /\ proc[p].at = way[1]
          /\ log' = IF reached THEN Stored(Parcel(p)) ELSE log
    BY <1>1 DEF Transmit
  <2>2. Parcel(p) \in Row
    BY <2>1, ParcelIs
  <2>3. DOMAIN log = 1..Len(log)
    BY DEF Shape, Records
  <2>4. proc[p].at \in {"send", "publish"}
    BY <2>1
  <2>5. CASE log' = log
    BY <2>5
  <2>6. CASE log' # log
    BY <1>1, <2>1, <2>2, <2>3, <2>4, <2>6 DEF Stored
  <2>. QED
    BY <2>5, <2>6
<1>2. CASE ~Transmit(p)
  <2>1. CASE Start(p) \/ ReadCounter(p) \/ WriteCounter(p) \/ Blocked(p)
    BY <2>1 DEF Start, ReadCounter, WriteCounter, Blocked
  <2>2. CASE DrainNext(p) \/ DrainEnds(p) \/ Refuse(p)
    BY <2>2 DEF DrainNext, DrainEnds, Refuse
  <2>3. CASE SentOk(p) \/ SentSilent(p) \/ SentLoud(p)
    BY <2>3 DEF SentOk, SentSilent, SentLoud
  <2>4. CASE PublishedOk(p) \/ PublishedSilent(p) \/ PublishedLoud(p)
    BY <2>4 DEF PublishedOk, PublishedSilent, PublishedLoud
  <2>5. CASE EnqueueRead(p) \/ EnqueueWrite(p) \/ EnqueueFails(p)
    BY <2>5 DEF EnqueueRead, EnqueueWrite, EnqueueFails
  <2>6. CASE Look(p) \/ ReconcileRead(p) \/ ReconcileWrite(p)
    BY <2>6 DEF Look, ReconcileRead, ReconcileWrite
  <2>7. CASE SweepRead(p) \/ SweepWrite(p) \/ OpenQueue(p)
    BY <2>7 DEF SweepRead, SweepWrite, OpenQueue
  <2>. QED
    BY <1>2, <2>1, <2>2, <2>3, <2>4, <2>5, <2>6, <2>7 DEF Command
<1>. QED
  BY <1>1, <1>2

(* What a command under way does to its record and to the queue file: its  *)
(* copy stays one of a single binding, and the file it writes is one of    *)
(* its own.                                                                *)
HomeStep(p) ==
  /\ queue' = queue \/ (Homed(queue') /\ queue'.binding = proc[p].binding)
  /\ proc'[p] # Idle =>
       /\ proc'[p].binding = proc[p].binding
       /\ Homed(proc'[p].doc)
       /\ proc'[p].at \in Bound => proc'[p].doc.binding = proc[p].binding
       /\ proc'[p].at \in Settled => queue'.binding = proc[p].binding

LEMMA HomeFacts ==
  ASSUME Shape, Homely, NEW p \in Working
  PROVE  /\ proc[p] \in Active /\ proc[p] # Idle /\ proc[p].binding \in Bindings
         /\ queue \in QueueDoc /\ Homed(queue)
         /\ proc[p].doc \in QueueDoc /\ Homed(proc[p].doc)
         /\ proc[p].at \in Bound => proc[p].doc.binding = proc[p].binding
         /\ proc[p].at \in Settled => queue.binding = proc[p].binding
         /\ proc[p].next \in Onward
         /\ proc[p].at \in Filled => proc[p].doc.entries # <<>>
<1>1. proc[p] \in Active /\ proc[p] # Idle
  BY DEF Shape, Commands, Working
<1>. QED
  BY <1>1 DEF Shape, Files, Commands, Working, Active, Homely, OwnHome

(* A command that goes on with its copy as it is, and leaves the file.     *)
LEMMA SameCopy ==
  ASSUME Shape, Homely, NEW p \in Working,
         proc'[p].binding = proc[p].binding, proc'[p].doc = proc[p].doc,
         proc'[p].at \in Bound => proc[p].at \in Bound,
         proc'[p].at \in Settled => proc[p].at \in Settled,
         queue' = queue
  PROVE  HomeStep(p)
  BY HomeFacts DEF HomeStep

LEMMA CommandHome ==
  ASSUME Shape, Homely, NEW p \in Working,
         \/ ReadCounter(p) \/ WriteCounter(p) \/ Blocked(p) \/ DrainNext(p) \/ Transmit(p)
         \/ PublishedOk(p) \/ PublishedSilent(p) \/ PublishedLoud(p) \/ Look(p) \/ EnqueueFails(p)
  PROVE  HomeStep(p)
<1>. USE DEF Shape
<1>0. p \in Procs /\ proc[p] \in Active
  BY HomeFacts DEF Working
<1>1. CASE ReadCounter(p)
  <2>1. PICK way \in {<<"build", "stamp">>, <<"resign", "restamp">>} :
          proc[p].at = way[1] /\ proc' = [proc EXCEPT ![p].at = way[2], ![p].read = state]
    BY <1>1 DEF ReadCounter
  <2>2. /\ proc'[p].at = way[2] /\ proc'[p].doc = proc[p].doc /\ proc'[p].binding = proc[p].binding
    BY <1>0, <2>1 DEF Commands, Active
  <2>3. way[2] \in Settled => proc[p].at \in Bound
    BY <2>1 DEF Bound, Settled, Filled
  <2>4. queue' = queue
    BY <1>1 DEF ReadCounter, files
  <2>. QED
    BY <2>2, <2>3, <2>4, SameCopy DEF Settled
<1>2. CASE WriteCounter(p)
  <2>1. /\ proc'[p].doc = proc[p].doc /\ proc'[p].binding = proc[p].binding /\ queue' = queue
        /\ proc'[p].at \in Settled => proc[p].at \in Bound
    BY <1>0, <1>2 DEF WriteCounter, Commands, Active, Bound, Settled, Filled
  <2>. QED
    BY <2>1, SameCopy DEF Settled
<1>3. CASE Blocked(p) \/ PublishedOk(p) \/ PublishedLoud(p) \/ EnqueueFails(p)
  <2>1. proc'[p] = Idle /\ queue' = queue
    BY <1>0, <1>3 DEF Blocked, PublishedOk, PublishedLoud, EnqueueFails, Commands, files
  <2>. QED
    BY <2>1 DEF HomeStep
<1>4. CASE DrainNext(p)
  <2>1. /\ proc'[p].doc = proc[p].doc /\ proc'[p].binding = proc[p].binding /\ queue' = queue
        /\ proc[p].at \in Bound
    BY <1>0, <1>4 DEF DrainNext, Step, files, Commands, Active, Bound
  <2>. QED
    BY <2>1, SameCopy DEF Settled
<1>5. CASE Transmit(p)
  <2>1. PICK reached \in BOOLEAN, way \in {<<"send", "sending">>, <<"publish", "publishing">>} :
          proc[p].at = way[1] /\ proc' = [proc EXCEPT ![p].at = way[2], ![p].reached = reached]
    BY <1>5 DEF Transmit
  <2>2. /\ proc'[p].at = way[2] /\ proc'[p].doc = proc[p].doc /\ proc'[p].binding = proc[p].binding
    BY <1>0, <2>1 DEF Commands, Active
  <2>3. way[2] \in Settled => proc[p].at \in Bound
    BY <2>1 DEF Bound, Settled, Filled
  <2>4. queue' = queue
    BY <1>5 DEF Transmit, files
  <2>. QED
    BY <2>2, <2>3, <2>4, SameCopy DEF Settled
<1>6. CASE PublishedSilent(p) \/ Look(p)
  <2>1. /\ proc'[p].at = "reconcile" /\ proc'[p].doc = proc[p].doc
        /\ proc'[p].binding = proc[p].binding /\ queue' = queue
    BY <1>0, <1>6 DEF PublishedSilent, Look, files, Commands, Active
  <2>. QED
    BY <2>1, SameCopy DEF Settled, Bound, Filled
<1>. QED
  BY <1>1, <1>2, <1>3, <1>4, <1>5, <1>6

LEMMA QueueHome ==
  ASSUME Shape, Homely, NEW p \in Working,
         \/ ReconcileRead(p) \/ ReconcileWrite(p) \/ SweepRead(p) \/ SweepWrite(p) \/ OpenQueue(p)
         \/ DrainEnds(p) \/ Refuse(p) \/ SentOk(p) \/ SentSilent(p) \/ SentLoud(p)
         \/ EnqueueRead(p) \/ EnqueueWrite(p)
  PROVE  HomeStep(p)
<1>. USE DEF Shape
<1>. DEFINE doc == proc[p].doc
            b == proc[p].binding
<1>0. p \in Procs /\ proc[p] \in Active
  BY HomeFacts DEF Working
<1>1. /\ queue \in QueueDoc /\ Homed(queue) /\ doc \in QueueDoc /\ Homed(doc) /\ b \in Bindings
      /\ proc[p].at \in Bound => doc.binding = b
      /\ proc[p].at \in Settled => queue.binding = b
      /\ proc[p].next \in Onward
      /\ proc[p].at \in Filled => doc.entries # <<>>
  BY HomeFacts
<1>2. CASE ReconcileRead(p)
  <2>1. queue' = queue /\ proc'[p].binding = b
    BY <1>0, <1>2 DEF ReconcileRead, files, Commands, Active
  <2>2. CASE queue.binding = b
    <3>1. proc'[p].at = proc[p].next /\ proc'[p].doc = doc
      BY <1>0, <1>2, <2>2 DEF ReconcileRead, Commands, Active
    <3>. QED
      BY <1>1, <2>1, <2>2, <3>1 DEF HomeStep, Onward, Bound, Filled
  <2>3. CASE queue.binding # b
    <3>1. proc'[p].at = "wipe" /\ proc'[p].doc = queue
      BY <1>0, <1>2, <2>3 DEF ReconcileRead, Commands, Active
    <3>. QED
      BY <1>1, <2>1, <3>1 DEF HomeStep, Settled, Bound, Filled
  <2>. QED
    BY <2>2, <2>3
<1>3. CASE ReconcileWrite(p)
  <2>1. /\ queue' = Reconciled(doc, b) /\ proc'[p].binding = b /\ proc'[p].doc = doc
        /\ proc'[p].at = proc[p].next
    BY <1>0, <1>3 DEF ReconcileWrite, Commands, Active
  <2>2. Homed(queue') /\ queue'.binding = b
    BY <1>1, <2>1, ReconciledIs, HomedOps
  <2>. QED
    BY <1>1, <2>1, <2>2 DEF HomeStep, Onward, Bound, Filled
<1>4. CASE SweepRead(p)
  <2>1. /\ queue' = queue /\ proc'[p].binding = b /\ proc'[p].doc = Swept(queue)
        /\ proc[p].at \in Settled
    BY <1>0, <1>4 DEF SweepRead, files, Commands, Active, Settled
  <2>2. Homed(Swept(queue)) /\ Swept(queue).binding = b
    BY <1>1, <2>1, SweptIs, HomedOps
  <2>. QED
    BY <1>1, <2>1, <2>2 DEF HomeStep
<1>5. CASE SweepWrite(p) \/ DrainEnds(p)
  <2>1. /\ queue' = doc /\ proc'[p].binding = b /\ proc'[p].doc = doc /\ proc[p].at \in Bound
    BY <1>0, <1>5 DEF SweepWrite, DrainEnds, Step, Commands, Active, Bound
  <2>. QED
    BY <1>1, <2>1 DEF HomeStep
<1>6. CASE OpenQueue(p)
  <2>1. /\ queue' = queue /\ proc'[p].binding = b /\ proc'[p].doc = queue /\ proc[p].at \in Settled
    BY <1>0, <1>6 DEF OpenQueue, files, Commands, Active, Settled
  <2>. QED
    BY <1>1, <2>1 DEF HomeStep
<1>7. CASE Refuse(p) \/ SentOk(p)
  <2>1. /\ queue' = Rest(doc) /\ proc'[p].binding = b /\ proc'[p].doc = Rest(doc)
        /\ proc[p].at \in Filled
    <3>1. CASE Refuse(p)
      BY <1>0, <3>1 DEF Refuse, Commands, Active, Filled
    <3>2. CASE SentOk(p)
      BY <1>0, <3>2 DEF SentOk, Commands, Active, Filled
    <3>. QED
      BY <1>7, <3>1, <3>2
  <2>2. Homed(Rest(doc)) /\ Rest(doc).binding = b
    BY <1>1, <2>1, RestIs, HomedOps DEF Bound
  <2>. QED
    BY <2>1, <2>2 DEF HomeStep
<1>8. CASE SentSilent(p) \/ SentLoud(p)
  <2>1. /\ proc'[p].binding = b /\ proc'[p].doc = doc /\ proc[p].at \in Bound
    <3>1. CASE SentSilent(p)
      BY <1>0, <3>1 DEF SentSilent, AfterFailure, Commands, Active, Bound, Filled
    <3>2. CASE SentLoud(p)
      BY <1>0, <3>2 DEF SentLoud, Commands, Active, Bound, Filled
    <3>. QED
      BY <1>8, <3>1, <3>2
  <2>2. queue' = doc
    BY <1>8, <2>1 DEF SentSilent, SentLoud
  <2>. QED
    BY <1>1, <2>1, <2>2 DEF HomeStep
<1>9. CASE EnqueueRead(p)
  <2>1. /\ queue' = queue /\ proc'[p].binding = b /\ proc'[p].doc = Swept(queue)
        /\ proc[p].at \in Settled
    BY <1>0, <1>9 DEF EnqueueRead, files, Commands, Active, Settled
  <2>2. Homed(Swept(queue)) /\ Swept(queue).binding = b
    BY <1>1, <2>1, SweptIs, HomedOps
  <2>. QED
    BY <1>1, <2>1, <2>2 DEF HomeStep
<1>10. CASE EnqueueWrite(p)
  <2>. DEFINE e == [item |-> proc[p].item, home |-> b]
              full == [doc EXCEPT !.entries = Joined(@, e), !.binding = b]
  <2>1. doc.binding = b /\ e \in Entry /\ e.home = b
    BY <1>0, <1>1, <1>10 DEF EnqueueWrite, Bound, Active, Entry
  <2>2. queue' = Capped(full) /\ proc'[p] = Idle
    BY <1>0, <1>10 DEF EnqueueWrite, Commands
  <2>3. Append(doc.entries, e) \in Seq(Entry) /\ doc.entries \in Seq(Entry)
    BY <1>1, <2>1 DEF QueueDoc
  <2>. HIDE DEF e
  <2>4. full \in QueueDoc /\ full.binding = b /\ full.entries = Append(doc.entries, e)
    BY <1>1, <2>3 DEF QueueDoc, Joined
  <2>. HIDE DEF full
  <2>5. Homed(full)
    BY <1>1, <2>1, <2>3, <2>4 DEF Homed
  <2>6. Homed(queue') /\ queue'.binding = b
    BY <2>2, <2>4, <2>5, CappedIs, HomedOps
  <2>. QED
    BY <2>2, <2>6 DEF HomeStep
<1>. QED
  BY <1>2, <1>3, <1>4, <1>5, <1>6, <1>7, <1>8, <1>9, <1>10

(* A command that starts has the binding of every command under way.       *)
LEMMA StartHome ==
  ASSUME Shape, Homely, ~crossed', NEW p \in Procs, Start(p)
  PROVE  OneBinding' /\ queue' = queue /\ Homed(proc'[p].doc) /\ proc'[p].at = "build"
<1>1. PICK i \in Items, s \in Sessions :
        proc' = [proc EXCEPT ![p] =
          [at |-> "build", next |-> "publish", session |-> s, item |-> i,
           binding |-> state.binding, latch |-> Loaded(s), seq |-> 0, again |-> 0,
           read |-> state, doc |-> queue, reached |-> FALSE]]
  BY DEF Start
<1>2. /\ \A q \in Procs : proc[q] # Idle => proc[q].binding = state.binding
      /\ queue' = queue
  BY DEF Start, files
<1>3. /\ proc'[p].binding = state.binding /\ proc'[p].doc = queue /\ proc'[p].at = "build"
      /\ \A q \in Procs \ {p} : proc'[q] = proc[q]
  BY <1>1 DEF Shape, Commands
<1>4. \A q \in Procs : proc'[q] # Idle => proc'[q].binding = state.binding
  BY <1>2, <1>3
<1>. QED
  BY <1>2, <1>3, <1>4 DEF OneBinding, Working, Homely

LEMMA CrossedStays == [Next]_vars /\ ~crossed' => ~crossed
<1>. SUFFICES ASSUME [Next]_vars, ~crossed' PROVE ~crossed
  OBVIOUS
<1>1. ASSUME NEW p \in Procs, Command(p) PROVE ~crossed
  <2>1. CASE Start(p)
    BY <2>1 DEF Start
  <2>2. CASE ReadCounter(p) \/ WriteCounter(p) \/ Blocked(p)
    BY <2>2 DEF ReadCounter, WriteCounter, Blocked, fate
  <2>3. CASE DrainNext(p) \/ DrainEnds(p) \/ Refuse(p) \/ Transmit(p)
    BY <2>3 DEF DrainNext, DrainEnds, Refuse, Transmit, fate
  <2>4. CASE SentOk(p) \/ SentSilent(p) \/ SentLoud(p)
    BY <2>4 DEF SentOk, SentSilent, SentLoud, fate
  <2>5. CASE PublishedOk(p) \/ PublishedSilent(p) \/ PublishedLoud(p)
    BY <2>5 DEF PublishedOk, PublishedSilent, PublishedLoud, fate
  <2>6. CASE EnqueueRead(p) \/ EnqueueWrite(p) \/ EnqueueFails(p)
    BY <2>6 DEF EnqueueRead, EnqueueWrite, EnqueueFails
  <2>7. CASE Look(p) \/ ReconcileRead(p) \/ ReconcileWrite(p)
    BY <2>7 DEF Look, ReconcileRead, ReconcileWrite, fate
  <2>8. CASE SweepRead(p) \/ SweepWrite(p) \/ OpenQueue(p)
    BY <2>8 DEF SweepRead, SweepWrite, OpenQueue, fate
  <2>. QED
    BY <1>1, <2>1, <2>2, <2>3, <2>4, <2>5, <2>6, <2>7, <2>8 DEF Command
<1>2. ASSUME NEW h \in Hooks, HookReads(h) \/ HookWrites(h) PROVE ~crossed
  BY <1>2 DEF HookReads, HookWrites, fate
<1>3. CASE Age \/ Rebind \/ UNCHANGED vars
  BY <1>3 DEF Age, Rebind, vars, fate
<1>. QED
  BY <1>1, <1>2, <1>3 DEF Next

LEMMA AtStage ==
  ASSUME Shape, NEW p \in Procs, Command(p), ~Start(p)
  PROVE  p \in Working /\ proc[p] \in Active
<1>0. proc[p].at \in Stages
  <2>1. CASE WriteCounter(p) \/ Blocked(p) \/ DrainNext(p) \/ DrainEnds(p)
    BY <2>1 DEF WriteCounter, Blocked, DrainNext, DrainEnds, Step, Stages
  <2>2. CASE Refuse(p) \/ SentOk(p) \/ SentSilent(p) \/ SentLoud(p)
    BY <2>2 DEF Refuse, SentOk, SentSilent, SentLoud, Stages
  <2>7. CASE ReadCounter(p)
    BY <2>7 DEF ReadCounter, Stages
  <2>8. CASE Transmit(p)
    BY <2>8 DEF Transmit, Stages
  <2>3. CASE PublishedOk(p) \/ PublishedSilent(p) \/ PublishedLoud(p)
    BY <2>3 DEF PublishedOk, PublishedSilent, PublishedLoud, Stages
  <2>4. CASE EnqueueRead(p) \/ EnqueueWrite(p) \/ EnqueueFails(p)
    BY <2>4 DEF EnqueueRead, EnqueueWrite, EnqueueFails, Stages
  <2>5. CASE Look(p) \/ ReconcileRead(p) \/ ReconcileWrite(p)
    BY <2>5 DEF Look, ReconcileRead, ReconcileWrite, Stages
  <2>6. CASE SweepRead(p) \/ SweepWrite(p) \/ OpenQueue(p)
    BY <2>6 DEF SweepRead, SweepWrite, OpenQueue, Step, Stages
  <2>. QED
    BY <2>1, <2>2, <2>3, <2>4, <2>5, <2>6, <2>7, <2>8 DEF Command
<1>. QED
  BY <1>0, AtWork

LEMMA HomelyStep ==
  ASSUME Shape, Homely, NEW p \in Procs, Command(p), ~crossed'
  PROVE  OneBinding' /\ Homed(queue)' /\ \A q \in Procs : OwnHome(q)'
<1>1. \A q \in Procs \ {p} : proc'[q] = proc[q]
  BY OthersStay
<1>2. CASE Start(p)
  <2>1. OneBinding' /\ queue' = queue /\ Homed(proc'[p].doc) /\ proc'[p].at = "build"
    BY <1>2, StartHome
  <2>2. OwnHome(p)'
    BY <2>1 DEF OwnHome, Settled, Bound, Filled
  <2>3. ASSUME NEW q \in Procs, q # p PROVE OwnHome(q)'
    BY <1>1, <2>1, <2>3 DEF OwnHome, Homely
  <2>. QED
    BY <2>1, <2>2, <2>3 DEF Homely
<1>3. CASE ~Start(p)
  <2>1. p \in Working /\ HomeStep(p)
    BY <1>3, AtStage, CommandHome, QueueHome DEF Command
  <2>2. Homed(queue')
    BY <2>1 DEF HomeStep, Homely
  <2>3. OneBinding'
    BY <1>1, <2>1 DEF OneBinding, Working, HomeStep, Homely
  <2>4. OwnHome(p)'
    BY <2>1 DEF OwnHome, HomeStep
  <2>5. ASSUME NEW q \in Procs, q # p, proc[q] # Idle PROVE OwnHome(q)'
    <3>1. proc[q].binding = proc[p].binding /\ OwnHome(q)
      BY <2>1, <2>5 DEF Homely, OneBinding, Working
    <3>2. proc[q].at \in Settled => queue'.binding = proc[q].binding
      BY <2>1, <2>5, <3>1 DEF HomeStep, OwnHome
    <3>. QED
      BY <1>1, <2>5, <3>1, <3>2 DEF OwnHome
  <2>6. ASSUME NEW q \in Procs, q # p, proc[q] = Idle PROVE OwnHome(q)'
    BY <1>1, <2>6 DEF OwnHome
  <2>. QED
    BY <2>2, <2>3, <2>4, <2>5, <2>6
<1>. QED
  BY <1>2, <1>3

LEMMA BindingStep == Shape /\ BindingInv /\ [Next]_vars => BindingInv'
<1>. SUFFICES ASSUME Shape, Homely, [Next]_vars, ~crossed' PROVE Homely'
  BY CrossedStays DEF BindingInv
<1>1. ASSUME NEW p \in Procs, Command(p) PROVE Homely'
  <2>1. OneBinding' /\ Homed(queue)' /\ \A q \in Procs : OwnHome(q)'
    BY <1>1, HomelyStep
  <2>2. \A i \in 1..Len(log') : RowHome(log'[i])
    <3>1. CASE log' = log
      BY <3>1 DEF Homely
    <3>2. CASE /\ proc[p].at \in {"send", "publish"}
               /\ log' = Append(log, Parcel(p)) /\ Parcel(p) \in Row
      <4>1. RowHome(Parcel(p))
        <5>1. CASE proc[p].at = "send"
          <6>1. p \in Working
            BY <5>1, AtWork DEF Stages
          <6>2. /\ proc[p].doc \in QueueDoc /\ proc[p].doc.entries # <<>>
                /\ Homed(proc[p].doc) /\ proc[p].doc.binding = proc[p].binding
            BY <5>1, <6>1, HomeFacts DEF Filled, Bound
          <6>3. Head(proc[p].doc.entries).home = proc[p].binding
            <7>1. Len(proc[p].doc.entries) \in Nat \ {0}
              BY <6>2 DEF QueueDoc
            <7>. QED
              BY <6>2, <7>1, RestIs DEF Homed
          <6>. QED
            BY <5>1, <6>3 DEF Parcel, RowHome
        <5>2. CASE proc[p].at = "publish"
          BY <5>2 DEF Parcel, RowHome
        <5>. QED
          BY <3>2, <5>1, <5>2
      <4>2. log \in Seq(Row)
        BY DEF Shape, Records
      <4>. QED
        BY <3>2, <4>1, <4>2 DEF Homely
    <3>. QED
      BY <1>1, <3>1, <3>2, LogFate
  <2>. QED
    BY <2>1, <2>2 DEF Homely
<1>2. ASSUME NEW h \in Hooks, HookReads(h) \/ HookWrites(h) PROVE Homely'
  BY <1>2 DEF HookReads, HookWrites, files, Homely, OneBinding, OwnHome, Working
<1>3. CASE Age \/ Rebind \/ UNCHANGED vars
  BY <1>3 DEF Age, Rebind, vars, files, Homely, OneBinding, OwnHome, Working
<1>. QED
  BY <1>1, <1>2, <1>3 DEF Next

(* As long as commands of two bindings have not run at once, a queued      *)
(* entry goes out only under the binding it was queued for, however many   *)
(* commands of that binding read and write the queue file in between.      *)
THEOREM BoundToItsTransport == Spec => []OwnBindingOnly
<1>1. Init => BindingInv
  BY DEF Init, BindingInv, Homely, OneBinding, Working, Homed, OwnHome
<1>2. Shape /\ BindingInv => OwnBindingOnly
  BY DEF Shape, Records, BindingInv, Homely, RowHome, OwnBindingOnly
<1>. QED
  BY <1>1, <1>2, BindingStep, ShapeInit, ShapeStep, PTL DEF Spec

(***************************************************************************)
(* As long as no two writers of the files have run at once: the files are  *)
(* what the one command under way has read of them.                        *)
(***************************************************************************)
Alone ==
  /\ \A p, q \in Working : p = q
  /\ Working # {} => \A h \in Hooks : hook[h] = Free
  /\ \A g, h \in Hooks : hook[g] # Free /\ hook[h] # Free => g = h

(* The item of the command under way has no fate yet; the line holds every *)
(* queued item once, but for those whose enqueue failed.                   *)
Waits(i) == \E a \in 1..Len(line) : line[a] = i
Reported ==
  /\ \A p \in Working : told[proc[p].item] = "going"
  /\ \A i \in Items : Waits(i) => told[i] = "queued"
  /\ \A i \in Items : told[i] = "queued" => Waits(i) \/ i \in unkept
  /\ \A a, b \in 1..Len(line) : line[a] = line[b] => a = b

(* The counter is above every number used, and a number not used yet is in *)
(* no row.                                                                 *)
Unused(seq) == \A i \in 1..Len(log) : log[i].seq # seq
Spent(p) ==
  \/ proc[p].at \in {"publishing", "push", "write"}
  \/ proc[p].at \in {"reconcile", "wipe"} /\ proc[p].next = "push"
Numbered(p) ==
  /\ proc[p].at \in {"stamp", "restamp"} => proc[p].read.counter = state.counter
  /\ proc[p].at \notin {"build", "stamp"} => proc[p].seq <= state.counter
  /\ proc[p].at \notin {"build", "stamp"} /\ ~Spent(p) => Unused(proc[p].seq)
  /\ proc[p].at = "send" =>
       proc[p].again <= state.counter /\ proc[p].again # proc[p].seq /\ Unused(proc[p].again)
Numbers ==
  /\ \A i \in 1..Len(log) : log[i].seq <= state.counter
  /\ \A h \in Hooks : hook[h] # Free => hook[h].read.counter = state.counter
  /\ \A p \in Working : Numbered(p)

Posted(i) == \E k \in 1..Len(log) : log[k].item = i
Honest ==
  /\ \A i \in Items : told[i] = "sent" => Posted(i)
  /\ \A p \in Working : proc[p].at = "publishing" /\ proc[p].reached => Posted(proc[p].item)

(* The copy a command works on is the queue; the one it has swept, the     *)
(* queue without what has expired.                                         *)
Mirror == Filled \cup {"drain", "wipe"}
Fewer(doc) ==
  /\ Thins(doc.entries, queue.entries)
  /\ \A k \in 1..Len(queue.entries) :
       queue.entries[k].item \in lapsed \/ \E j \in 1..Len(doc.entries) : doc.entries[j] = queue.entries[k]
CopyIsQueue ==
  \A p \in Working : /\ proc[p].at \in Mirror => queue = proc[p].doc
                     /\ proc[p].at \in {"rewrite", "write"} => Fewer(proc[p].doc)

SentFromQueue(i) == \E k \in 1..Len(log) : log[k].item = i /\ log[k].home # None
Queued(i) == \E k \in 1..Len(queue.entries) : queue.entries[k].item = i
Gone(i) == i \in dropped \cup lapsed
InOrder(entries, row) ==
  \A j, k \in 1..Len(entries), a, b \in 1..Len(row) :
    row[a] = entries[j].item /\ row[b] = entries[k].item /\ j < k => a < b

(* The queue is in the order of the line, and what left it was sent from   *)
(* it or dropped.                                                          *)
Lined ==
  /\ \A i \in Items : Queued(i) \/ SentFromQueue(i) => Waits(i)
  /\ \A i \in Items : Waits(i) => Queued(i) \/ SentFromQueue(i) \/ Gone(i)
  /\ \A p \in Working : proc[p].at = "sending" /\ proc[p].reached =>
       SentFromQueue(Head(proc[p].doc.entries).item)
  /\ InOrder(queue.entries, line)
  /\ \A a, b \in 1..Len(line) :
       a < b /\ SentFromQueue(line[b]) => SentFromQueue(line[a]) \/ Gone(line[a])

(* What is on the transport and still to be posted, its answer was lost;   *)
(* but for the head of the queue while its answer is under way.            *)
Answering == \E p \in Working : proc[p].at = "sending" /\ proc[p].reached
Heard ==
  /\ \A i \in Items : told[i] = "no" => ~Posted(i)
  /\ \A k \in 1..Len(queue.entries) :
       Posted(queue.entries[k].item) => queue.entries[k].item \in unheard \/ (k = 1 /\ Answering)
  /\ \A p \in Working :
       Posted(proc[p].item) => \/ proc[p].item \in unheard
                               \/ (proc[p].at = "publishing" /\ proc[p].reached)
  /\ \A i, j \in 1..Len(log) : i < j /\ log[i].item = log[j].item => log[i].item \in unheard

Latched ==
  /\ \A s \in refused : latch = [session |-> s, stopped |-> TRUE]
  /\ \A p \in Working : proc[p].session \in refused => proc[p].latch

Orderly ==
  ~shared => Alone /\ Reported /\ Numbers /\ Honest /\ CopyIsQueue /\ Lined /\ Heard /\ Latched

LEMMA SharedStays == [Next]_vars /\ ~shared' => ~shared
<1>. SUFFICES ASSUME [Next]_vars, ~shared' PROVE ~shared
  OBVIOUS
<1>1. ASSUME NEW p \in Procs, Command(p) PROVE ~shared
  <2>1. CASE Start(p) \/ ReadCounter(p) \/ WriteCounter(p) \/ Blocked(p)
    BY <2>1 DEF Start, ReadCounter, WriteCounter, Blocked, fate
  <2>2. CASE DrainNext(p) \/ DrainEnds(p) \/ Refuse(p) \/ Transmit(p)
    BY <2>2 DEF DrainNext, DrainEnds, Refuse, Transmit, fate
  <2>3. CASE SentOk(p) \/ SentSilent(p) \/ SentLoud(p)
    BY <2>3 DEF SentOk, SentSilent, SentLoud, fate
  <2>4. CASE PublishedOk(p) \/ PublishedSilent(p) \/ PublishedLoud(p)
    BY <2>4 DEF PublishedOk, PublishedSilent, PublishedLoud, fate
  <2>5. CASE EnqueueRead(p) \/ EnqueueWrite(p) \/ EnqueueFails(p)
    BY <2>5 DEF EnqueueRead, EnqueueWrite, EnqueueFails
  <2>6. CASE Look(p) \/ ReconcileRead(p) \/ ReconcileWrite(p)
    BY <2>6 DEF Look, ReconcileRead, ReconcileWrite, fate
  <2>7. CASE SweepRead(p) \/ SweepWrite(p) \/ OpenQueue(p)
    BY <2>7 DEF SweepRead, SweepWrite, OpenQueue, fate
  <2>. QED
    BY <1>1, <2>1, <2>2, <2>3, <2>4, <2>5, <2>6, <2>7 DEF Command
<1>2. CASE \E h \in Hooks : HookReads(h) \/ HookWrites(h)
  BY <1>2 DEF HookReads, HookWrites, fate
<1>3. CASE Age \/ Rebind \/ UNCHANGED vars
  BY <1>3 DEF Age, Rebind, vars, fate
<1>. QED
  BY <1>1, <1>2, <1>3 DEF Next

(* The steps of a command that is neither starting nor done.               *)
Middle(p) ==
  \/ ReadCounter(p) \/ WriteCounter(p) \/ Look(p) \/ ReconcileRead(p) \/ ReconcileWrite(p)
  \/ SweepRead(p) \/ SweepWrite(p) \/ OpenQueue(p) \/ DrainNext(p) \/ DrainEnds(p)
  \/ Refuse(p) \/ Transmit(p) \/ SentOk(p) \/ SentSilent(p) \/ SentLoud(p)
  \/ PublishedSilent(p) \/ EnqueueRead(p)

Ending(p) ==
  Blocked(p) \/ PublishedOk(p) \/ PublishedLoud(p) \/ EnqueueWrite(p) \/ EnqueueFails(p)

LEMMA CommandSteps ==
  ASSUME NEW p \in Procs, Command(p)
  PROVE  Start(p) \/ Middle(p) \/ Ending(p)
  BY DEF Command, Middle, Ending

LEMMA AtWorkStep ==
  ASSUME Shape, NEW p \in Procs, Middle(p) \/ Ending(p)
  PROVE  p \in Working /\ proc[p] \in Active /\ ~Start(p)
<1>1. Command(p)
  BY DEF Command, Middle, Ending
<1>2. ~Start(p)
  <2>1. Start(p) => proc[p].at = "idle"
    BY DEF Start, Idle
  <2>2. CASE Ending(p)
    BY <2>1, <2>2 DEF Ending, Blocked, PublishedOk, PublishedLoud, EnqueueWrite, EnqueueFails
  <2>3. CASE WriteCounter(p) \/ Look(p) \/ ReconcileRead(p) \/ ReconcileWrite(p)
    BY <2>1, <2>3 DEF WriteCounter, Look, ReconcileRead, ReconcileWrite
  <2>4. CASE SweepRead(p) \/ SweepWrite(p) \/ OpenQueue(p) \/ DrainNext(p) \/ DrainEnds(p)
    BY <2>1, <2>4 DEF SweepRead, SweepWrite, OpenQueue, DrainNext, DrainEnds, Step
  <2>5. CASE Refuse(p) \/ SentOk(p) \/ SentSilent(p) \/ SentLoud(p)
    BY <2>1, <2>5 DEF Refuse, SentOk, SentSilent, SentLoud
  <2>6. CASE PublishedSilent(p) \/ EnqueueRead(p)
    BY <2>1, <2>6 DEF PublishedSilent, EnqueueRead
  <2>7. CASE ReadCounter(p)
    BY <2>1, <2>7 DEF ReadCounter
  <2>8. CASE Transmit(p)
    BY <2>1, <2>8 DEF Transmit
  <2>. QED
    BY <2>2, <2>3, <2>4, <2>5, <2>6, <2>7, <2>8 DEF Middle
<1>. QED
  BY <1>1, <1>2, AtStage

(* What such a step may change of the record of its command.               *)
Moves == {<<"build", "stamp">>, <<"resign", "restamp">>, <<"stamp", "look">>, <<"restamp", "send">>,
          <<"look", "reconcile">>, <<"reconcile", "wipe">>, <<"reconcile", "publish">>,
          <<"reconcile", "sweep">>, <<"reconcile", "push">>, <<"wipe", "publish">>,
          <<"wipe", "sweep">>, <<"wipe", "push">>, <<"sweep", "rewrite">>, <<"sweep", "open">>,
          <<"rewrite", "open">>, <<"open", "drain">>, <<"drain", "resign">>, <<"drain", "publish">>,
          <<"send", "publish">>, <<"send", "sending">>, <<"sending", "drain">>,
          <<"sending", "publish">>, <<"publish", "publishing">>, <<"publishing", "reconcile">>,
          <<"push", "write">>}

LEMMA MiddleIs ==
  ASSUME Shape, Shape', NEW p \in Procs, Middle(p)
  PROVE  /\ p \in Working' /\ proc'[p] \in Active
         /\ <<proc[p].at, proc'[p].at>> \in Moves
         /\ proc'[p].item = proc[p].item /\ proc'[p].session = proc[p].session
         /\ Look(p) \/ PublishedSilent(p) \/ proc'[p].next = proc[p].next
         /\ WriteCounter(p) \/ (proc'[p].seq = proc[p].seq /\ proc'[p].again = proc[p].again)
         /\ ReadCounter(p) \/ proc'[p].read = proc[p].read
         /\ Refuse(p) \/ SentLoud(p) \/ proc'[p].latch = proc[p].latch
         /\ Transmit(p) \/ proc'[p].reached = proc[p].reached
         /\ told' = told /\ line' = line /\ unkept' = unkept
<1>0. proc[p] \in Active /\ p \in Working
  BY AtWorkStep
<1>. DEFINE Same == /\ proc'[p].item = proc[p].item /\ proc'[p].session = proc[p].session
                    /\ told' = told /\ line' = line /\ unkept' = unkept
            Onto == proc'[p].next = proc[p].next
            Seqs == proc'[p].seq = proc[p].seq /\ proc'[p].again = proc[p].again
            Read == proc'[p].read = proc[p].read
            Latch == proc'[p].latch = proc[p].latch
            Reached == proc'[p].reached = proc[p].reached
            Move == <<proc[p].at, proc'[p].at>> \in Moves
            Claim == /\ Move /\ Same /\ (WriteCounter(p) \/ Seqs) /\ (ReadCounter(p) \/ Read)
                     /\ (Refuse(p) \/ SentLoud(p) \/ Latch) /\ (Transmit(p) \/ Reached)
                     /\ (Look(p) \/ PublishedSilent(p) \/ Onto)
<1>. USE <1>0 DEF Shape, Commands, Active, Moves
<1>1. ASSUME ReadCounter(p) PROVE Claim
  <2>1. PICK way \in {<<"build", "stamp">>, <<"resign", "restamp">>} :
          proc[p].at = way[1] /\ proc' = [proc EXCEPT ![p].at = way[2], ![p].read = state]
    BY <1>1 DEF ReadCounter
  <2>2. proc'[p].at = way[2] /\ Seqs /\ Latch /\ Reached /\ Onto
    BY <2>1
  <2>. QED
    BY <1>1, <2>1, <2>2 DEF ReadCounter, fate, marks, kept
<1>2. ASSUME WriteCounter(p) PROVE Claim
  BY <1>2 DEF WriteCounter, fate, marks, kept
<1>3. ASSUME Look(p) PROVE Claim
  BY <1>3 DEF Look, fate, marks, kept
<1>4. ASSUME DrainNext(p) \/ DrainEnds(p) PROVE Claim
  BY <1>4 DEF DrainNext, DrainEnds, Step, fate, marks, kept
<1>5. ASSUME Refuse(p) PROVE Claim
  BY <1>5 DEF Refuse
<1>6. ASSUME Transmit(p) PROVE Claim
  <2>1. PICK reached \in BOOLEAN, way \in {<<"send", "sending">>, <<"publish", "publishing">>} :
          proc[p].at = way[1] /\ proc' = [proc EXCEPT ![p].at = way[2], ![p].reached = reached]
    BY <1>6 DEF Transmit
  <2>2. proc'[p].at = way[2] /\ Seqs /\ Latch /\ Read /\ Onto
    BY <2>1
  <2>3. Move
    BY <2>1, <2>2
  <2>4. proc'[p].item = proc[p].item /\ proc'[p].session = proc[p].session
    BY <2>1
  <2>. QED
    BY <1>6, <2>2, <2>3, <2>4 DEF Transmit, fate, marks, kept
<1>7. ASSUME SentOk(p) PROVE Claim
  BY <1>7 DEF SentOk, fate, marks, kept
<1>8. ASSUME SentSilent(p) PROVE Claim
  BY <1>8 DEF SentSilent, AfterFailure
<1>9. ASSUME SentLoud(p) PROVE Claim
  BY <1>9 DEF SentLoud, kept
<1>10. ASSUME PublishedSilent(p) PROVE Claim
  BY <1>10 DEF PublishedSilent
<1>11. ASSUME EnqueueRead(p) PROVE Claim
  BY <1>11 DEF EnqueueRead
<1>20. proc[p].next \in Onward
  OBVIOUS
<1>15. ASSUME ReconcileRead(p) PROVE Claim
  <2>1. CASE queue.binding = proc[p].binding
    BY <1>15, <1>20, <2>1 DEF ReconcileRead, Onward, fate, marks, kept
  <2>2. CASE queue.binding # proc[p].binding
    BY <1>15, <2>2 DEF ReconcileRead, fate, marks, kept
  <2>. QED
    BY <2>1, <2>2
<1>16. ASSUME ReconcileWrite(p) PROVE Claim
  BY <1>16, <1>20 DEF ReconcileWrite, Onward
<1>17. ASSUME SweepRead(p) PROVE Claim
  BY <1>17 DEF SweepRead
<1>18. ASSUME SweepWrite(p) PROVE Claim
  BY <1>18 DEF SweepWrite, Step, fate, marks, kept
<1>19. ASSUME OpenQueue(p) PROVE Claim
  BY <1>19 DEF OpenQueue, fate, marks, kept
<1>12. Claim
  BY <1>1, <1>2, <1>3, <1>4, <1>5, <1>6, <1>7, <1>8, <1>9, <1>10, <1>11,
     <1>15, <1>16, <1>17, <1>18, <1>19 DEF Middle
<1>13. proc'[p].at # "idle"
  BY <1>12
<1>14. proc'[p] # Idle
  BY <1>13 DEF Idle
<1>. QED
  BY <1>12, <1>14 DEF Working

LEMMA EndingIs ==
  ASSUME Shape, NEW p \in Procs, Ending(p)
  PROVE  proc'[p] = Idle
  BY DEF Shape, Commands, Ending, Blocked, PublishedOk, PublishedLoud, EnqueueWrite, EnqueueFails

LEMMA StartIs ==
  ASSUME Shape, NEW p \in Procs, Start(p)
  PROVE  /\ \E i \in Items : /\ told[i] = "no" /\ told' = [told EXCEPT ![i] = "going"]
                            /\ proc'[p].item = i
         /\ proc'[p].at = "build" /\ proc'[p].latch = Loaded(proc'[p].session)
         /\ proc[p] = Idle /\ (shared' = (shared \/ Busy))
         /\ state' = state /\ queue' = queue /\ latch' = latch /\ log' = log /\ line' = line
         /\ dropped' = dropped /\ lapsed' = lapsed /\ unheard' = unheard /\ refused' = refused
         /\ unkept' = unkept
<1>1. PICK i \in Items, s \in Sessions :
        /\ proc[p] = Idle /\ told[i] = "no" /\ told' = [told EXCEPT ![i] = "going"]
        /\ proc' = [proc EXCEPT ![p] =
             [at |-> "build", next |-> "publish", session |-> s, item |-> i,
              binding |-> state.binding, latch |-> Loaded(s), seq |-> 0, again |-> 0,
              read |-> state, doc |-> queue, reached |-> FALSE]]
  BY DEF Start
<1>2. /\ proc'[p].item = i /\ proc'[p].at = "build" /\ proc'[p].session = s
      /\ proc'[p].latch = Loaded(s)
  BY <1>1 DEF Shape, Commands
<1>3. /\ shared' = (shared \/ Busy)
      /\ state' = state /\ queue' = queue /\ latch' = latch /\ log' = log /\ line' = line
      /\ dropped' = dropped /\ lapsed' = lapsed /\ unheard' = unheard /\ refused' = refused
      /\ unkept' = unkept
  BY DEF Start, files, marks, kept
<1>. QED
  BY <1>1, <1>2, <1>3

(* Alone, a step of a command finds every other command and hook at rest.  *)
LEMMA OnlyOne ==
  ASSUME Shape, Shape', Alone, ~shared', NEW p \in Procs, Command(p)
  PROVE  /\ \A q \in Procs \ {p} : proc[q] = Idle /\ proc'[q] = Idle
         /\ \A q \in Working' : q = p
         /\ \A h \in Hooks : hook[h] = Free /\ hook'[h] = Free
<1>1. \A q \in Procs \ {p} : proc'[q] = proc[q] /\ hook' = hook
  BY OthersStay
<1>2. CASE Start(p)
  <2>1. ~Busy
    BY <1>2, StartIs
  <2>. QED
    BY <1>1, <1>2, <2>1, OthersStay DEF Busy, Working
<1>3. CASE Middle(p) \/ Ending(p)
  <2>1. p \in Working
    BY <1>3, AtWorkStep
  <2>. QED
    BY <1>1, <2>1, OthersStay DEF Alone, Working
<1>. QED
  BY <1>2, <1>3, CommandSteps

LEMMA AloneStep ==
  ASSUME Shape, Shape', Alone, ~shared', [Next]_vars
  PROVE  Alone'
<1>1. ASSUME NEW p \in Procs, Command(p) PROVE Alone'
  BY <1>1, OnlyOne DEF Alone
<1>2. ASSUME NEW h \in Hooks, HookReads(h) PROVE Alone'
  <2>1. ~Busy /\ proc' = proc
    BY <1>2 DEF HookReads
  <2>2. \A g \in Hooks \ {h} : hook'[g] = Free
    BY <1>2, <2>1 DEF HookReads, Busy, Shape, Commands
  <2>3. Working' = {}
    BY <2>1 DEF Busy, Working
  <2>. QED
    BY <2>2, <2>3 DEF Alone
<1>3. ASSUME NEW h \in Hooks, HookWrites(h) PROVE Alone'
  <2>1. proc' = proc /\ \A g \in Hooks : hook'[g] = Free \/ hook'[g] = hook[g]
    BY <1>3 DEF HookWrites, Shape, Commands
  <2>. QED
    BY <2>1 DEF Alone, Working
<1>4. CASE Age \/ Rebind \/ UNCHANGED vars
  BY <1>4 DEF Age, Rebind, vars, files, Alone, Working
<1>. QED
  BY <1>1, <1>2, <1>3, <1>4 DEF Next

(* What a command may do to what is reported of the items, and to the line.*)
LEMMA ReportFate ==
  ASSUME Shape, Shape', NEW p \in Procs, Command(p)
  PROVE  \/ Middle(p) /\ told' = told /\ line' = line /\ unkept' = unkept
         \/ Start(p) /\ line' = line /\ unkept' = unkept
         \/ /\ Ending(p) /\ line' = line /\ unkept' = unkept /\ proc'[p] = Idle
            /\ \E word \in {"sent", "blocked"} :
                 /\ told' = [told EXCEPT ![proc[p].item] = word]
                 /\ word = "sent" => PublishedOk(p)
         \/ /\ EnqueueWrite(p) /\ proc'[p] = Idle /\ unkept' = unkept
            /\ told' = [told EXCEPT ![proc[p].item] = "queued"]
            /\ line' = Append(line, proc[p].item)
         \/ /\ EnqueueFails(p) /\ proc'[p] = Idle /\ line' = line
            /\ told' = [told EXCEPT ![proc[p].item] = "queued"]
            /\ unkept' = unkept \cup {proc[p].item}
<1>1. CASE Middle(p)
  BY <1>1, MiddleIs
<1>2. CASE Start(p)
  BY <1>2, StartIs
<1>3. CASE Blocked(p) \/ PublishedLoud(p)
  BY <1>3, EndingIs DEF Ending, Blocked, PublishedLoud, kept
<1>4. CASE PublishedOk(p)
  BY <1>4, EndingIs DEF Ending, PublishedOk, fate, marks, kept
<1>5. CASE EnqueueWrite(p)
  BY <1>5, EndingIs DEF Ending, EnqueueWrite
<1>6. CASE EnqueueFails(p)
  BY <1>6, EndingIs DEF Ending, EnqueueFails
<1>. QED
  BY <1>1, <1>2, <1>3, <1>4, <1>5, <1>6, CommandSteps DEF Ending

LEMMA ReportedStep ==
  ASSUME Shape, Shape', Alone, Reported, ~shared', [Next]_vars
  PROVE  Reported'
<1>0. line \in Seq(Items) /\ told \in [Items -> {"no", "going", "sent", "queued", "blocked"}]
  BY DEF Shape, Records
<1>1. ASSUME NEW p \in Procs, Command(p) PROVE Reported'
  <2>1. \A q \in Working' : q = p
    BY <1>1, OnlyOne
  <2>2. CASE Middle(p) /\ told' = told /\ line' = line /\ unkept' = unkept
    <3>1. proc'[p].item = proc[p].item /\ p \in Working
      BY <2>2, MiddleIs, AtWorkStep
    <3>. QED
      BY <2>1, <2>2, <3>1 DEF Reported, Waits
  <2>3. CASE Start(p) /\ line' = line /\ unkept' = unkept
    <3>1. \E i \in Items : /\ told[i] = "no" /\ told' = [told EXCEPT ![i] = "going"]
                           /\ proc'[p].item = i
      BY <2>3, StartIs
    <3>. PICK i \in Items : /\ told[i] = "no" /\ told' = [told EXCEPT ![i] = "going"]
                            /\ proc'[p].item = i
      BY <3>1
    <3>2. told'[i] = "going" /\ \A j \in Items \ {i} : told'[j] = told[j]
      BY <1>0
    <3>. QED
      BY <2>1, <2>3, <3>2 DEF Reported, Waits
  <2>4. ASSUME p \in Working, proc'[p] = Idle, line' = line, unkept' = unkept,
               NEW word \in {"sent", "blocked"}, told' = [told EXCEPT ![proc[p].item] = word]
        PROVE  Reported'
    <3>1. proc[p].item \in Items /\ told[proc[p].item] = "going" /\ Working' = {}
      BY <2>1, <2>4 DEF Shape, Commands, Working, Active, Reported
    <3>2. told'[proc[p].item] = word /\ \A j \in Items \ {proc[p].item} : told'[j] = told[j]
      BY <1>0, <2>4, <3>1
    <3>. QED
      BY <2>4, <3>1, <3>2 DEF Reported, Waits
  <2>6. ASSUME p \in Working, proc'[p] = Idle, line' = line,
               told' = [told EXCEPT ![proc[p].item] = "queued"],
               unkept' = unkept \cup {proc[p].item}
        PROVE  Reported'
    <3>1. proc[p].item \in Items /\ told[proc[p].item] = "going" /\ Working' = {}
      BY <2>1, <2>6 DEF Shape, Commands, Working, Active, Reported
    <3>2. told'[proc[p].item] = "queued" /\ \A j \in Items \ {proc[p].item} : told'[j] = told[j]
      BY <1>0, <2>6, <3>1
    <3>. QED
      BY <2>6, <3>1, <3>2 DEF Reported, Waits
  <2>5. ASSUME p \in Working, proc'[p] = Idle, line' = Append(line, proc[p].item), unkept' = unkept,
               told' = [told EXCEPT ![proc[p].item] = "queued"]
        PROVE  Reported'
    <3>. DEFINE x == proc[p].item
    <3>1. x \in Items /\ told[x] = "going" /\ Working' = {}
      BY <2>1, <2>5 DEF Shape, Commands, Working, Active, Reported
    <3>2. told'[x] = "queued" /\ \A j \in Items \ {x} : told'[j] = told[j]
      BY <1>0, <2>5, <3>1
    <3>3. \A a \in 1..Len(line) : line[a] # x
      BY <1>0, <3>1 DEF Reported, Waits
    <3>4. /\ Len(line') = Len(line) + 1 /\ line'[Len(line) + 1] = x
          /\ \A a \in 1..Len(line) : line'[a] = line[a]
          /\ Len(line) \in Nat
      BY <1>0, <2>5, <3>1
    <3>. HIDE DEF x
    <3>5. \A i \in Items :
            /\ (\E a \in 1..Len(line') : line'[a] = i) => told'[i] = "queued"
            /\ told'[i] = "queued" => (\E a \in 1..Len(line') : line'[a] = i) \/ i \in unkept'
      <4>1. ASSUME NEW i \in Items, i # x
            PROVE  (\E a \in 1..Len(line') : line'[a] = i) <=> Waits(i)
        BY <3>4, <4>1 DEF Waits
      <4>2. \E a \in 1..Len(line') : line'[a] = x
        BY <3>4
      <4>. QED
        BY <2>5, <3>2, <4>1, <4>2 DEF Reported
    <3>6. \A a, b \in 1..Len(line') : line'[a] = line'[b] => a = b
      <4>1. \A a \in 1..Len(line') : a \in 1..Len(line) \/ a = Len(line) + 1
        BY <3>4
      <4>. QED
        BY <3>3, <3>4, <4>1 DEF Reported
    <3>. QED
      BY <3>1, <3>5, <3>6 DEF Reported, Waits
  <2>. QED
    BY <1>1, <2>2, <2>3, <2>4, <2>5, <2>6, ReportFate, AtWorkStep DEF Ending
<1>2. ASSUME NEW h \in Hooks, HookReads(h) \/ HookWrites(h) PROVE Reported'
  BY <1>2 DEF HookReads, HookWrites, fate, marks, kept, Reported, Waits, Working
<1>3. CASE Age \/ Rebind \/ UNCHANGED vars
  BY <1>3 DEF Age, Rebind, vars, fate, marks, kept, Reported, Waits, Working
<1>. QED
  BY <1>1, <1>2, <1>3 DEF Next

(* Only two steps of a command write the counter or a row.                 *)
LEMMA CounterFrame ==
  ASSUME Shape, NEW p \in Procs, Command(p)
  PROVE  WriteCounter(p) \/ state' = state
<1>1. CASE Start(p) \/ ReadCounter(p) \/ Blocked(p)
  BY <1>1 DEF Start, ReadCounter, Blocked, files
<1>2. CASE DrainNext(p) \/ DrainEnds(p) \/ Refuse(p) \/ Transmit(p)
  BY <1>2 DEF DrainNext, DrainEnds, Refuse, Transmit, files
<1>3. CASE SentOk(p) \/ SentSilent(p) \/ SentLoud(p)
  BY <1>3 DEF SentOk, SentSilent, SentLoud
<1>4. CASE PublishedOk(p) \/ PublishedSilent(p) \/ PublishedLoud(p)
  BY <1>4 DEF PublishedOk, PublishedSilent, PublishedLoud, files
<1>5. CASE EnqueueRead(p) \/ EnqueueWrite(p) \/ EnqueueFails(p)
  BY <1>5 DEF EnqueueRead, EnqueueWrite, EnqueueFails, files
<1>6. CASE Look(p) \/ ReconcileRead(p) \/ ReconcileWrite(p)
  BY <1>6 DEF Look, ReconcileRead, ReconcileWrite, files
<1>7. CASE SweepRead(p) \/ SweepWrite(p) \/ OpenQueue(p)
  BY <1>7 DEF SweepRead, SweepWrite, OpenQueue, files
<1>. QED
  BY <1>1, <1>2, <1>3, <1>4, <1>5, <1>6, <1>7 DEF Command

(* Which steps a command may take from a stage.                            *)
LEMMA FromPublish ==
  ASSUME Shape, NEW p \in Procs, Middle(p), proc[p].at \in {"publish", "send"}
  PROVE  Transmit(p) \/ Refuse(p)
<1>1. ~(ReadCounter(p) \/ WriteCounter(p) \/ Look(p) \/ ReconcileRead(p) \/ ReconcileWrite(p))
  BY DEF ReadCounter, WriteCounter, Look, ReconcileRead, ReconcileWrite
<1>2. ~(SweepRead(p) \/ SweepWrite(p) \/ OpenQueue(p) \/ DrainNext(p) \/ DrainEnds(p))
  BY DEF SweepRead, SweepWrite, OpenQueue, DrainNext, DrainEnds, Step
<1>3. ~(SentOk(p) \/ SentSilent(p) \/ SentLoud(p) \/ PublishedSilent(p) \/ EnqueueRead(p))
  BY DEF SentOk, SentSilent, SentLoud, PublishedSilent, EnqueueRead
<1>. QED
  BY <1>1, <1>2, <1>3 DEF Middle

LEMMA FromPublishing ==
  ASSUME Shape, NEW p \in Procs, Middle(p), proc[p].at = "publishing"
  PROVE  PublishedSilent(p)
<1>1. ~(ReadCounter(p) \/ WriteCounter(p) \/ Look(p) \/ ReconcileRead(p) \/ ReconcileWrite(p))
  BY DEF ReadCounter, WriteCounter, Look, ReconcileRead, ReconcileWrite
<1>2. ~(SweepRead(p) \/ SweepWrite(p) \/ OpenQueue(p) \/ DrainNext(p) \/ DrainEnds(p))
  BY DEF SweepRead, SweepWrite, OpenQueue, DrainNext, DrainEnds, Step
<1>3. ~(SentOk(p) \/ SentSilent(p) \/ SentLoud(p) \/ Refuse(p) \/ EnqueueRead(p))
  BY DEF SentOk, SentSilent, SentLoud, Refuse, EnqueueRead
<1>4. ~Transmit(p)
  BY DEF Transmit
<1>. QED
  BY <1>1, <1>2, <1>3, <1>4 DEF Middle

LEMMA FromReconcile ==
  ASSUME Shape, NEW p \in Procs, Middle(p), proc[p].at \in {"reconcile", "wipe"}
  PROVE  ReconcileRead(p) \/ ReconcileWrite(p)
<1>1. ~(WriteCounter(p) \/ Look(p) \/ Refuse(p) \/ PublishedSilent(p))
  BY DEF WriteCounter, Look, Refuse, PublishedSilent
<1>2. ~(SweepRead(p) \/ SweepWrite(p) \/ OpenQueue(p) \/ DrainNext(p) \/ DrainEnds(p))
  BY DEF SweepRead, SweepWrite, OpenQueue, DrainNext, DrainEnds, Step
<1>3. ~(SentOk(p) \/ SentSilent(p) \/ SentLoud(p) \/ EnqueueRead(p))
  BY DEF SentOk, SentSilent, SentLoud, EnqueueRead
<1>4. ~Transmit(p)
  BY DEF Transmit
<1>5. ~ReadCounter(p)
  BY DEF ReadCounter
<1>. QED
  BY <1>1, <1>2, <1>3, <1>4, <1>5 DEF Middle

LEMMA FromSending ==
  ASSUME Shape, NEW p \in Procs, Middle(p), proc[p].at = "sending"
  PROVE  SentOk(p) \/ SentSilent(p) \/ SentLoud(p)
<1>1. ~(WriteCounter(p) \/ Look(p) \/ ReconcileRead(p) \/ ReconcileWrite(p))
  BY DEF WriteCounter, Look, ReconcileRead, ReconcileWrite
<1>2. ~(SweepRead(p) \/ SweepWrite(p) \/ OpenQueue(p) \/ DrainNext(p) \/ DrainEnds(p))
  BY DEF SweepRead, SweepWrite, OpenQueue, DrainNext, DrainEnds, Step
<1>3. ~(Refuse(p) \/ PublishedSilent(p) \/ EnqueueRead(p))
  BY DEF Refuse, PublishedSilent, EnqueueRead
<1>4. ~Transmit(p)
  BY DEF Transmit
<1>5. ~ReadCounter(p)
  BY DEF ReadCounter
<1>. QED
  BY <1>1, <1>2, <1>3, <1>4, <1>5 DEF Middle

LEMMA FromSweep ==
  ASSUME Shape, NEW p \in Procs, Middle(p), proc[p].at \in {"sweep", "push"}
  PROVE  SweepRead(p) \/ EnqueueRead(p)
<1>1. ~(WriteCounter(p) \/ Look(p) \/ ReconcileRead(p) \/ ReconcileWrite(p))
  BY DEF WriteCounter, Look, ReconcileRead, ReconcileWrite
<1>2. ~(SweepWrite(p) \/ OpenQueue(p) \/ DrainNext(p) \/ DrainEnds(p) \/ Refuse(p))
  BY DEF SweepWrite, OpenQueue, DrainNext, DrainEnds, Step, Refuse
<1>3. ~(SentOk(p) \/ SentSilent(p) \/ SentLoud(p) \/ PublishedSilent(p))
  BY DEF SentOk, SentSilent, SentLoud, PublishedSilent
<1>4. ~Transmit(p)
  BY DEF Transmit
<1>5. ~ReadCounter(p)
  BY DEF ReadCounter
<1>. QED
  BY <1>1, <1>2, <1>3, <1>4, <1>5 DEF Middle

LEMMA NumbersStep ==
  ASSUME Shape, Shape', Alone, Numbers, ~shared', [Next]_vars
  PROVE  Numbers'
<1>0. /\ log \in Seq(Row) /\ Len(log) \in Nat /\ state.counter \in Nat
      /\ \A i \in 1..Len(log) : log[i].seq \in Nat
  <2>1. log \in Seq(Row) /\ state.counter \in Nat
    BY DEF Shape, Records, Files, StateDoc
  <2>2. \A i \in 1..Len(log) : log[i] \in Row
    BY <2>1, ElementOfSeq
  <2>. QED
    BY <2>1, <2>2 DEF Row
<1>1. ASSUME NEW p \in Procs, Command(p) PROVE Numbers'
  <2>1. (\A q \in Working' : q = p) /\ \A h \in Hooks : hook'[h] = Free
    BY <1>1, OnlyOne
  <2>2. CASE Start(p)
    <3>1. proc'[p].at = "build" /\ log' = log /\ state' = state
      BY <2>2, StartIs
    <3>. QED
      BY <2>1, <3>1 DEF Numbers, Numbered
  <2>3. CASE Ending(p)
    <3>1. p \notin Working' /\ log' = log /\ state' = state
      BY <2>3, EndingIs DEF Ending, Blocked, PublishedOk, PublishedLoud, EnqueueWrite, EnqueueFails, files, Working
    <3>. QED
      BY <2>1, <3>1 DEF Numbers
  <2>4. CASE Middle(p)
    <3>0. /\ p \in Working /\ Numbered(p) /\ proc[p] \in Active
          /\ proc[p].seq \in Nat /\ proc[p].again \in Nat /\ proc[p].read.counter \in Nat
      BY <2>4, AtWorkStep DEF Numbers, Active, StateDoc
    <3>1. CASE ReadCounter(p)
      <4>1. proc'[p].read = state /\ proc[p].at \in {"build", "resign"}
        BY <3>0, <3>1 DEF ReadCounter, Shape, Commands, Active
      <4>2. log' = log /\ state' = state /\ proc'[p].seq = proc[p].seq
        <5>1. ~WriteCounter(p)
          BY <4>1 DEF WriteCounter
        <5>. QED
          BY <2>4, <3>1, <5>1, MiddleIs DEF ReadCounter, files
      <4>3. <<proc[p].at, proc'[p].at>> \in Moves
        BY <2>4, MiddleIs
      <4>4. \/ proc[p].at = "build" /\ proc'[p].at = "stamp"
            \/ proc[p].at = "resign" /\ proc'[p].at = "restamp"
        BY <4>1, <4>3 DEF Moves
      <4>5. Numbered(p)'
        BY <3>0, <4>2, <4>1, <4>4 DEF Numbered, Unused, Spent
      <4>. QED
        BY <2>1, <4>2, <4>5 DEF Numbers
    <3>2. CASE WriteCounter(p)
      <4>. DEFINE n == state.counter + 1
      <4>1. proc[p].at \in {"stamp", "restamp"} /\ proc[p].read.counter = state.counter
        BY <3>0, <3>2 DEF WriteCounter, Numbered
      <4>2. state'.counter = n /\ log' = log /\ proc[p].read \in StateDoc
        BY <3>0, <3>2, <4>1 DEF WriteCounter, Counted, Active, StateDoc
      <4>3. n \in Nat /\ n > state.counter /\ \A i \in 1..Len(log) : log[i].seq < n
        BY <1>0 DEF Numbers
      <4>. HIDE DEF n
      <4>4. CASE proc[p].at = "stamp"
        <5>1. proc'[p].at = "look" /\ proc'[p].seq = n
          BY <3>0, <3>2, <4>1, <4>4 DEF WriteCounter, Shape, Commands, Active, n
        <5>. QED
          BY <1>0, <2>1, <4>2, <4>3, <5>1 DEF Numbers, Numbered, Unused, Spent
      <4>5. CASE proc[p].at = "restamp"
        <5>1. proc'[p].at = "send" /\ proc'[p].seq = proc[p].seq /\ proc'[p].again = n
          BY <3>0, <3>2, <4>1, <4>5 DEF WriteCounter, Shape, Commands, Active, n
        <5>2. proc[p].seq <= state.counter /\ Unused(proc[p].seq)
          BY <3>0, <4>5 DEF Numbered, Spent
        <5>3. Numbered(p)'
          BY <1>0, <3>0, <4>2, <4>3, <5>1, <5>2 DEF Numbered, Unused, Spent
        <5>. QED
          BY <1>0, <2>1, <4>2, <4>3, <5>3 DEF Numbers
      <4>. QED
        BY <4>1, <4>4, <4>5
    <3>3. CASE Transmit(p)
      <4>1. /\ state' = state /\ proc'[p].seq = proc[p].seq
            /\ \/ proc[p].at = "send" /\ proc'[p].at = "sending"
               \/ proc[p].at = "publish" /\ proc'[p].at = "publishing"
        <5>1. /\ state' = state /\ proc[p].at \in {"send", "publish"}
              /\ proc'[p].at \in {"sending", "publishing"}
          BY <3>0, <3>3 DEF Transmit, files, Shape, Commands, Active
        <5>2. <<proc[p].at, proc'[p].at>> \in Moves /\ proc'[p].seq = proc[p].seq
          BY <2>4, <3>3, <5>1, MiddleIs DEF WriteCounter
        <5>. QED
          BY <5>1, <5>2 DEF Moves
      <4>2. CASE log' = log
        BY <2>1, <3>0, <4>1, <4>2 DEF Numbers, Numbered, Unused, Spent
      <4>3. CASE log' = Append(log, Parcel(p)) /\ proc[p].at = "send"
        <5>1. Parcel(p).seq = proc[p].again
          BY <4>3 DEF Parcel
        <5>2. proc[p].again <= state.counter /\ proc[p].again # proc[p].seq
          BY <3>0, <4>3 DEF Numbered
        <5>3. /\ Len(log') = Len(log) + 1 /\ log'[Len(log) + 1] = Parcel(p)
              /\ \A i \in 1..Len(log) : log'[i] = log[i]
          BY <1>0, <4>3
        <5>4. \A i \in 1..Len(log') : i \in 1..Len(log) \/ i = Len(log) + 1
          BY <1>0, <5>3
        <5>5. \A i \in 1..Len(log') : log'[i].seq <= state.counter
          BY <5>1, <5>2, <5>3, <5>4 DEF Numbers
        <5>6. \A i \in 1..Len(log') : log'[i].seq # proc[p].seq
          BY <3>0, <4>3, <5>1, <5>2, <5>3, <5>4 DEF Numbered, Unused, Spent
        <5>7. Numbered(p)'
          BY <3>0, <4>1, <4>3, <5>6 DEF Numbered, Unused, Spent
        <5>. QED
          BY <2>1, <4>1, <5>5, <5>7 DEF Numbers
      <4>4. CASE log' = Append(log, Parcel(p)) /\ proc[p].at = "publish"
        <5>1. Parcel(p).seq = proc[p].seq
          BY <4>4 DEF Parcel
        <5>2. proc[p].seq <= state.counter
          BY <3>0, <4>4 DEF Numbered
        <5>3. /\ Len(log') = Len(log) + 1 /\ log'[Len(log) + 1] = Parcel(p)
              /\ \A i \in 1..Len(log) : log'[i] = log[i]
          BY <1>0, <4>4
        <5>4. \A i \in 1..Len(log') : i \in 1..Len(log) \/ i = Len(log) + 1
          BY <1>0, <5>3
        <5>5. \A i \in 1..Len(log') : log'[i].seq <= state.counter
          BY <5>1, <5>2, <5>3, <5>4 DEF Numbers
        <5>6. Numbered(p)'
          BY <4>1, <4>4, <5>2 DEF Numbered, Spent
        <5>. QED
          BY <2>1, <4>1, <5>5, <5>6 DEF Numbers
      <4>. QED
        BY <1>1, <4>1, <4>2, <4>3, <4>4, LogFate
    <3>4. CASE ~(ReadCounter(p) \/ WriteCounter(p) \/ Transmit(p))
      <4>1. log' = log /\ state' = state /\ proc'[p].seq = proc[p].seq
        BY <1>1, <2>4, <3>4, LogFate, CounterFrame, MiddleIs
      <4>2. <<proc[p].at, proc'[p].at>> \in Moves
        BY <2>4, MiddleIs
      <4>3. proc[p].at \notin {"build", "stamp", "resign", "restamp", "publish"}
        <5>1. CASE DrainNext(p) \/ DrainEnds(p) \/ Refuse(p)
          BY <5>1 DEF DrainNext, DrainEnds, Refuse, Step
        <5>2. CASE SentOk(p) \/ SentSilent(p) \/ SentLoud(p) \/ PublishedSilent(p) \/ EnqueueRead(p)
          BY <5>2 DEF SentOk, SentSilent, SentLoud, PublishedSilent, EnqueueRead
        <5>3. CASE Look(p) \/ ReconcileRead(p) \/ ReconcileWrite(p)
          BY <5>3 DEF Look, ReconcileRead, ReconcileWrite
        <5>4. CASE SweepRead(p) \/ SweepWrite(p) \/ OpenQueue(p)
          BY <5>4 DEF SweepRead, SweepWrite, OpenQueue, Step
        <5>. QED
          BY <2>4, <3>4, <5>1, <5>2, <5>3, <5>4 DEF Middle
      <4>4. /\ proc'[p].at \notin {"build", "stamp", "restamp", "send"}
            /\ Spent(p) => Spent(p)'
        <5>1. proc'[p].at \notin {"build", "stamp", "restamp", "send"}
          BY <4>2, <4>3 DEF Moves
        <5>2. CASE proc[p].at \in {"push", "write"}
          BY <4>2, <5>2 DEF Moves, Spent
        <5>3. CASE proc[p].at = "publishing"
          <6>1. PublishedSilent(p)
            BY <2>4, <3>4, <5>3, FromPublishing
          <6>2. proc'[p].at = "reconcile" /\ proc'[p].next = "push"
            BY <3>0, <6>1 DEF PublishedSilent, Shape, Commands, Active
          <6>. QED
            BY <6>2 DEF Spent
        <5>4. CASE proc[p].at \in {"reconcile", "wipe"} /\ proc[p].next = "push"
          <6>1. ReconcileRead(p) \/ ReconcileWrite(p)
            BY <2>4, <5>4, FromReconcile
          <6>2. proc'[p].at \in {"push", "wipe"} /\ proc'[p].next = "push"
            BY <3>0, <5>4, <6>1 DEF ReconcileRead, ReconcileWrite, Shape, Commands, Active
          <6>. QED
            BY <6>2 DEF Spent
        <5>. QED
          BY <5>1, <5>2, <5>3, <5>4 DEF Spent
      <4>5. Numbered(p)'
        BY <3>0, <4>1, <4>3, <4>4 DEF Numbered, Unused
      <4>. QED
        BY <2>1, <4>1, <4>5 DEF Numbers
    <3>. QED
      BY <3>1, <3>2, <3>3, <3>4
  <2>. QED
    BY <1>1, <2>2, <2>3, <2>4, CommandSteps
<1>2. ASSUME NEW h \in Hooks, HookReads(h) PROVE Numbers'
  <2>1. state' = state /\ log' = log /\ proc' = proc
    BY <1>2 DEF HookReads, files
  <2>2. \A g \in Hooks : hook'[g] # Free => hook'[g].read = state \/ hook'[g] = hook[g]
    BY <1>2 DEF HookReads, Shape, Commands
  <2>. QED
    BY <2>1, <2>2 DEF Numbers, Numbered, Unused, Spent, Working
<1>3. ASSUME NEW h \in Hooks, HookWrites(h) PROVE Numbers'
  <2>1. state'.counter = state.counter /\ log' = log /\ proc' = proc
    BY <1>3 DEF HookWrites, Numbers
  <2>2. \A g \in Hooks : hook'[g] # Free => hook'[g] = hook[g]
    BY <1>3 DEF HookWrites, Shape, Commands
  <2>. QED
    BY <2>1, <2>2 DEF Numbers, Numbered, Unused, Spent, Working
<1>4. CASE Age \/ Rebind \/ UNCHANGED vars
  <2>1. state'.counter = state.counter /\ log' = log /\ proc' = proc /\ hook' = hook
    BY <1>4 DEF Age, Rebind, vars, files, Shape, Files, StateDoc
  <2>. QED
    BY <2>1 DEF Numbers, Numbered, Unused, Spent, Working
<1>. QED
  BY <1>1, <1>2, <1>3, <1>4 DEF Next

(* A request that reaches the transport is stored: its number is new.      *)
LEMMA SendIs ==
  ASSUME Shape, Shape', Numbers, NEW p \in Procs, Transmit(p)
  PROVE  /\ \/ proc[p].at = "send" /\ proc'[p].at = "sending"
            \/ proc[p].at = "publish" /\ proc'[p].at = "publishing"
         /\ proc'[p].doc = proc[p].doc /\ proc'[p].item = proc[p].item
         /\ Parcel(p) \in Row
         /\ IF proc'[p].reached THEN log' = Append(log, Parcel(p)) ELSE log' = log
<1>1. PICK reached \in BOOLEAN, way \in {<<"send", "sending">>, <<"publish", "publishing">>} :
        /\ proc[p].at = way[1]
        /\ proc' = [proc EXCEPT ![p].at = way[2], ![p].reached = reached]
        /\ log' = IF reached THEN Stored(Parcel(p)) ELSE log
  BY DEF Transmit
<1>2. proc[p] \in Active /\ p \in Working /\ Numbered(p) /\ Parcel(p) \in Row
  BY <1>1, AtWork, ParcelIs DEF Stages, Numbers
<1>3. /\ proc'[p].at = way[2] /\ proc'[p].reached = reached
      /\ proc'[p].doc = proc[p].doc /\ proc'[p].item = proc[p].item
  BY <1>1, <1>2 DEF Shape, Commands, Active
<1>4. Unused(Parcel(p).seq)
  <2>1. CASE proc[p].at = "send"
    BY <1>2, <2>1 DEF Parcel, Numbered, Spent
  <2>2. CASE proc[p].at = "publish"
    BY <1>2, <2>2 DEF Parcel, Numbered, Spent
  <2>. QED
    BY <1>1, <2>1, <2>2
<1>5. Stored(Parcel(p)) = Append(log, Parcel(p))
  <2>1. DOMAIN log = 1..Len(log)
    BY DEF Shape, Records
  <2>. QED
    BY <1>4, <2>1 DEF Stored, Unused
<1>6. \/ proc[p].at = "send" /\ proc'[p].at = "sending"
      \/ proc[p].at = "publish" /\ proc'[p].at = "publishing"
  BY <1>1, <1>3
<1>. QED
  BY <1>1, <1>2, <1>3, <1>5, <1>6

LEMMA Appended ==
  ASSUME Shape, NEW row \in Row, log' = Append(log, row)
  PROVE  /\ Len(log') = Len(log) + 1 /\ log'[Len(log) + 1] = row /\ Len(log) \in Nat
         /\ \A i \in 1..Len(log) : log'[i] = log[i]
         /\ \A i \in 1..Len(log') : i \in 1..Len(log) \/ i = Len(log) + 1
  BY DEF Shape, Records

(* No row is taken back.                                                   *)
LEMMA PostedGrows ==
  ASSUME Shape, NEW p \in Procs, Command(p)
  PROVE  \A i : (Posted(i) => Posted(i)') /\ (SentFromQueue(i) => SentFromQueue(i)')
<1>1. CASE log' = log
  BY <1>1 DEF Posted, SentFromQueue
<1>2. CASE log' = Append(log, Parcel(p)) /\ Parcel(p) \in Row
  <2>1. /\ \A i \in 1..Len(log) : log'[i] = log[i] /\ i \in 1..Len(log')
    BY <1>2, Appended
  <2>. QED
    BY <2>1 DEF Posted, SentFromQueue
<1>. QED
  BY <1>1, <1>2, LogFate

LEMMA HonestStep ==
  ASSUME Shape, Shape', Alone, Numbers, Honest, ~shared', [Next]_vars
  PROVE  Honest'
<1>0. told \in [Items -> {"no", "going", "sent", "queued", "blocked"}]
  BY DEF Shape, Records
<1>1. ASSUME NEW p \in Procs, Command(p) PROVE Honest'
  <2>1. \A q \in Working' : q = p
    BY <1>1, OnlyOne
  <2>2. \A i : Posted(i) => Posted(i)'
    BY <1>1, PostedGrows
  <2>3. \A i \in Items : told'[i] = "sent" => Posted(i)'
    <3>1. CASE PublishedOk(p)
      <4>1. proc[p] \in Active /\ p \in Working
        BY <3>1, AtWorkStep DEF Ending
      <4>2. proc[p].item \in Items /\ Posted(proc[p].item)
        BY <3>1, <4>1 DEF PublishedOk, Honest, Active
      <4>3. \A i \in Items \ {proc[p].item} : told'[i] = told[i]
        BY <1>0, <3>1 DEF PublishedOk
      <4>. QED
        BY <2>2, <4>2, <4>3 DEF Honest
    <3>2. CASE ~PublishedOk(p)
      <4>1. \A i \in Items : told'[i] = "sent" => told[i] = "sent"
        <5>1. CASE told' = told
          BY <5>1
        <5>2. ASSUME NEW x \in Items, NEW word \in {"going", "queued", "blocked"},
                     told' = [told EXCEPT ![x] = word]
              PROVE  \A i \in Items : told'[i] = "sent" => told[i] = "sent"
          BY <1>0, <5>2
        <5>3. proc[p].item \in Items \/ Start(p)
          BY <1>1, CommandSteps, AtWorkStep DEF Active
        <5>. QED
          BY <1>1, <3>2, <5>1, <5>2, <5>3, ReportFate, StartIs
      <4>. QED
        BY <2>2, <4>1 DEF Honest
    <3>. QED
      BY <3>1, <3>2
  <2>4. ASSUME p \in Working', proc'[p].at = "publishing", proc'[p].reached
        PROVE  Posted(proc[p].item)'
    <3>1. ~Start(p) /\ ~Ending(p)
      BY <2>4, StartIs, EndingIs DEF Working
    <3>2. Middle(p)
      BY <1>1, <3>1, CommandSteps
    <3>3. proc[p].at = "publish"
      BY <2>4, <3>2, MiddleIs DEF Moves
    <3>4. Transmit(p)
      BY <3>2, <3>3, FromPublish DEF Refuse
    <3>5. log' = Append(log, Parcel(p)) /\ Parcel(p) \in Row /\ proc'[p].item = proc[p].item
      BY <2>4, <3>4, SendIs
    <3>6. Parcel(p).item = proc[p].item
      BY <3>3 DEF Parcel
    <3>7. Len(log) + 1 \in 1..Len(log') /\ log'[Len(log) + 1] = Parcel(p)
      BY <3>5, Appended
    <3>. QED
      BY <3>5, <3>6, <3>7 DEF Posted
  <2>. QED
    BY <2>1, <2>3, <2>4 DEF Honest
<1>2. ASSUME NEW h \in Hooks, HookReads(h) \/ HookWrites(h) PROVE Honest'
  BY <1>2 DEF HookReads, HookWrites, Honest, Posted, Working
<1>3. CASE Age \/ Rebind \/ UNCHANGED vars
  BY <1>3 DEF Age, Rebind, vars, Honest, Posted, Working
<1>. QED
  BY <1>1, <1>2, <1>3 DEF Next

LEMMA SavedLatched ==
  ASSUME Shape, Latched, NEW p \in Working, NEW stopped \in BOOLEAN, Save(p, stopped),
         proc[p].latch => stopped
  PROVE  /\ \A s \in refused' : latch' = [session |-> s, stopped |-> TRUE]
         /\ proc[p].session \in refused' => stopped
<1>1. CASE stopped
  BY <1>1 DEF Save
<1>2. CASE ~stopped
  BY <1>2 DEF Save, Latched
<1>. QED
  BY <1>1, <1>2

LEMMA LatchedStep ==
  ASSUME Shape, Shape', Alone, Latched, ~shared', [Next]_vars
  PROVE  Latched'
<1>1. ASSUME NEW p \in Procs, Command(p) PROVE Latched'
  <2>1. \A q \in Working' : q = p
    BY <1>1, OnlyOne
  <2>2. CASE Start(p)
    <3>1. /\ refused' = refused /\ latch' = latch /\ proc'[p].latch = Loaded(proc'[p].session)
      BY <2>2, StartIs
    <3>2. proc'[p].session \in refused => Loaded(proc'[p].session)
      BY DEF Latched, Loaded
    <3>. QED
      BY <2>1, <3>1, <3>2 DEF Latched
  <2>3. CASE Ending(p)
    <3>1. p \notin Working' /\ p \in Working
      BY <2>3, EndingIs, AtWorkStep DEF Working
    <3>2. \A s \in refused' : latch' = [session |-> s, stopped |-> TRUE]
      <4>1. CASE Blocked(p) \/ PublishedLoud(p)
        BY <3>1, <4>1, SavedLatched DEF Blocked, PublishedLoud, Latched
      <4>2. CASE PublishedOk(p)
        BY <4>2 DEF PublishedOk, files, fate, marks, Latched
      <4>3. CASE EnqueueWrite(p) \/ EnqueueFails(p)
        BY <4>3 DEF EnqueueWrite, EnqueueFails, files, Latched
      <4>. QED
        BY <2>3, <4>1, <4>2, <4>3 DEF Ending
    <3>. QED
      BY <2>1, <3>1, <3>2 DEF Latched
  <2>4. CASE Refuse(p) \/ SentLoud(p)
    <3>1. proc[p] \in Active /\ p \in Working
      BY <2>4, AtWorkStep DEF Middle
    <3>2. proc'[p].latch = TRUE /\ Save(p, TRUE)
      <4>1. CASE Refuse(p)
        BY <4>1, <3>1 DEF Refuse, Shape, Commands, Active
      <4>2. CASE SentLoud(p)
        BY <4>2, <3>1 DEF SentLoud, Shape, Commands, Active
      <4>. QED
        BY <2>4, <4>1, <4>2
    <3>. QED
      BY <2>1, <3>1, <3>2, SavedLatched DEF Latched
  <2>6. CASE PublishedSilent(p)
    <3>1. /\ proc[p] \in Active /\ p \in Working /\ proc'[p].latch = proc[p].latch
          /\ proc'[p].session = proc[p].session
      BY <2>6, AtWorkStep, MiddleIs DEF Middle, Refuse, SentLoud, PublishedSilent
    <3>2. Save(p, proc[p].latch) /\ proc[p].latch \in BOOLEAN
      BY <2>6, <3>1 DEF PublishedSilent, Active
    <3>3. /\ \A s \in refused' : latch' = [session |-> s, stopped |-> TRUE]
          /\ proc[p].session \in refused' => proc[p].latch
      BY <3>1, <3>2, SavedLatched
    <3>. QED
      BY <2>1, <3>1, <3>3 DEF Latched
  <2>5. CASE Middle(p) /\ ~Refuse(p) /\ ~SentLoud(p) /\ ~PublishedSilent(p)
    <3>1. p \in Working /\ proc'[p].latch = proc[p].latch /\ proc'[p].session = proc[p].session
      BY <2>5, AtWorkStep, MiddleIs
    <3>2. refused' = refused /\ latch' = latch
      <4>1. CASE ReadCounter(p) \/ WriteCounter(p) \/ DrainNext(p) \/ DrainEnds(p)
        BY <4>1 DEF ReadCounter, WriteCounter, DrainNext, DrainEnds, files, fate, marks
      <4>2. CASE Transmit(p) \/ SentOk(p) \/ SentSilent(p)
        BY <4>2 DEF Transmit, SentOk, SentSilent, files, fate, marks
      <4>3. CASE Look(p) \/ ReconcileRead(p) \/ ReconcileWrite(p)
        BY <4>3 DEF Look, ReconcileRead, ReconcileWrite, files, fate, marks
      <4>4. CASE SweepRead(p) \/ SweepWrite(p) \/ OpenQueue(p) \/ EnqueueRead(p)
        BY <4>4 DEF SweepRead, SweepWrite, OpenQueue, EnqueueRead, files, fate, marks
      <4>. QED
        BY <2>5, <4>1, <4>2, <4>3, <4>4 DEF Middle
    <3>. QED
      BY <2>1, <3>1, <3>2 DEF Latched
  <2>. QED
    BY <1>1, <2>2, <2>3, <2>4, <2>5, <2>6, CommandSteps
<1>2. ASSUME NEW h \in Hooks, HookReads(h) \/ HookWrites(h) PROVE Latched'
  BY <1>2 DEF HookReads, HookWrites, files, fate, marks, Latched, Working
<1>3. CASE Age \/ Rebind \/ UNCHANGED vars
  BY <1>3 DEF Age, Rebind, vars, files, fate, marks, Latched, Working
<1>. QED
  BY <1>1, <1>2, <1>3 DEF Next

(* What a sweep leaves of the queue is the queue without what has expired. *)
LEMMA SweptIsFewer ==
  ASSUME Shape
  PROVE  LET doc == Swept(queue) IN
         /\ Thins(doc.entries, queue.entries)
         /\ \A k \in 1..Len(queue.entries) :
              \/ queue.entries[k].item \in lapsed \cup Expired(queue)
              \/ \E j \in 1..Len(doc.entries) : doc.entries[j] = queue.entries[k]
<1>1. queue \in QueueDoc /\ queue.entries \in Seq(Entry)
  BY DEF Shape, Files, QueueDoc
<1>2. \A k \in 1..Len(queue.entries) : queue.entries[k].item \in ItemsOf(queue.entries)
  BY <1>1, ItemsAre
<1>. QED
  BY <1>1, <1>2, SweptIs DEF Expired

LEMMA CopyStep ==
  ASSUME Shape, Shape', Alone, Numbers, CopyIsQueue, ~shared', [Next]_vars
  PROVE  CopyIsQueue'
<1>1. ASSUME NEW p \in Procs, Command(p) PROVE CopyIsQueue'
  <2>1. \A q \in Working' : q = p
    BY <1>1, OnlyOne
  <2>2. ASSUME p \in Working', proc'[p].at \in Mirror PROVE queue' = proc'[p].doc
    <3>1. ~Start(p) /\ ~Ending(p)
      BY <2>2, StartIs, EndingIs DEF Working, Mirror, Filled
    <3>2. Middle(p) /\ <<proc[p].at, proc'[p].at>> \in Moves
      BY <1>1, <3>1, CommandSteps, MiddleIs
    <3>3. proc[p] \in Active /\ (proc[p].at \in Mirror => queue = proc[p].doc)
      BY <3>2, AtWorkStep DEF CopyIsQueue
    <3>4. CASE ReadCounter(p)
      <4>1. queue' = queue /\ proc'[p].doc = proc[p].doc
        BY <3>3, <3>4 DEF ReadCounter, files, Shape, Commands, Active
      <4>2. proc[p].at \in Mirror
        <5>1. proc[p].at \in {"build", "resign"}
          BY <3>4 DEF ReadCounter
        <5>. QED
          BY <2>2, <3>2, <5>1 DEF Moves, Mirror, Filled
      <4>. QED
        BY <3>3, <4>1, <4>2
    <3>5. CASE WriteCounter(p)
      <4>1. queue' = queue /\ proc'[p].doc = proc[p].doc
        BY <3>3, <3>5 DEF WriteCounter, Shape, Commands, Active
      <4>2. proc[p].at \in Mirror
        <5>1. proc[p].at \in {"stamp", "restamp"}
          BY <3>5 DEF WriteCounter
        <5>. QED
          BY <2>2, <3>2, <5>1 DEF Moves, Mirror, Filled
      <4>. QED
        BY <3>3, <4>1, <4>2
    <3>6. CASE OpenQueue(p)
      BY <3>3, <3>6 DEF OpenQueue, files, Shape, Commands, Active
    <3>7. CASE DrainNext(p)
      BY <3>3, <3>7 DEF DrainNext, Step, files, Shape, Commands, Active, Mirror
    <3>8. CASE DrainEnds(p) \/ Refuse(p) \/ SentSilent(p) \/ SentLoud(p)
      <4>1. proc'[p].at = "publish"
        <5>1. CASE DrainEnds(p)
          BY <3>3, <5>1 DEF DrainEnds, Step, Shape, Commands, Active
        <5>4. CASE SentLoud(p)
          BY <3>3, <5>4 DEF SentLoud, Shape, Commands, Active
        <5>2. CASE Refuse(p)
          BY <3>3, <5>2 DEF Refuse, Shape, Commands, Active
        <5>3. CASE SentSilent(p)
          BY <3>3, <5>3 DEF SentSilent, AfterFailure, Shape, Commands, Active
        <5>. QED
          BY <3>8, <5>1, <5>2, <5>3, <5>4
      <4>. QED
        BY <2>2, <4>1 DEF Mirror, Filled
    <3>9. CASE Transmit(p)
      <4>1. queue' = queue /\ proc'[p].doc = proc[p].doc /\ proc[p].at \in Mirror
        BY <2>2, <3>9, SendIs DEF Transmit, files, Mirror, Filled
      <4>. QED
        BY <3>3, <4>1
    <3>10. CASE SentOk(p)
      BY <3>3, <3>10 DEF SentOk, Shape, Commands, Active
    <3>11. CASE PublishedSilent(p)
      <4>1. proc'[p].at = "reconcile"
        BY <3>3, <3>11 DEF PublishedSilent, Shape, Commands, Active
      <4>. QED
        BY <2>2, <4>1 DEF Mirror, Filled
    <3>12. CASE Look(p) \/ EnqueueRead(p) \/ SweepRead(p) \/ SweepWrite(p)
      <4>1. proc'[p].at \in {"reconcile", "write", "open", "rewrite"}
        BY <3>3, <3>12 DEF Look, EnqueueRead, SweepRead, SweepWrite, Step, Shape, Commands, Active
      <4>. QED
        BY <2>2, <4>1 DEF Mirror, Filled
    <3>13. CASE ReconcileWrite(p)
      <4>1. proc'[p].at \in Onward
        BY <3>2, <3>3, <3>13, AtWorkStep DEF ReconcileWrite, Shape, Commands, Active
      <4>. QED
        BY <2>2, <4>1 DEF Onward, Mirror, Filled
    <3>14. CASE ReconcileRead(p)
      <4>1. queue' = queue /\ proc[p].next \in Onward
        BY <3>2, <3>14, AtWorkStep DEF ReconcileRead, files, Shape, Commands
      <4>2. CASE queue.binding = proc[p].binding
        <5>1. proc'[p].at \in Onward
          BY <3>3, <3>14, <4>1, <4>2 DEF ReconcileRead, Shape, Commands, Active
        <5>. QED
          BY <2>2, <5>1 DEF Onward, Mirror, Filled
      <4>3. CASE queue.binding # proc[p].binding
        <5>1. proc'[p].doc = queue
          BY <3>3, <3>14, <4>3 DEF ReconcileRead, Shape, Commands, Active
        <5>. QED
          BY <4>1, <5>1
      <4>. QED
        BY <4>2, <4>3
    <3>. QED
      BY <3>2, <3>4, <3>5, <3>6, <3>7, <3>8, <3>9, <3>10, <3>11, <3>12, <3>13, <3>14 DEF Middle
  <2>3. ASSUME p \in Working', proc'[p].at \in {"rewrite", "write"}
        PROVE  /\ Thins(proc'[p].doc.entries, queue'.entries)
               /\ \A k \in 1..Len(queue'.entries) :
                    \/ queue'.entries[k].item \in lapsed'
                    \/ \E j \in 1..Len(proc'[p].doc.entries) :
                         proc'[p].doc.entries[j] = queue'.entries[k]
    <3>1. ~Start(p) /\ ~Ending(p)
      BY <2>3, StartIs, EndingIs DEF Working
    <3>2. Middle(p) /\ <<proc[p].at, proc'[p].at>> \in Moves
      BY <1>1, <3>1, CommandSteps, MiddleIs
    <3>3. proc[p] \in Active /\ proc[p].at \in {"sweep", "push"}
      BY <2>3, <3>2, AtWorkStep DEF Moves
    <3>4. SweepRead(p) \/ EnqueueRead(p)
      BY <3>2, <3>3, FromSweep
    <3>5. queue' = queue /\ lapsed' = lapsed \cup Expired(queue) /\ proc'[p].doc = Swept(queue)
      <4>1. CASE SweepRead(p)
        BY <3>3, <4>1 DEF SweepRead, files, Shape, Commands, Active
      <4>2. CASE EnqueueRead(p)
        BY <3>3, <4>2 DEF EnqueueRead, files, Shape, Commands, Active
      <4>. QED
        BY <3>4, <4>1, <4>2
    <3>. QED
      BY <3>5, SweptIsFewer
  <2>. QED
    BY <2>1, <2>2, <2>3 DEF CopyIsQueue, Fewer
<1>2. ASSUME NEW h \in Hooks, HookReads(h) \/ HookWrites(h) PROVE CopyIsQueue'
  BY <1>2 DEF HookReads, HookWrites, files, fate, marks, kept, CopyIsQueue, Fewer, Working
<1>3. CASE Age \/ Rebind \/ UNCHANGED vars
  BY <1>3 DEF Age, Rebind, vars, files, fate, marks, kept, CopyIsQueue, Fewer, Working
<1>. QED
  BY <1>1, <1>2, <1>3 DEF Next

(***************************************************************************)
(* What a command may do to the queue while the files are its own: take    *)
(* entries out, or join its own at the end.  An entry leaves it as dropped *)
(* or expired, or as the head whose answer has come.                       *)
(***************************************************************************)
Leaves(p, old) ==
  \A i \in Items, k \in 1..Len(old) :
    old[k].item = i => Queued(i)' \/ Gone(i)' \/ (SentOk(p) /\ k = 1)

QueueFate(p) ==
  /\ dropped \subseteq dropped' /\ lapsed \subseteq lapsed'
  /\ \/ /\ ~EnqueueWrite(p) /\ Thins(queue'.entries, queue.entries) /\ Leaves(p, queue.entries)
        /\ Command(p)
     \/ /\ EnqueueWrite(p)
        /\ \E e \in Entry : LET joined == Append(queue.entries, e) IN
             /\ e.item = proc[p].item
             /\ Thins(queue'.entries, joined) /\ Leaves(p, joined)

LEMMA QueueIs ==
  ASSUME Shape, NEW doc \in QueueDoc
  PROVE  /\ doc.entries \in Seq(Entry) /\ Len(doc.entries) \in Nat
         /\ \A k \in 1..Len(doc.entries) : doc.entries[k] \in Entry /\ doc.entries[k].item \in Items
<1>1. doc.entries \in Seq(Entry)
  BY DEF QueueDoc
<1>2. \A k \in 1..Len(doc.entries) : doc.entries[k] \in Entry
  BY <1>1, ElementOfSeq
<1>. QED
  BY <1>1, <1>2 DEF Entry

LEMMA QueueStays ==
  ASSUME Shape, NEW p \in Procs, Command(p), ~EnqueueWrite(p), queue'.entries = queue.entries,
         dropped \subseteq dropped', lapsed \subseteq lapsed'
  PROVE  QueueFate(p)
<1>1. queue.entries \in Seq(Entry)
  BY DEF Shape, Files, QueueDoc
<1>2. Thins(queue'.entries, queue.entries)
  BY <1>1, ThinsSelf
<1>3. Leaves(p, queue.entries)
  BY DEF Leaves, Queued
<1>. QED
  BY <1>2, <1>3 DEF QueueFate

LEMMA QueueStep ==
  ASSUME Shape, Shape', CopyIsQueue, NEW p \in Procs, Command(p)
  PROVE  QueueFate(p)
<1>. USE DEF Shape
<1>0. queue \in QueueDoc /\ queue.entries \in Seq(Entry)
  BY DEF Files, QueueDoc
<1>1. CASE Start(p) \/ ReadCounter(p) \/ WriteCounter(p) \/ Blocked(p) \/ DrainNext(p) \/ Transmit(p)
  <2>1. queue' = queue /\ dropped' = dropped /\ lapsed' = lapsed
    <3>1. CASE Start(p) \/ ReadCounter(p) \/ WriteCounter(p)
      BY <3>1 DEF Start, ReadCounter, WriteCounter, files, fate, marks, kept
    <3>2. CASE Blocked(p) \/ DrainNext(p) \/ Transmit(p)
      BY <3>2 DEF Blocked, DrainNext, Transmit, files, fate, marks, kept
    <3>. QED
      BY <1>1, <3>1, <3>2
  <2>2. ~EnqueueWrite(p)
    <3>1. CASE Start(p)
      BY <3>1, IdleIsNot DEF Start, EnqueueWrite, Idle
    <3>2. CASE WriteCounter(p) \/ Blocked(p) \/ DrainNext(p)
      BY <3>2 DEF WriteCounter, Blocked, DrainNext, Step, EnqueueWrite
    <3>3. CASE ReadCounter(p)
      BY <3>3 DEF ReadCounter, EnqueueWrite
    <3>4. CASE Transmit(p)
      BY <3>4 DEF Transmit, EnqueueWrite
    <3>. QED
      BY <1>1, <3>1, <3>2, <3>3, <3>4
  <2>. QED
    BY <2>1, <2>2, QueueStays
<1>2. CASE PublishedOk(p) \/ PublishedSilent(p) \/ PublishedLoud(p)
  <2>1. queue' = queue /\ dropped' = dropped /\ lapsed' = lapsed /\ ~EnqueueWrite(p)
    BY <1>2 DEF PublishedOk, PublishedSilent, PublishedLoud, Step, EnqueueWrite, files, fate, marks, kept
  <2>. QED
    BY <2>1, QueueStays
<1>9. CASE Look(p) \/ ReconcileRead(p) \/ SweepRead(p) \/ OpenQueue(p) \/ EnqueueRead(p) \/ EnqueueFails(p)
  <2>1. queue' = queue /\ dropped' = dropped /\ lapsed \subseteq lapsed'
    <3>1. CASE Look(p) \/ ReconcileRead(p) \/ OpenQueue(p)
      BY <3>1 DEF Look, ReconcileRead, OpenQueue, files, fate, marks, kept
    <3>2. CASE SweepRead(p) \/ EnqueueRead(p) \/ EnqueueFails(p)
      BY <3>2 DEF SweepRead, EnqueueRead, EnqueueFails, files
    <3>. QED
      BY <1>9, <3>1, <3>2
  <2>2. ~EnqueueWrite(p) \/ EnqueueFails(p)
    BY <1>9 DEF Look, ReconcileRead, SweepRead, OpenQueue, EnqueueRead, EnqueueWrite
  <2>3. ~EnqueueWrite(p) => QueueFate(p)
    BY <2>1, QueueStays
  <2>4. ~(EnqueueWrite(p) /\ EnqueueFails(p))
    <3>1. EnqueueWrite(p) => line' = Append(line, proc[p].item)
      BY DEF EnqueueWrite
    <3>2. EnqueueFails(p) => line' = line
      BY DEF EnqueueFails
    <3>3. line \in Seq(Items) /\ Len(line) \in Nat
      BY DEF Records
    <3>4. EnqueueWrite(p) => Len(line') = Len(line) + 1
      BY <3>1, <3>3
    <3>. QED
      BY <3>2, <3>3, <3>4
  <2>. QED
    BY <2>2, <2>3, <2>4
<1>3. CASE DrainEnds(p) \/ SentLoud(p)
  <2>1. /\ queue' = proc[p].doc /\ dropped' = dropped /\ lapsed' = lapsed /\ ~EnqueueWrite(p)
        /\ proc[p].at \in {"drain", "sending"}
    BY <1>3 DEF DrainEnds, SentLoud, Step, EnqueueWrite, fate, marks, kept
  <2>2. queue = proc[p].doc
    BY <2>1, AtWork DEF CopyIsQueue, Mirror, Filled, Stages
  <2>. QED
    BY <2>1, <2>2, QueueStays
<1>4. CASE SentSilent(p)
  <2>1. p \in Working /\ proc[p] \in Active /\ proc[p].at = "sending"
    BY <1>4, AtWorkStep DEF Middle, SentSilent
  <2>2. queue' = proc[p].doc /\ dropped' = dropped /\ lapsed' = lapsed /\ ~EnqueueWrite(p)
    BY <1>4, <2>1 DEF SentSilent, AfterFailure, EnqueueWrite, Commands, Active
  <2>3. queue = proc[p].doc
    BY <2>1 DEF CopyIsQueue, Mirror, Filled
  <2>. QED
    BY <2>2, <2>3, QueueStays
<1>5. CASE ReconcileWrite(p)
  <2>1. p \in Working /\ proc[p] \in Active /\ proc[p].at = "wipe"
    BY <1>5, AtWorkStep DEF Middle, ReconcileWrite
  <2>2. /\ proc[p].doc = queue /\ proc[p].binding \in Bindings
    BY <2>1 DEF CopyIsQueue, Mirror, Active
  <2>3. /\ queue' = Reconciled(queue, proc[p].binding)
        /\ dropped' = dropped \cup ItemsOf(queue.entries)
        /\ lapsed' = lapsed /\ ~EnqueueWrite(p)
    BY <1>5, <2>2 DEF ReconcileWrite, EnqueueWrite
  <2>4. queue' = queue \/ queue'.entries = <<>>
    BY <1>0, <2>2, <2>3, ReconciledIs
  <2>5. Thins(queue'.entries, queue.entries)
    BY <1>0, <2>4, ThinsSelf, ThinsNone
  <2>6. \A i \in Items, k \in 1..Len(queue.entries) : queue.entries[k].item = i => Gone(i)'
    BY <1>0, <2>3, ItemsAre DEF Gone
  <2>. QED
    BY <2>3, <2>5, <2>6 DEF QueueFate, Leaves
<1>6. CASE Refuse(p) \/ SentOk(p)
  <2>. DEFINE doc == proc[p].doc
  <2>1. p \in Working /\ proc[p] \in Active /\ proc[p].at \in {"send", "sending"}
    BY <1>6, AtWorkStep DEF Middle, Refuse, SentOk
  <2>2. doc = queue /\ doc.entries # <<>>
    BY <2>1 DEF CopyIsQueue, Mirror, Filled, Commands
  <2>3. /\ queue' = Rest(queue) /\ dropped' = dropped /\ ~EnqueueWrite(p)
        /\ (SentOk(p) /\ lapsed' = lapsed) \/ lapsed' = lapsed \cup {Head(queue.entries).item}
    BY <1>6, <2>2 DEF Refuse, SentOk, EnqueueWrite, fate, marks, kept
  <2>4. /\ Len(Rest(queue).entries) = Len(queue.entries) - 1
        /\ Head(queue.entries) = queue.entries[1]
        /\ \A j \in 1..Len(Rest(queue).entries) : Rest(queue).entries[j] = queue.entries[j + 1]
        /\ Thins(Rest(queue).entries, queue.entries)
    BY <1>0, <2>2, RestIs
  <2>5. ASSUME NEW i \in Items, NEW k \in 1..Len(queue.entries), queue.entries[k].item = i
        PROVE  Queued(i)' \/ Gone(i)' \/ (SentOk(p) /\ k = 1)
    <3>1. CASE k = 1
      BY <2>3, <2>4, <2>5, <3>1 DEF Gone
    <3>2. CASE k # 1
      <4>1. k - 1 \in 1..Len(queue'.entries) /\ queue'.entries[k - 1] = queue.entries[k]
        BY <1>0, <2>3, <2>4, <3>2
      <4>. QED
        BY <2>5, <4>1 DEF Queued
    <3>. QED
      BY <3>1, <3>2
  <2>. QED
    BY <1>6, <2>3, <2>4, <2>5 DEF QueueFate, Leaves, Command
<1>7. CASE SweepWrite(p)
  <2>1. p \in Working /\ proc[p] \in Active /\ proc[p].at = "rewrite"
    BY <1>7, AtWorkStep DEF Middle, SweepWrite, Step
  <2>2. Fewer(proc[p].doc)
    BY <2>1 DEF CopyIsQueue
  <2>3. queue' = proc[p].doc /\ dropped' = dropped /\ lapsed' = lapsed /\ ~EnqueueWrite(p)
    BY <1>7, <2>1 DEF SweepWrite, EnqueueWrite, fate, marks, kept
  <2>4. ASSUME NEW i \in Items, NEW k \in 1..Len(queue.entries), queue.entries[k].item = i
        PROVE  Queued(i)' \/ Gone(i)'
    BY <2>2, <2>3, <2>4 DEF Fewer, Queued, Gone
  <2>. QED
    BY <2>2, <2>3, <2>4 DEF QueueFate, Leaves, Fewer
<1>8. CASE EnqueueWrite(p)
  <2>. DEFINE rest == proc[p].doc
              e == [item |-> proc[p].item, home |-> proc[p].binding]
              full == [rest EXCEPT !.entries = Joined(@, e), !.binding = proc[p].binding]
              joined == Append(queue.entries, e)
  <2>1. p \in Working /\ proc[p] \in Active /\ proc[p].at = "write"
    BY <1>8, AtWorkStep DEF Ending, EnqueueWrite
  <2>2. e \in Entry /\ e.item = proc[p].item /\ proc[p].binding \in Bindings
    BY <2>1 DEF Active, Entry
  <2>3. /\ rest \in QueueDoc /\ Thins(rest.entries, queue.entries)
        /\ \A k \in 1..Len(queue.entries) :
             \/ queue.entries[k].item \in lapsed
             \/ \E j \in 1..Len(rest.entries) : rest.entries[j] = queue.entries[k]
    BY <2>1 DEF CopyIsQueue, Fewer, Active
  <2>4. /\ queue' = Capped(full)
        /\ lapsed' = lapsed
        /\ dropped' = dropped \cup (ItemsOf(full.entries) \ ItemsOf(queue'.entries))
    BY <1>8 DEF EnqueueWrite
  <2>. HIDE DEF rest, e
  <2>5. full.entries = Append(rest.entries, e) /\ full \in QueueDoc
    <3>1. rest.entries \in Seq(Entry) /\ Append(rest.entries, e) \in Seq(Entry)
      BY <2>2, <2>3 DEF QueueDoc
    <3>2. full = [rest EXCEPT !.entries = Append(rest.entries, e), !.binding = proc[p].binding]
      BY DEF Joined
    <3>. HIDE DEF full
    <3>3. rest = [binding |-> rest.binding, entries |-> rest.entries, dropped |-> rest.dropped]
      BY <2>3 DEF QueueDoc
    <3>4. full = [binding |-> proc[p].binding, entries |-> Append(rest.entries, e),
                  dropped |-> rest.dropped]
      BY <3>2, <3>3
    <3>. QED
      BY <2>2, <2>3, <3>1, <3>4 DEF QueueDoc
  <2>. HIDE DEF full
  <2>6. /\ rest.entries \in Seq(Entry) /\ full.entries \in Seq(Entry)
        /\ queue' \in QueueDoc /\ queue'.entries \in Seq(Entry) /\ joined \in Seq(Entry)
    BY <1>0, <2>2, <2>3, <2>4, <2>5, CappedIs DEF QueueDoc
  <2>7. Thins(queue'.entries, joined)
    <3>1. Thins(full.entries, joined)
      BY <1>0, <2>2, <2>3, <2>5, <2>6, ThinsJoined
    <3>2. Thins(queue'.entries, full.entries)
      BY <2>4, <2>5, CappedIs
    <3>. HIDE DEF joined
    <3>. QED
      BY <2>6, <3>1, <3>2, ThinsChain
  <2>8. \A i \in ItemsOf(full.entries) : Queued(i)' \/ Gone(i)'
    <3>. SUFFICES ASSUME NEW i \in ItemsOf(full.entries), ~Gone(i)' PROVE Queued(i)'
      OBVIOUS
    <3>1. i \in ItemsOf(queue'.entries)
      BY <2>4 DEF Gone
    <3>. QED
      BY <2>6, <3>1, ItemsAre DEF Queued
  <2>9. ASSUME NEW i \in Items, NEW k \in 1..Len(joined), joined[k].item = i
        PROVE  Queued(i)' \/ Gone(i)'
    <3>1. /\ Len(full.entries) = Len(rest.entries) + 1 /\ full.entries[Len(rest.entries) + 1] = e
          /\ \A j \in 1..Len(rest.entries) : full.entries[j] = rest.entries[j] /\ j \in 1..Len(full.entries)
          /\ Len(rest.entries) + 1 \in 1..Len(full.entries)
      BY <2>2, <2>5, <2>6
    <3>2. CASE k = Len(queue.entries) + 1
      <4>1. joined[k] = e
        BY <1>0, <2>2, <3>2
      <4>2. e.item \in ItemsOf(full.entries)
        BY <2>6, <3>1, ItemsAre
      <4>. QED
        BY <2>8, <2>9, <4>1, <4>2
    <3>3. CASE k # Len(queue.entries) + 1
      <4>1. k \in 1..Len(queue.entries) /\ joined[k] = queue.entries[k]
        BY <1>0, <2>2, <3>3
      <4>2. CASE queue.entries[k].item \in lapsed
        BY <2>4, <2>9, <4>1, <4>2 DEF Gone
      <4>3. CASE \E j \in 1..Len(rest.entries) : rest.entries[j] = queue.entries[k]
        <5>1. queue.entries[k].item \in ItemsOf(full.entries)
          BY <2>6, <3>1, <4>3, ItemsAre
        <5>. QED
          BY <2>8, <2>9, <4>1, <5>1
      <4>. QED
        BY <2>3, <4>1, <4>2, <4>3
    <3>. QED
      BY <3>2, <3>3
  <2>. HIDE DEF joined
  <2>10. Leaves(p, joined)
    BY <2>9 DEF Leaves
  <2>. QED
    BY <1>8, <2>2, <2>4, <2>7, <2>10 DEF QueueFate, joined
<1>. QED
  BY <1>1, <1>2, <1>3, <1>4, <1>5, <1>6, <1>7, <1>8, <1>9 DEF Command

(* What a command sends: its own item, or the head of the queue.           *)
LEMMA SendsHead ==
  ASSUME Shape, Shape', Numbers, CopyIsQueue, NEW p \in Procs, Transmit(p)
  PROVE  /\ p \in Working /\ proc[p] \in Active
         /\ proc[p].at = "publish" => Parcel(p).item = proc[p].item /\ Parcel(p).home = None
         /\ proc[p].at = "send" => /\ 1 \in 1..Len(queue.entries)
                                   /\ Parcel(p).item = queue.entries[1].item
                                   /\ Parcel(p).home # None
                                   /\ Head(proc[p].doc.entries) = queue.entries[1]
<1>1. p \in Working /\ proc[p] \in Active
  BY AtWorkStep DEF Middle
<1>2. CASE proc[p].at = "publish"
  BY <1>1, <1>2 DEF Parcel
<1>3. CASE proc[p].at = "send"
  <2>1. queue = proc[p].doc /\ queue \in QueueDoc /\ queue.entries # <<>>
    BY <1>1, <1>3 DEF CopyIsQueue, Mirror, Filled, Shape, Files, Commands
  <2>2. Len(queue.entries) \in Nat \ {0} /\ Head(queue.entries) = queue.entries[1]
    BY <2>1, RestIs DEF QueueDoc
  <2>3. queue.entries[1] \in Entry
    BY <2>1, <2>2, QueueIs
  <2>4. Parcel(p).item = queue.entries[1].item /\ Parcel(p).home = queue.entries[1].home
    BY <1>3, <2>1, <2>2 DEF Parcel
  <2>5. \A b \in Bindings : b # None
    BY OutboxAssumption DEF Bindings, None
  <2>. QED
    BY <1>1, <1>3, <2>1, <2>2, <2>3, <2>4, <2>5 DEF Entry
<1>. QED
  BY <1>1, <1>2, <1>3

LEMMA PostedFate ==
  ASSUME Shape, Shape', Numbers, CopyIsQueue, NEW p \in Procs, Command(p)
  PROVE  /\ \A i : Posted(i)' => \/ Posted(i)
                                 \/ Transmit(p) /\ proc'[p].reached /\ i = Parcel(p).item
         /\ \A i : SentFromQueue(i)' =>
              \/ SentFromQueue(i)
              \/ /\ Transmit(p) /\ proc[p].at = "send" /\ proc'[p].reached
                 /\ i = queue.entries[1].item
<1>1. CASE log' = log
  BY <1>1 DEF Posted, SentFromQueue
<1>2. CASE Transmit(p) /\ log' = Append(log, Parcel(p)) /\ Parcel(p) \in Row
  <2>1. proc'[p].reached
    <3>1. log' # log
      BY <1>2, Appended
    <3>. QED
      BY <1>2, <3>1, SendIs
  <2>2. /\ Len(log') = Len(log) + 1 /\ log'[Len(log) + 1] = Parcel(p)
        /\ \A i \in 1..Len(log) : log'[i] = log[i]
        /\ \A i \in 1..Len(log') : i \in 1..Len(log) \/ i = Len(log) + 1
    BY <1>2, Appended
  <2>3. proc[p].at = "publish" \/ proc[p].at = "send"
    BY <1>2, SendIs
  <2>. QED
    BY <1>2, <2>1, <2>2, <2>3, SendsHead DEF Posted, SentFromQueue
<1>. QED
  BY <1>1, <1>2, LogFate

(* What a step of a command does to the sets Lined and Heard speak of.     *)
LEMMA LineFacts ==
  ASSUME Shape, Shape', Reported, CopyIsQueue, NEW p \in Procs, Command(p)
  PROVE  /\ \A i : Waits(i) => Waits(i)'
         /\ \A i : Waits(i)' => Waits(i) \/ (EnqueueWrite(p) /\ i = proc[p].item)
         /\ \A i \in Items : told'[i] = "no" => told[i] = "no"
         /\ \A i \in Items : Queued(i)' => Queued(i) \/ (EnqueueWrite(p) /\ i = proc[p].item)
         /\ \A i : EnqueueWrite(p) /\ i = proc[p].item => Waits(i)'
         /\ line' = line \/ (EnqueueWrite(p) /\ line' = Append(line, proc[p].item))
<1>0. told \in [Items -> {"no", "going", "sent", "queued", "blocked"}]
  BY DEF Shape, Records
<1>1. ~Start(p) => p \in Working /\ proc[p] \in Active /\ told[proc[p].item] = "going"
  BY CommandSteps, AtWorkStep DEF Reported
<1>2. \A i \in Items : told'[i] = "no" => told[i] = "no"
  <2>1. CASE told' = told
    BY <2>1
  <2>2. CASE Start(p)
    <3>1. PICK x \in Items : told[x] = "no" /\ told' = [told EXCEPT ![x] = "going"]
      BY <2>2, StartIs
    <3>. QED
      BY <1>0, <3>1
  <2>3. ASSUME NEW word \in {"sent", "blocked", "queued"},
               told' = [told EXCEPT ![proc[p].item] = word]
        PROVE  \A i \in Items : told'[i] = "no" => told[i] = "no"
    BY <1>0, <2>3
  <2>. QED
    BY <2>1, <2>2, <2>3, ReportFate
<1>3. queue.entries \in Seq(Entry) /\ Len(queue.entries) \in Nat
  BY DEF Shape, Files, QueueDoc
<1>4. \A i \in Items : Queued(i)' => Queued(i) \/ (EnqueueWrite(p) /\ i = proc[p].item)
  <2>. SUFFICES ASSUME NEW i \in Items, Queued(i)'
                PROVE  Queued(i) \/ (EnqueueWrite(p) /\ i = proc[p].item)
    OBVIOUS
  <2>1. PICK k \in 1..Len(queue'.entries) : queue'.entries[k].item = i
    BY DEF Queued
  <2>2. CASE Thins(queue'.entries, queue.entries)
    BY <2>1, <2>2 DEF Thins, Queued
  <2>3. ASSUME EnqueueWrite(p), NEW e \in Entry, e.item = proc[p].item,
               Thins(queue'.entries, Append(queue.entries, e))
        PROVE  Queued(i) \/ (EnqueueWrite(p) /\ i = proc[p].item)
    <3>. DEFINE joined == Append(queue.entries, e)
    <3>1. /\ Len(joined) = Len(queue.entries) + 1 /\ joined[Len(queue.entries) + 1] = e
          /\ \A j \in 1..Len(queue.entries) : joined[j] = queue.entries[j]
          /\ \A j \in 1..Len(joined) : j \in 1..Len(queue.entries) \/ j = Len(queue.entries) + 1
      BY <1>3
    <3>. HIDE DEF joined
    <3>2. PICK j \in 1..Len(joined) : joined[j].item = i
      BY <2>1, <2>3 DEF Thins, joined
    <3>. QED
      BY <2>3, <3>1, <3>2 DEF Queued
  <2>. QED
    BY <2>2, <2>3, QueueStep DEF QueueFate
<1>5. line' = line \/ (EnqueueWrite(p) /\ line' = Append(line, proc[p].item))
  BY ReportFate
<1>6. EnqueueWrite(p) => line' = Append(line, proc[p].item) /\ proc[p].item \in Items
  BY AtWorkStep DEF EnqueueWrite, Ending, Active
<1>7. /\ \A i : Waits(i) => Waits(i)'
      /\ \A i : Waits(i)' => Waits(i) \/ (EnqueueWrite(p) /\ i = proc[p].item)
      /\ \A i : EnqueueWrite(p) /\ i = proc[p].item => Waits(i)'
  <2>1. CASE line' = Append(line, proc[p].item) /\ EnqueueWrite(p)
    <3>1. line \in Seq(Items) /\ proc[p].item \in Items
      BY <1>6, <2>1 DEF Shape, Records
    <3>2. /\ Len(line') = Len(line) + 1 /\ line'[Len(line) + 1] = proc[p].item
          /\ \A a \in 1..Len(line) : line'[a] = line[a] /\ a \in 1..Len(line')
          /\ \A a \in 1..Len(line') : a \in 1..Len(line) \/ a = Len(line) + 1
          /\ Len(line) + 1 \in 1..Len(line')
      BY <2>1, <3>1
    <3>3. \A i : (\E a \in 1..Len(line') : line'[a] = i) <=> Waits(i) \/ i = proc[p].item
      BY <3>2 DEF Waits
    <3>4. \A i : Waits(i)' <=> Waits(i) \/ i = proc[p].item
      BY <3>3 DEF Waits
    <3>. QED
      BY <2>1, <3>4
  <2>2. CASE line' = line /\ ~EnqueueWrite(p)
    BY <2>2 DEF Waits
  <2>. QED
    BY <1>5, <1>6, <2>1, <2>2
<1>. QED
  BY <1>2, <1>4, <1>5, <1>7

(* Thinned entries and a joined one are in the order of the line.          *)
LEMMA ThinnedInOrder ==
  ASSUME NEW S, NEW new \in Seq(S), NEW old \in Seq(S), NEW row, Thins(new, old), InOrder(old, row)
  PROVE  InOrder(new, row)
<1>1. PICK m \in [1..Len(new) -> 1..Len(old)] :
        /\ \A j \in 1..Len(new) : new[j] = old[m[j]]
        /\ \A i, j \in 1..Len(new) : i < j => m[i] < m[j]
  BY DEF Thins
<1>. SUFFICES ASSUME NEW j \in 1..Len(new), NEW k \in 1..Len(new),
                     NEW a \in 1..Len(row), NEW b \in 1..Len(row),
                     row[a] = new[j].item, row[b] = new[k].item, j < k
              PROVE  a < b
  BY DEF InOrder
<1>2. m[j] \in 1..Len(old) /\ m[k] \in 1..Len(old) /\ m[j] < m[k]
  BY <1>1
<1>. QED
  BY <1>1, <1>2 DEF InOrder

LEMMA JoinedInOrder ==
  ASSUME NEW old \in Seq(Entry), NEW row \in Seq(Items), NEW e \in Entry, NEW x, x = e.item,
         InOrder(old, row), \A a \in 1..Len(row) : row[a] # x,
         \A j \in 1..Len(old) : old[j].item # x
  PROVE  InOrder(Append(old, e), Append(row, x))
<1>. DEFINE new == Append(old, e)
            longer == Append(row, x)
<1>1. x \in Items /\ Len(old) \in Nat /\ Len(row) \in Nat
  BY DEF Entry
<1>2. /\ Len(new) = Len(old) + 1 /\ new[Len(old) + 1] = e
      /\ \A j \in 1..Len(old) : new[j] = old[j]
      /\ \A j \in 1..Len(new) : j \in 1..Len(old) \/ j = Len(old) + 1
  OBVIOUS
<1>3. /\ Len(longer) = Len(row) + 1 /\ longer[Len(row) + 1] = x
      /\ \A a \in 1..Len(row) : longer[a] = row[a]
      /\ \A a \in 1..Len(longer) : a \in 1..Len(row) \/ a = Len(row) + 1
  BY <1>1
<1>. HIDE DEF new, longer
<1>4. ASSUME NEW j \in 1..Len(new), NEW k \in 1..Len(new),
             NEW a \in 1..Len(longer), NEW b \in 1..Len(longer),
             longer[a] = new[j].item, longer[b] = new[k].item, j < k
      PROVE  a < b
  <2>1. j \in 1..Len(old) /\ new[j] = old[j]
    BY <1>1, <1>2, <1>4
  <2>2. a \in 1..Len(row) /\ longer[a] = row[a]
    BY <1>3, <1>4, <2>1
  <2>3. CASE k \in 1..Len(old)
    <3>1. b \in 1..Len(row) /\ longer[b] = row[b] /\ new[k] = old[k]
      BY <1>2, <1>3, <1>4, <2>3
    <3>. QED
      BY <1>4, <2>1, <2>2, <2>3, <3>1 DEF InOrder
  <2>4. CASE k = Len(old) + 1
    <3>1. longer[b] = x
      BY <1>2, <1>4, <2>4
    <3>2. b = Len(row) + 1
      BY <1>3, <3>1
    <3>. QED
      BY <1>1, <2>2, <3>2
  <2>. QED
    BY <1>2, <2>3, <2>4
<1>. QED
  BY <1>4 DEF InOrder, new, longer

LEMMA LinedStep ==
  ASSUME Shape, Shape', Alone, Reported, Reported', Numbers, CopyIsQueue, Lined,
         ~shared', [Next]_vars
  PROVE  Lined'
<1>1. ASSUME NEW p \in Procs, Command(p) PROVE Lined'
  <2>0. /\ queue.entries \in Seq(Entry) /\ queue'.entries \in Seq(Entry) /\ line \in Seq(Items)
        /\ Len(queue.entries) \in Nat /\ Len(line) \in Nat
        /\ \A k \in 1..Len(queue.entries) : queue.entries[k].item \in Items
    BY QueueIs DEF Shape, Files, QueueDoc, Records
  <2>1. /\ \A i : Waits(i) => Waits(i)'
        /\ \A i : Waits(i)' => Waits(i) \/ (EnqueueWrite(p) /\ i = proc[p].item)
        /\ \A i \in Items : Queued(i)' => Queued(i) \/ (EnqueueWrite(p) /\ i = proc[p].item)
        /\ \A i : EnqueueWrite(p) /\ i = proc[p].item => Waits(i)'
        /\ line' = line \/ (EnqueueWrite(p) /\ line' = Append(line, proc[p].item))
    BY <1>1, LineFacts
  <2>2. QueueFate(p)
    BY <1>1, QueueStep
  <2>3. /\ \A i : SentFromQueue(i) => SentFromQueue(i)'
        /\ \A i : SentFromQueue(i)' =>
             \/ SentFromQueue(i)
             \/ /\ Transmit(p) /\ proc[p].at = "send" /\ proc'[p].reached
                /\ i = queue.entries[1].item
    BY <1>1, PostedGrows, PostedFate
  <2>4. Transmit(p) /\ proc[p].at = "send" => Queued(queue.entries[1].item)
    BY SendsHead DEF Queued
  <2>5. \A i \in Items : Gone(i) => Gone(i)'
    BY <2>2 DEF QueueFate, Gone
  <2>6. EnqueueWrite(p) => /\ proc[p].item \in Items /\ ~Waits(proc[p].item)
                           /\ line' = Append(line, proc[p].item) /\ p \in Working
    BY AtWorkStep DEF Ending, EnqueueWrite, Active, Reported
  <2>7. \A i \in Items : Queued(i)' \/ SentFromQueue(i)' => Waits(i)'
    <3>. SUFFICES ASSUME NEW i \in Items, Queued(i)' \/ SentFromQueue(i)' PROVE Waits(i)'
      OBVIOUS
    <3>1. CASE Queued(i) \/ SentFromQueue(i)
      BY <2>1, <3>1 DEF Lined
    <3>2. CASE EnqueueWrite(p) /\ i = proc[p].item
      BY <2>1, <3>2
    <3>3. CASE Transmit(p) /\ proc[p].at = "send" /\ i = queue.entries[1].item
      BY <2>1, <2>4, <3>3 DEF Lined
    <3>. QED
      BY <2>1, <2>3, <3>1, <3>2, <3>3
  <2>8. \A i \in Items : Waits(i)' => Queued(i)' \/ SentFromQueue(i)' \/ Gone(i)'
    <3>. SUFFICES ASSUME NEW i \in Items, Waits(i)'
                  PROVE  Queued(i)' \/ SentFromQueue(i)' \/ Gone(i)'
      OBVIOUS
    <3>1. CASE Waits(i) /\ ~Queued(i)
      BY <2>3, <2>5, <3>1 DEF Lined, Gone
    <3>2. CASE Queued(i)
      <4>1. PICK k \in 1..Len(queue.entries) : queue.entries[k].item = i
        BY <3>2 DEF Queued
      <4>2. CASE Leaves(p, queue.entries)
        <5>1. CASE SentOk(p) /\ k = 1
          <6>1. /\ p \in Working /\ proc[p].at = "sending" /\ proc[p].reached
                /\ proc[p].doc = queue /\ queue.entries # <<>> /\ queue \in QueueDoc
            BY <5>1, AtWorkStep DEF Middle, SentOk, CopyIsQueue, Mirror, Filled, Shape, Commands, Files
          <6>2. Head(proc[p].doc.entries) = queue.entries[1]
            BY <6>1, RestIs
          <6>3. SentFromQueue(Head(proc[p].doc.entries).item)
            BY <6>1 DEF Lined
          <6>4. SentFromQueue(i)
            BY <4>1, <5>1, <6>2, <6>3
          <6>. QED
            BY <2>3, <6>4
        <5>. QED
          BY <4>1, <4>2, <5>1 DEF Leaves
      <4>3. ASSUME EnqueueWrite(p), NEW e \in Entry, Leaves(p, Append(queue.entries, e))
            PROVE  Queued(i)' \/ Gone(i)'
        <5>1. k \in 1..Len(Append(queue.entries, e)) /\ Append(queue.entries, e)[k] = queue.entries[k]
          BY <2>0
        <5>2. ~SentOk(p)
          BY <4>3 DEF EnqueueWrite, SentOk
        <5>. QED
          BY <4>1, <4>3, <5>1, <5>2 DEF Leaves
      <4>. QED
        BY <2>2, <4>2, <4>3 DEF QueueFate
    <3>3. CASE EnqueueWrite(p) /\ i = proc[p].item
      <4>1. PICK e \in Entry : e.item = proc[p].item /\ Leaves(p, Append(queue.entries, e))
        BY <2>2, <3>3 DEF QueueFate
      <4>2. /\ Len(queue.entries) + 1 \in 1..Len(Append(queue.entries, e))
            /\ Append(queue.entries, e)[Len(queue.entries) + 1] = e
        BY <2>0
      <4>3. ~SentOk(p)
        BY <3>3 DEF EnqueueWrite, SentOk
      <4>. QED
        BY <3>3, <4>1, <4>2, <4>3 DEF Leaves
    <3>. QED
      BY <2>1, <3>1, <3>2, <3>3
  <2>9. ASSUME NEW q \in Working', proc'[q].at = "sending", proc'[q].reached,
               NEW i, i = Head(proc'[q].doc.entries).item
        PROVE  SentFromQueue(i)'
    <3>1. q = p
      BY <1>1, <2>9, OnlyOne
    <3>2. ~Start(p) /\ ~Ending(p)
      BY <2>9, <3>1, StartIs, EndingIs DEF Working
    <3>3. Middle(p)
      BY <1>1, <3>2, CommandSteps
    <3>4. proc[p].at = "send"
      BY <2>9, <3>1, <3>3, MiddleIs DEF Moves
    <3>5. Transmit(p)
      <4>1. ~Refuse(p)
        <5>1. Refuse(p) => proc'[p].at = "publish"
          BY <3>3, AtWorkStep DEF Refuse, Shape, Commands, Active
        <5>. QED
          BY <2>9, <3>1, <5>1
      <4>. QED
        BY <3>3, <3>4, <4>1, FromPublish
    <3>6. /\ log' = Append(log, Parcel(p)) /\ Parcel(p) \in Row /\ proc'[p].doc = proc[p].doc
      BY <2>9, <3>1, <3>5, SendIs
    <3>7. Parcel(p).item = i /\ Parcel(p).home # None
      BY <2>9, <3>1, <3>4, <3>5, <3>6, SendsHead
    <3>8. Len(log) + 1 \in 1..Len(log') /\ log'[Len(log) + 1] = Parcel(p)
      BY <3>6, Appended
    <3>. QED
      BY <3>7, <3>8 DEF SentFromQueue
  <2>10. InOrder(queue'.entries, line')
    <3>0. InOrder(queue.entries, line)
      BY DEF Lined
    <3>1. CASE ~EnqueueWrite(p)
      BY <2>0, <2>1, <2>2, <3>0, <3>1, ThinnedInOrder DEF QueueFate
    <3>2. CASE EnqueueWrite(p)
      <4>1. PICK e \in Entry : e.item = proc[p].item /\ Thins(queue'.entries, Append(queue.entries, e))
        BY <2>2, <3>2 DEF QueueFate
      <4>2. \A a \in 1..Len(line) : line[a] # proc[p].item
        BY <2>6, <3>2 DEF Waits
      <4>3. \A j \in 1..Len(queue.entries) : queue.entries[j].item # proc[p].item
        <5>1. ~Queued(proc[p].item)
          BY <2>6, <3>2 DEF Lined
        <5>. QED
          BY <5>1 DEF Queued
      <4>4. InOrder(Append(queue.entries, e), line')
        BY <2>0, <2>6, <3>0, <3>2, <4>1, <4>2, <4>3, JoinedInOrder
      <4>5. Append(queue.entries, e) \in Seq(Entry)
        BY <2>0
      <4>. QED
        BY <2>0, <4>1, <4>4, <4>5, ThinnedInOrder
    <3>. QED
      BY <3>1, <3>2
  <2>11. ASSUME NEW a \in 1..Len(line'), NEW b \in 1..Len(line'), a < b,
                NEW i, i = line'[a], NEW j, j = line'[b], SentFromQueue(j)'
         PROVE  SentFromQueue(i)' \/ Gone(i)'
    <3>1. \/ line' = line
          \/ /\ EnqueueWrite(p) /\ Len(line') = Len(line) + 1 /\ line'[Len(line) + 1] = proc[p].item
             /\ \A c \in 1..Len(line) : line'[c] = line[c]
             /\ \A c \in 1..Len(line') : c \in 1..Len(line) \/ c = Len(line) + 1
      <4>1. CASE line' = line
        BY <4>1
      <4>2. CASE EnqueueWrite(p) /\ line' = Append(line, proc[p].item)
        <5>1. proc[p].item \in Items
          BY <2>6, <4>2
        <5>. QED
          BY <2>0, <4>2, <5>1
      <4>. QED
        BY <2>1, <4>1, <4>2
    <3>2. b \in 1..Len(line) /\ j = line[b]
      <4>1. CASE line' = line
        BY <2>11, <4>1
      <4>2. CASE EnqueueWrite(p) /\ j = proc[p].item
        <5>1. SentFromQueue(j)
          <6>1. ~Transmit(p)
            BY <4>2 DEF EnqueueWrite, Transmit
          <6>. QED
            BY <2>3, <2>11, <6>1
        <5>. QED
          BY <2>6, <4>2, <5>1 DEF Lined
      <4>. QED
        BY <2>11, <3>1, <4>1, <4>2
    <3>3. a \in 1..Len(line) /\ i = line[a] /\ i \in Items /\ j \in Items
      <4>1. a \in 1..Len(line)
        BY <2>0, <2>11, <3>2
      <4>. QED
        BY <2>0, <2>11, <3>1, <3>2, <4>1, ElementOfSeq
    <3>4. CASE SentFromQueue(j)
      BY <2>3, <2>5, <2>11, <3>2, <3>3, <3>4 DEF Lined, Gone
    <3>5. CASE Transmit(p) /\ proc[p].at = "send" /\ j = queue.entries[1].item
      <4>1. Waits(i)
        BY <3>3 DEF Waits
      <4>2. CASE SentFromQueue(i) \/ Gone(i)
        BY <2>3, <2>5, <3>3, <4>2
      <4>3. CASE Queued(i)
        <5>1. PICK k \in 1..Len(queue.entries) : queue.entries[k].item = i
          BY <4>3 DEF Queued
        <5>2. 1 \in 1..Len(queue.entries)
          BY <3>5, SendsHead
        <5>3. k # 1
          <6>1. a # b
            BY <2>0, <2>11, <3>2, <3>3
          <6>2. i # j
            BY <3>2, <3>3, <6>1 DEF Reported
          <6>. QED
            BY <3>5, <5>1, <6>2
        <5>4. 1 < k
          BY <2>0, <5>1, <5>3
        <5>5. b < a
          BY <3>2, <3>3, <3>5, <5>1, <5>2, <5>4 DEF Lined, InOrder
        <5>. QED
          BY <2>0, <2>11, <3>2, <3>3, <5>5
      <4>. QED
        BY <3>3, <4>1, <4>2, <4>3 DEF Lined, Gone
    <3>. QED
      BY <2>3, <2>11, <3>4, <3>5
  <2>12. (\A q \in Working : proc[q].at = "sending" /\ proc[q].reached =>
            SentFromQueue(Head(proc[q].doc.entries).item))'
    BY <2>9 DEF SentFromQueue
  <2>13. (\A a, b \in 1..Len(line) :
            a < b /\ SentFromQueue(line[b]) => SentFromQueue(line[a]) \/ Gone(line[a]))'
    BY <2>11 DEF SentFromQueue, Gone
  <2>. QED
    BY <2>7, <2>8, <2>10, <2>12, <2>13 DEF Lined
<1>2. ASSUME NEW h \in Hooks, HookReads(h) \/ HookWrites(h) PROVE Lined'
  BY <1>2 DEF HookReads, HookWrites, files, fate, marks, kept, Lined, Waits, Queued, SentFromQueue, Gone,
     Working
<1>3. CASE Age \/ Rebind \/ UNCHANGED vars
  BY <1>3 DEF Age, Rebind, vars, files, fate, marks, kept, Lined, Waits, Queued, SentFromQueue, Gone,
     Working
<1>. QED
  BY <1>1, <1>2, <1>3 DEF Next

LEMMA UnheardGrows ==
  ASSUME Shape, NEW p \in Procs, Command(p)
  PROVE  unheard \subseteq unheard'
<1>1. CASE Start(p) \/ ReadCounter(p) \/ WriteCounter(p) \/ Blocked(p)
  BY <1>1 DEF Start, ReadCounter, WriteCounter, Blocked, fate, marks, kept
<1>2. CASE DrainNext(p) \/ DrainEnds(p) \/ Refuse(p) \/ Transmit(p)
  BY <1>2 DEF DrainNext, DrainEnds, Refuse, Transmit, fate, marks, kept
<1>3. CASE SentOk(p) \/ SentSilent(p) \/ SentLoud(p)
  BY <1>3 DEF SentOk, SentSilent, SentLoud, Unheard, fate, marks, kept
<1>4. CASE PublishedOk(p) \/ PublishedSilent(p) \/ PublishedLoud(p)
  BY <1>4 DEF PublishedOk, PublishedSilent, PublishedLoud, Unheard, fate, marks, kept
<1>5. CASE EnqueueRead(p) \/ EnqueueWrite(p) \/ EnqueueFails(p)
  BY <1>5 DEF EnqueueRead, EnqueueWrite, EnqueueFails
<1>6. CASE Look(p) \/ ReconcileRead(p) \/ ReconcileWrite(p)
  BY <1>6 DEF Look, ReconcileRead, ReconcileWrite, fate, marks, kept
<1>7. CASE SweepRead(p) \/ SweepWrite(p) \/ OpenQueue(p)
  BY <1>7 DEF SweepRead, SweepWrite, OpenQueue, fate, marks, kept
<1>. QED
  BY <1>1, <1>2, <1>3, <1>4, <1>5, <1>6, <1>7 DEF Command

LEMMA HeardStep ==
  ASSUME Shape, Shape', Alone, Reported, Numbers, CopyIsQueue, Lined, Heard,
         ~shared', [Next]_vars
  PROVE  Heard'
<1>1. ASSUME NEW p \in Procs, Command(p) PROVE Heard'
  <2>0. /\ queue.entries \in Seq(Entry) /\ Len(queue.entries) \in Nat
        /\ \A k \in 1..Len(queue.entries) : queue.entries[k].item \in Items
    BY QueueIs DEF Shape, Files, QueueDoc
  <2>1. /\ \A i \in Items : told'[i] = "no" => told[i] = "no"
        /\ \A i \in Items : Queued(i)' => Queued(i) \/ (EnqueueWrite(p) /\ i = proc[p].item)
    BY <1>1, LineFacts
  <2>2. /\ \A i : Posted(i)' => \/ Posted(i)
                                \/ Transmit(p) /\ proc'[p].reached /\ i = Parcel(p).item
        /\ unheard \subseteq unheard'
    BY <1>1, PostedFate, UnheardGrows
  <2>3. \A q \in Working' : q = p
    BY <1>1, OnlyOne
  <2>4. ~Start(p) => /\ p \in Working /\ proc[p] \in Active /\ proc[p].item \in Items
                     /\ told[proc[p].item] = "going"
                     /\ \A q \in Working : q = p
    BY <1>1, CommandSteps, AtWorkStep DEF Active, Reported, Alone
  <2>5. \A k \in 1..Len(queue.entries) : told[queue.entries[k].item] = "queued"
    BY <2>0 DEF Lined, Queued, Reported
  <2>6. Transmit(p) => /\ ~Start(p) /\ ~Answering
                       /\ \/ proc[p].at = "send" /\ proc'[p].at = "sending"
                          \/ proc[p].at = "publish" /\ proc'[p].at = "publishing"
    <3>1. Transmit(p) => \/ proc[p].at = "send" /\ proc'[p].at = "sending"
                         \/ proc[p].at = "publish" /\ proc'[p].at = "publishing"
      BY SendIs
    <3>2. Start(p) => proc[p].at = "idle"
      BY DEF Start, Idle
    <3>. QED
      BY <2>4, <3>1, <3>2 DEF Answering
  <2>7. /\ Transmit(p) /\ proc[p].at = "publish" => Parcel(p).item = proc[p].item
        /\ Transmit(p) /\ proc[p].at = "send" =>
             1 \in 1..Len(queue.entries) /\ Parcel(p).item = queue.entries[1].item
    BY SendsHead
  \* An item not heard of is not posted by a step that sends nothing of it.
  <2>8. ASSUME NEW i \in Items, told'[i] = "no" PROVE ~Posted(i)'
    <3>1. told[i] = "no" /\ ~Posted(i)
      BY <2>1, <2>8 DEF Heard
    <3>2. Transmit(p) => i # Parcel(p).item
      BY <2>4, <2>5, <2>6, <2>7, <3>1
    <3>. QED
      BY <2>2, <3>1, <3>2
  <2>9. ASSUME NEW k \in 1..Len(queue'.entries), NEW i, i = queue'.entries[k].item, Posted(i)'
        PROVE  i \in unheard' \/ (k = 1 /\ Answering')
    <3>1. CASE Transmit(p)
      <4>1. queue' = queue /\ i = queue.entries[k].item /\ k \in 1..Len(queue.entries)
        BY <2>9, <3>1 DEF Transmit, files
      <4>2. CASE Posted(i)
        BY <2>2, <2>6, <3>1, <4>1, <4>2 DEF Heard
      <4>3. CASE proc'[p].reached /\ i = Parcel(p).item
        <5>1. proc[p].at = "send" /\ proc'[p].at = "sending"
          BY <2>4, <2>5, <2>6, <2>7, <3>1, <4>1, <4>3
        <5>2. i = queue.entries[1].item /\ 1 \in 1..Len(queue.entries)
          BY <2>7, <3>1, <4>3, <5>1
        <5>3. PICK a \in 1..Len(line) : line[a] = i
          BY <2>0, <4>1 DEF Lined, Queued, Waits
        <5>4. ~(1 < k)
          <6>1. line \in Seq(Items) /\ Len(line) \in Nat
            BY DEF Shape, Records
          <6>2. 1 < k => a < a
            BY <4>1, <5>2, <5>3 DEF Lined, InOrder
          <6>. QED
            BY <6>1, <6>2
        <5>5. k = 1
          BY <2>0, <4>1, <5>4
        <5>6. p \in Working'
          <6>1. Middle(p)
            BY <3>1 DEF Middle
          <6>. QED
            BY <6>1, MiddleIs
        <5>. QED
          BY <4>3, <5>1, <5>5, <5>6 DEF Answering
      <4>. QED
        BY <2>2, <2>9, <4>2, <4>3
    <3>2. CASE SentOk(p)
      <4>1. /\ queue' = Rest(queue) /\ queue.entries # <<>> /\ queue \in QueueDoc
        <5>1. p \in Working /\ proc[p].at = "sending"
          BY <3>2, AtWorkStep DEF Middle, SentOk
        <5>2. queue = proc[p].doc /\ queue.entries # <<>> /\ queue \in QueueDoc
          BY <5>1 DEF CopyIsQueue, Mirror, Filled, Shape, Files, Commands
        <5>. QED
          BY <3>2, <5>2 DEF SentOk
      <4>2. k + 1 \in 1..Len(queue.entries) /\ k + 1 # 1 /\ i = queue.entries[k + 1].item
        BY <2>0, <2>9, <4>1, RestIs
      <4>3. Posted(i)
        BY <2>2, <2>9, <3>2 DEF SentOk, Transmit
      <4>4. i \in unheard
        BY <4>2, <4>3 DEF Heard
      <4>. QED
        BY <2>2, <4>4
    <3>3. CASE SentSilent(p)
      <4>1. p \in Working /\ proc[p] \in Active /\ proc[p].at = "sending"
        BY <3>3, AtWorkStep DEF Middle, SentSilent
      <4>2. queue = proc[p].doc /\ queue.entries # <<>> /\ queue \in QueueDoc
        BY <4>1 DEF CopyIsQueue, Mirror, Filled, Shape, Files, Commands
      <4>3. queue' = queue
        BY <3>3, <4>1, <4>2 DEF SentSilent, AfterFailure, Shape, Commands, Active
      <4>4. Posted(i)
        BY <2>2, <2>9, <3>3 DEF SentSilent, Transmit
      <4>5. CASE i \in unheard
        BY <2>2, <4>5
      <4>6. CASE k = 1 /\ Answering
        <5>1. proc[p].reached
          BY <2>4, <3>3, <4>1, <4>6 DEF Answering, Alone
        <5>2. Parcel(p).item = i
          BY <2>9, <4>1, <4>2, <4>3, <4>6, RestIs DEF Parcel
        <5>. QED
          BY <3>3, <5>1, <5>2 DEF SentSilent, Unheard
      <4>. QED
        BY <2>9, <4>3, <4>4, <4>5, <4>6 DEF Heard
    <3>4. CASE ~(Transmit(p) \/ SentOk(p) \/ SentSilent(p))
      <4>1. ~Answering
        <5>1. CASE Start(p)
          <6>1. Working = {}
            BY <5>1, OnlyOne, <1>1 DEF Start, Working
          <6>. QED
            BY <6>1 DEF Answering
        <5>2. CASE proc[p].at = "sending" /\ ~Start(p)
          <6>1. SentLoud(p)
            <7>1. ~Ending(p)
              BY <5>2 DEF Ending, Blocked, PublishedOk, PublishedLoud, EnqueueWrite, EnqueueFails
            <7>. QED
              BY <1>1, <3>4, <5>2, <7>1, CommandSteps, FromSending
          <6>. QED
            BY <2>4, <5>2, <6>1 DEF SentLoud, Answering
        <5>3. CASE proc[p].at # "sending" /\ ~Start(p)
          BY <2>4, <5>3 DEF Answering
        <5>. QED
          BY <5>1, <5>2, <5>3
      <4>2. Posted(i) /\ i \in Items /\ Queued(i)'
        <5>1. queue'.entries[k].item \in Items
          BY <2>9, QueueIs DEF Shape, Files
        <5>. QED
          BY <2>2, <2>9, <3>4, <5>1 DEF Queued
      <4>3. CASE Queued(i)
        BY <2>2, <4>1, <4>2, <4>3 DEF Queued, Heard
      <4>4. CASE EnqueueWrite(p) /\ i = proc[p].item
        BY <2>2, <4>2, <4>4, AtWorkStep DEF Ending, EnqueueWrite, Heard
      <4>. QED
        BY <2>1, <4>2, <4>3, <4>4
    <3>. QED
      BY <3>1, <3>2, <3>3, <3>4
  <2>10. ASSUME p \in Working', NEW i, i = proc'[p].item, Posted(i)'
         PROVE  \/ i \in unheard'
                \/ (proc'[p].at = "publishing" /\ proc'[p].reached)
    <3>1. CASE Start(p)
      <4>1. i \in Items /\ told[i] = "no"
        BY <2>10, <3>1, StartIs
      <4>2. ~Posted(i)
        BY <4>1 DEF Heard
      <4>. QED
        BY <2>2, <2>6, <2>10, <3>1, <4>2
    <3>2. CASE Transmit(p)
      <4>1. i = proc[p].item
        BY <2>10, <3>2, SendIs
      <4>2. CASE proc[p].at = "send"
        <5>1. Posted(i)
          BY <2>2, <2>4, <2>5, <2>6, <2>7, <2>10, <3>2, <4>1, <4>2
        <5>. QED
          BY <2>2, <2>4, <2>6, <3>2, <4>1, <4>2, <5>1 DEF Heard
      <4>3. CASE proc[p].at = "publish"
        <5>1. CASE proc'[p].reached
          BY <2>6, <3>2, <4>3, <5>1
        <5>2. CASE ~proc'[p].reached
          <6>1. Posted(i)
            BY <2>2, <2>10, <5>2
          <6>. QED
            BY <2>2, <2>4, <2>6, <3>2, <4>1, <4>3, <6>1 DEF Heard
        <5>. QED
          BY <5>1, <5>2
      <4>. QED
        BY <2>6, <3>2, <4>2, <4>3
    <3>3. CASE Middle(p) /\ ~Transmit(p)
      <4>1. i = proc[p].item /\ Posted(i) /\ p \in Working
        BY <2>2, <2>10, <3>3, MiddleIs, AtWorkStep
      <4>2. CASE i \in unheard
        BY <2>2, <4>2
      <4>3. CASE proc[p].at = "publishing" /\ proc[p].reached
        <5>1. PublishedSilent(p)
          BY <3>3, <4>3, FromPublishing
        <5>2. Parcel(p).item = i
          BY <4>1, <4>3 DEF Parcel
        <5>. QED
          BY <4>3, <5>1, <5>2 DEF PublishedSilent, Unheard
      <4>. QED
        BY <4>1, <4>2, <4>3 DEF Heard
    <3>4. CASE Ending(p)
      BY <2>10, <3>4, EndingIs DEF Working
    <3>. QED
      BY <1>1, <3>1, <3>2, <3>3, <3>4, CommandSteps
  <2>11. ASSUME NEW a \in 1..Len(log'), NEW b \in 1..Len(log'), a < b,
                log'[a].item = log'[b].item, NEW i, i = log'[a].item
         PROVE  i \in unheard'
    <3>1. CASE log' = log
      BY <2>2, <2>11, <3>1 DEF Heard
    <3>2. CASE log' = Append(log, Parcel(p)) /\ Transmit(p) /\ Parcel(p) \in Row
      <4>1. /\ log'[Len(log) + 1] = Parcel(p) /\ Len(log) \in Nat
            /\ \A c \in 1..Len(log) : log'[c] = log[c]
            /\ \A c \in 1..Len(log') : c \in 1..Len(log) \/ c = Len(log) + 1
        BY <3>2, Appended
      <4>2. a \in 1..Len(log) /\ i = log[a].item
        BY <2>11, <4>1
      <4>3. CASE b \in 1..Len(log)
        BY <2>2, <2>11, <4>1, <4>2, <4>3 DEF Heard
      <4>4. CASE b = Len(log) + 1
        <5>1. Posted(i) /\ i = Parcel(p).item
          BY <2>11, <4>1, <4>2, <4>4 DEF Posted
        <5>2. CASE proc[p].at = "send"
          BY <2>2, <2>6, <2>7, <3>2, <5>1, <5>2 DEF Heard
        <5>3. CASE proc[p].at = "publish"
          BY <2>2, <2>4, <2>6, <2>7, <3>2, <5>1, <5>3 DEF Heard
        <5>. QED
          BY <2>6, <3>2, <5>2, <5>3
      <4>. QED
        BY <4>1, <4>3, <4>4
    <3>. QED
      BY <1>1, <3>1, <3>2, LogFate
  <2>12. (\A k \in 1..Len(queue.entries) :
            Posted(queue.entries[k].item) =>
              queue.entries[k].item \in unheard \/ (k = 1 /\ Answering))'
    BY <2>9 DEF Posted
  <2>13. (\A q \in Working :
            Posted(proc[q].item) => \/ proc[q].item \in unheard
                                    \/ (proc[q].at = "publishing" /\ proc[q].reached))'
    BY <2>3, <2>10 DEF Posted
  <2>. QED
    BY <2>8, <2>11, <2>12, <2>13 DEF Heard
<1>2. ASSUME NEW h \in Hooks, HookReads(h) \/ HookWrites(h) PROVE Heard'
  BY <1>2 DEF HookReads, HookWrites, files, fate, marks, kept, Heard, Posted, Answering, Working
<1>3. CASE Age \/ Rebind \/ UNCHANGED vars
  BY <1>3 DEF Age, Rebind, vars, files, fate, marks, kept, Heard, Posted, Answering, Working
<1>. QED
  BY <1>1, <1>2, <1>3 DEF Next

-----------------------------------------------------------------------------
LEMMA OrderlyInit == Init => Orderly
<1>. SUFFICES ASSUME Init PROVE Orderly
  OBVIOUS
<1>1. Working = {} /\ Len(log) = 0 /\ Len(line) = 0 /\ Len(queue.entries) = 0
  BY DEF Init, Working
<1>2. Alone /\ Numbers /\ CopyIsQueue
  BY <1>1 DEF Init, Alone, Numbers, CopyIsQueue
<1>3. Reported /\ Honest /\ Latched
  BY <1>1 DEF Init, Reported, Waits, Honest, Latched
<1>4. Lined /\ Heard
  BY <1>1 DEF Init, Lined, Waits, Queued, SentFromQueue, InOrder, Heard, Posted
<1>. QED
  BY <1>2, <1>3, <1>4 DEF Orderly

LEMMA OrderlyStep == Shape /\ Shape' /\ Orderly /\ [Next]_vars => Orderly'
<1>. SUFFICES ASSUME Shape, Shape', Orderly, [Next]_vars, ~shared'
              PROVE  (Alone /\ Reported /\ Numbers /\ Honest /\ CopyIsQueue /\ Lined /\ Heard /\ Latched)'
  BY DEF Orderly
<1>1. Alone /\ Reported /\ Numbers /\ Honest /\ CopyIsQueue /\ Lined /\ Heard /\ Latched
  BY SharedStays DEF Orderly
<1>2. Alone' /\ Reported'
  BY <1>1, AloneStep, ReportedStep
<1>3. Numbers' /\ Honest' /\ Latched'
  BY <1>1, NumbersStep, HonestStep, LatchedStep
<1>4. CopyIsQueue' /\ Lined' /\ Heard'
  BY <1>1, <1>2, CopyStep, LinedStep, HeardStep
<1>. QED
  BY <1>2, <1>3, <1>4

LEMMA OrderlyHolds == Spec => [](Shape /\ Orderly)
  BY ShapeInit, ShapeStep, OrderlyInit, OrderlyStep, PTL DEF Spec

LEMMA SetsOfRows ==
  ASSUME Shape
  PROVE  /\ \A i : i \in Logged <=> Posted(i)
         /\ \A i : i \in Drained <=> SentFromQueue(i)
         /\ \A i : i \in ItemsOf(queue.entries) <=> Queued(i)
<1>1. DOMAIN log = 1..Len(log) /\ queue.entries \in Seq(Entry)
  BY DEF Shape, Records, Files, QueueDoc
<1>. QED
  BY <1>1, ItemsAre DEF Logged, Drained, Posted, SentFromQueue, Queued

(* As long as no two writers of the files run at once: what was reported   *)
(* as posted is on the transport.                                          *)
THEOREM SentMeansPosted == Spec => []HonestSent
<1>1. Shape /\ Orderly => HonestSent
  BY SetsOfRows DEF Orderly, Honest, HonestSent
<1>. QED
  BY <1>1, OrderlyHolds, PTL

(* What was reported as queued is queued, sent, or dropped for a reason,   *)
(* unless its enqueue failed.                                              *)
THEOREM QueuedIsAccounted == Spec => []Accounted
<1>1. Shape /\ Orderly => Accounted
  <2>. SUFFICES ASSUME Shape, Orderly, ~shared, NEW i \in Items \ unkept, told[i] = "queued"
                PROVE  i \in ItemsOf(queue.entries) \cup Logged \cup dropped \cup lapsed
    BY DEF Accounted
  <2>1. Queued(i) \/ SentFromQueue(i) \/ Gone(i)
    BY DEF Orderly, Reported, Lined
  <2>2. SentFromQueue(i) => Posted(i)
    BY DEF SentFromQueue, Posted
  <2>. QED
    BY <2>1, <2>2, SetsOfRows DEF Gone
<1>. QED
  BY <1>1, OrderlyHolds, PTL

(* The queue is sent in the order it was filled.                           *)
THEOREM QueueKeepsOrder == Spec => []InLine
<1>1. Shape /\ Orderly => InLine
  <2>. SUFFICES ASSUME Shape, Orderly, ~shared, NEW a \in DOMAIN line, NEW b \in DOMAIN line,
                       a < b, line[b] \in Drained
                PROVE  line[a] \in Drained \cup dropped \cup lapsed
    BY DEF InLine
  <2>1. a \in 1..Len(line) /\ b \in 1..Len(line)
    BY DEF Shape, Records
  <2>2. SentFromQueue(line[b])
    BY SetsOfRows
  <2>3. SentFromQueue(line[a]) \/ Gone(line[a])
    BY <2>1, <2>2 DEF Orderly, Lined
  <2>. QED
    BY <2>3, SetsOfRows DEF Gone
<1>. QED
  BY <1>1, OrderlyHolds, PTL

(* An item is posted twice only when the answer to the first was lost.     *)
THEOREM RepeatsAreUnheard == Spec => []RepeatsOnlyAfterLoss
<1>1. Shape /\ Orderly => RepeatsOnlyAfterLoss
  BY DEF Shape, Records, Orderly, Heard, RepeatsOnlyAfterLoss
<1>. QED
  BY <1>1, OrderlyHolds, PTL

(* A session that was refused loudly stays stopped, whatever its later     *)
(* commands save, until another session saves its flags over them.         *)
THEOREM RefusalStands == Spec => []LatchHolds
<1>1. Orderly => LatchHolds
  BY DEF Orderly, Latched, LatchHolds
<1>. QED
  BY <1>1, OrderlyHolds, PTL
===============================================================================
