--------------------------- MODULE HashDBSplitProofs ---------------------------
(***************************************************************************)
(* The regions of the value file, for every set of keys with slots of      *)
(* their own, every set of values of at most a quarter of the first value  *)
(* file and every bound, for a client that collects garbage only while     *)
(* there is no tombstone.                                                  *)
(***************************************************************************)
EXTENDS HashDBSplit, HashTableProofs

Region == [capacity : Nat, offset : Nat]

\* The slots that claim a region: a tombstone does too.
Used(t) == Live(t) \cup Tombs(t)

Disjoint(t) ==
  \A i, j \in Used(t) : i # j => Bytes(t.pairs[i].value) \cap Bytes(t.pairs[j].value) = {}

HandedOut(t, n) ==
  \A i \in Used(t) : t.pairs[i].value.offset + t.pairs[i].value.capacity <= n

Fits == /\ vsize \in Nat /\ vcap \in Nat
        /\ vsize <= vcap /\ InitValueCapacity <= vcap
        /\ \E m \in Nat : DOMAIN vfile = 0 .. m - 1 /\ vcap <= m

\* The inductive invariant.  Tombstones are part of it, as a set() may fill one
\* and take over its region.
IInv == Healthy(db, Region) /\ Disjoint(db) /\ HandedOut(db, vsize) /\ Fits

-----------------------------------------------------------------------------
\* The regions that the operations leave.

LEMMA UsedSlots ==
  ASSUME NEW t, Healthy(t, Region)
  PROVE  /\ t.capacity \in Nat /\ t.capacity >= 5
         /\ \A i \in Used(t) : /\ i \in Slots(t) /\ i \in Nat
                               /\ t.pairs[i].value \in Region
         /\ \A i \in Slots(t) : i \in Used(t) <=> t.pairs[i].state # "EMPTY"
<1>1. t.capacity \in Nat /\ t.capacity >= 5 /\ t.pairs \in [Slots(t) -> Pair(Region)]
  BY CapacityAssumption DEF Healthy, TableType
<1> QED
  BY <1>1 DEF Used, Live, Tombs, InState, Slots, Pair, State

\* A table whose regions are each that of a slot of its own of another table.
LEMMA Inherited ==
  ASSUME NEW t, NEW u, NEW n, Disjoint(t), HandedOut(t, n), NEW F,
         \A i \in Used(u) : F[i] \in Used(t) /\ u.pairs[i].value = t.pairs[F[i]].value,
         \A i, j \in Used(u) : F[i] = F[j] => i = j
  PROVE  Disjoint(u) /\ HandedOut(u, n)
BY DEF Disjoint, HandedOut

LEMMA RehashedRegions ==
  ASSUME NEW t, Healthy(t, Region), NEW n, Disjoint(t), HandedOut(t, n)
  PROVE  /\ Healthy(Rehashed(t, NoRegion), Region)
         /\ Disjoint(Rehashed(t, NoRegion)) /\ HandedOut(Rehashed(t, NoRegion), n)
<1> DEFINE u == Rehashed(t, NoRegion)
           F == [j \in Used(u) |-> Max(CopiedTo(t, j))]
<1>1. Healthy(u, Region)
  <2>1. NoRegion \in Region
    BY DEF NoRegion, Region
  <2> QED
    BY <2>1, RehashedHealthy
<1>2. ASSUME NEW j \in Used(u)
      PROVE  /\ F[j] \in Used(t) /\ u.pairs[j].value = t.pairs[F[j]].value
             /\ NewHome(t, F[j]) = j
  <2>1. j \in 0 .. 2 * t.capacity - 1 /\ u.pairs[j].state # "EMPTY"
    BY <1>1, UsedSlots DEF Slots, Rehashed
  <2>2. u.pairs[j] = IF CopiedTo(t, j) = {} THEN ZeroPair(NoRegion)
                     ELSE t.pairs[Max(CopiedTo(t, j))]
    BY <2>1 DEF Rehashed
  <2>3. CopiedTo(t, j) # {}
    BY <2>1, <2>2 DEF ZeroPair
  <2>4. t.capacity \in Nat /\ CopiedTo(t, j) \in SUBSET (0 .. t.capacity - 1)
    BY UsedSlots DEF CopiedTo, Live, InState, Slots
  <2>5. Max(CopiedTo(t, j)) \in CopiedTo(t, j)
    BY <2>3, <2>4, MaxOfSlots
  <2> QED
    BY <2>2, <2>3, <2>5 DEF CopiedTo, Used
<1> HIDE DEF F, u
<1>3. Disjoint(u) /\ HandedOut(u, n)
  BY <1>2, Inherited
<1> QED
  BY <1>1, <1>3 DEF u

LEMMA ErasedRegions ==
  ASSUME NEW t, Healthy(t, Region), NEW n, Disjoint(t), HandedOut(t, n), NEW k \in Key,
         StopDistances(t, k) # {}, t.pairs[GetEntry(t, k)].state = "FULL"
  PROVE  /\ Healthy(Erased(t, k), Region)
         /\ Disjoint(Erased(t, k)) /\ HandedOut(Erased(t, k), n)
<1> DEFINE u == Erased(t, k)
           F == [i \in Used(u) |-> i]
<1>1. Healthy(u, Region)
  BY ErasedHealthy
<1>2. /\ t.pairs \in [Slots(t) -> Pair(Region)] /\ u.capacity = t.capacity
      /\ \A i \in Slots(t) : u.pairs[i].value = t.pairs[i].value
      /\ \A i \in Slots(t) : u.pairs[i].state # "EMPTY" => t.pairs[i].state # "EMPTY"
  BY DEF Erased, Healthy, TableType, Pair
<1>3. Slots(u) = Slots(t)
  BY <1>2 DEF Slots
<1> HIDE DEF u
<1>4. \A i \in Used(u) : i \in Used(t) /\ u.pairs[i].value = t.pairs[i].value
  BY <1>1, <1>2, <1>3, UsedSlots
<1>5. \A i \in Used(u) : F[i] \in Used(t) /\ u.pairs[i].value = t.pairs[F[i]].value
  BY <1>4
<1>6. \A i, j \in Used(u) : F[i] = F[j] => i = j
  OBVIOUS
<1> HIDE DEF F
<1>7. Disjoint(u) /\ HandedOut(u, n)
  BY <1>5, <1>6, Inherited
<1> QED
  BY <1>1, <1>7 DEF u

\* A set() stores the region its slot has, or one behind all of them.
LEMMA StoredRegions ==
  ASSUME NEW t, Healthy(t, Region), ~NeedsRehash(t), NEW n \in Nat, NEW m \in Nat, n <= m,
         Disjoint(t), HandedOut(t, n),
         NEW k \in Key, StopDistances(t, k) # {}, NEW r \in Region,
         \/ r.offset = n /\ n + r.capacity <= m
         \/ /\ t.pairs[GetEntry(t, k)].state # "EMPTY"
            /\ r = t.pairs[GetEntry(t, k)].value
  PROVE  /\ Healthy(Stored(t, k, r), Region)
         /\ Disjoint(Stored(t, k, r)) /\ HandedOut(Stored(t, k, r), m)
<1> DEFINE u == Stored(t, k, r)
           g == GetEntry(t, k)
<1>1. Healthy(u, Region)
  BY StoredHealthy
<1>2. /\ g \in Slots(t) /\ u.capacity = t.capacity
      /\ u.pairs[g] = [state |-> "FULL", key |-> k, value |-> r]
      /\ \A j \in Slots(t) : j # g => u.pairs[j] = t.pairs[j]
  BY StoredTable
<1>3. Slots(u) = Slots(t) /\ u.pairs[g].value = r
  BY <1>2 DEF Slots
<1>4. \/ r = t.pairs[g].value /\ g \in Used(t)
      \/ r.offset = n /\ n + r.capacity <= m
  <2>1. t.pairs[g].state # "EMPTY" => g \in Used(t)
    BY <1>2, UsedSlots
  <2> QED
    BY <2>1
<1> HIDE DEF u, g
<1>5. \A i \in Used(u) : i # g => i \in Used(t) /\ u.pairs[i].value = t.pairs[i].value
  BY <1>1, <1>2, <1>3, UsedSlots
<1>6. \A i \in Used(t) : /\ t.pairs[i].value \in Region
                         /\ t.pairs[i].value.offset + t.pairs[i].value.capacity <= n
  BY UsedSlots DEF HandedOut
<1>7. ASSUME NEW i \in Used(u)
      PROVE  u.pairs[i].value.offset + u.pairs[i].value.capacity <= m
  <2>1. CASE i = g /\ r.offset = n /\ n + r.capacity <= m
    BY <1>3, <2>1
  <2>2. CASE u.pairs[i].value \in {t.pairs[j].value : j \in Used(t)}
    BY <1>6, <2>2 DEF Region
  <2> QED
    BY <1>3, <1>4, <1>5, <2>1, <2>2
<1>8. ASSUME NEW i \in Used(u), i # g
      PROVE  Bytes(u.pairs[i].value) \cap Bytes(r) = {}
  <2>1. i \in Used(t) /\ u.pairs[i].value = t.pairs[i].value
    BY <1>5, <1>8
  <2>2. CASE r = t.pairs[g].value /\ g \in Used(t)
    BY <1>8, <2>1, <2>2 DEF Disjoint
  <2>3. CASE r.offset = n
    BY <1>6, <2>1, <2>3 DEF Bytes, Region
  <2> QED
    BY <1>4, <2>2, <2>3
<1>9. ASSUME NEW i \in Used(u), NEW j \in Used(u), i # j
      PROVE  Bytes(u.pairs[i].value) \cap Bytes(u.pairs[j].value) = {}
  <2>1. CASE i = g \/ j = g
    BY <1>3, <1>8, <1>9, <2>1
  <2>2. CASE i # g /\ j # g
    BY <1>5, <1>9, <2>2 DEF Disjoint
  <2> QED
    BY <2>1, <2>2
<1>10. Disjoint(u) /\ HandedOut(u, m)
  BY <1>7, <1>9 DEF Disjoint, HandedOut
<1> QED
  BY <1>1, <1>10 DEF u

-----------------------------------------------------------------------------
\* Garbage collection.  The bytes copied before a slot are counted; being
\* disjoint, the regions hold no more of them than were handed out.

LEMMA CopiedBytes ==
  ASSUME NEW t, NEW i, NEW p \in CopiedBefore(t, i)
  PROVE  /\ p = <<p[1], p[2]>> /\ p[1] \in Live(t) /\ p[1] < i
         /\ p[2] \in Bytes(t.pairs[p[1]].value)
BY DEF CopiedBefore

LEMMA CopiedFinite ==
  ASSUME NEW t, Healthy(t, Region), NEW n \in Nat, Disjoint(t), HandedOut(t, n), NEW i
  PROVE  /\ IsFiniteSet(CopiedBefore(t, i))
         /\ CompactOffset(t, i) \in Nat /\ CompactOffset(t, i) <= n
<1> DEFINE f == [p \in CopiedBefore(t, i) |-> p[2]]
<1>1. ASSUME NEW p \in CopiedBefore(t, i) PROVE p[2] \in 0 .. n - 1
  <2>1. p[1] \in Used(t) /\ p[2] \in Bytes(t.pairs[p[1]].value)
    BY CopiedBytes DEF Used
  <2>2. t.pairs[p[1]].value \in Region
    BY <2>1, UsedSlots
  <2>3. t.pairs[p[1]].value.offset + t.pairs[p[1]].value.capacity <= n
    BY <2>1 DEF HandedOut
  <2> QED
    BY <2>1, <2>2, <2>3 DEF Bytes, Region
<1>2. ASSUME NEW p \in CopiedBefore(t, i), NEW q \in CopiedBefore(t, i), p[2] = q[2]
      PROVE  p = q
  <2>1. /\ p = <<p[1], p[2]>> /\ p[1] \in Used(t) /\ p[2] \in Bytes(t.pairs[p[1]].value)
        /\ q = <<q[1], q[2]>> /\ q[1] \in Used(t) /\ q[2] \in Bytes(t.pairs[q[1]].value)
    BY CopiedBytes DEF Used
  <2>2. p[1] = q[1]
    BY <1>2, <2>1 DEF Disjoint
  <2> QED
    BY <1>2, <2>1, <2>2
<1>3. f \in Injection(CopiedBefore(t, i), 0 .. n - 1)
  BY <1>1, <1>2 DEF Injection, IsInjective
<1>4. IsFiniteSet(0 .. n - 1) /\ Cardinality(0 .. n - 1) = n
  BY FS_Interval
<1>5. /\ IsFiniteSet(CopiedBefore(t, i))
      /\ Cardinality(CopiedBefore(t, i)) <= Cardinality(0 .. n - 1)
  BY <1>3, <1>4, FS_Injection
<1> QED
  BY <1>4, <1>5, FS_CardinalityType DEF CompactOffset

\* The next region goes behind all of this one.
LEMMA CompactedApart ==
  ASSUME NEW t, Healthy(t, Region), NEW n \in Nat, Disjoint(t), HandedOut(t, n),
         NEW i \in Live(t), NEW j \in Nat, i < j
  PROVE  CompactOffset(t, i) + t.pairs[i].value.capacity <= CompactOffset(t, j)
<1> DEFINE A == CopiedBefore(t, i)
           B == {i} \X Bytes(t.pairs[i].value)
           C == CopiedBefore(t, j)
           c == t.pairs[i].value.capacity
<1>1. i \in Nat /\ t.pairs[i].value \in Region
  BY UsedSlots DEF Used
<1>2. IsFiniteSet(A) /\ IsFiniteSet(C) /\ Cardinality(A) \in Nat /\ Cardinality(C) \in Nat
  BY CopiedFinite DEF CompactOffset
<1>3. IsFiniteSet(B) /\ Cardinality(B) = c
  <2>1. /\ IsFiniteSet(Bytes(t.pairs[i].value))
        /\ Cardinality(Bytes(t.pairs[i].value)) = c
    <3> DEFINE o == t.pairs[i].value.offset
               last == o + c - 1
    <3>1. o \in Nat /\ c \in Nat /\ last = o + c - 1 /\ Bytes(t.pairs[i].value) = o .. last
      BY <1>1 DEF Bytes, Region
    <3> HIDE DEF o, c, last
    <3>2. o \in Int /\ last \in Int
      BY <3>1
    <3>3. IsFiniteSet(o .. last) /\ Cardinality(o .. last) = IF o > last THEN 0 ELSE last - o + 1
      BY <3>2, FS_Interval
    <3> QED
      BY <3>1, <3>3
  <2>2. IsFiniteSet({i}) /\ Cardinality({i}) = 1
    BY FS_Singleton
  <2>3. IsFiniteSet(B) /\ Cardinality(B) = 1 * Cardinality(Bytes(t.pairs[i].value))
    BY <2>1, <2>2, FS_Product
  <2> QED
    BY <1>1, <2>1, <2>3 DEF Region
<1>4. A \cap B = {}
  <2>1. ASSUME NEW p \in A PROVE p \notin B
    BY <1>1, CopiedBytes
  <2> QED
    BY <2>1
<1>5. A \cup B \subseteq C
  <2>1. ASSUME NEW p \in A PROVE p \in C
    <3>1. p = <<p[1], p[2]>> /\ p[1] \in Live(t) /\ p[1] < i /\ p[1] \in Nat
          /\ p[2] \in Bytes(t.pairs[p[1]].value)
      BY CopiedBytes, UsedSlots DEF Used
    <3>2. p[1] < j
      BY <1>1, <3>1
    <3> QED
      BY <3>1, <3>2 DEF CopiedBefore
  <2>2. B \subseteq C
    BY DEF CopiedBefore
  <2> QED
    BY <2>1, <2>2
<1>6. c \in Nat
  BY <1>1 DEF Region
<1> HIDE DEF A, B, C, c
<1>7. Cardinality(A \cup B) = Cardinality(A) + c
  <2>1. Cardinality(A \cup B) = Cardinality(A) + Cardinality(B) - Cardinality(A \cap B)
    BY <1>2, <1>3, FS_Union
  <2>2. Cardinality(A \cap B) = 0
    BY <1>4, FS_EmptySet
  <2> QED
    BY <1>2, <1>3, <1>6, <2>1, <2>2
<1>8. Cardinality(A \cup B) <= Cardinality(C)
  BY <1>2, <1>5, FS_Subset
<1> QED
  BY <1>7, <1>8 DEF A, C, c, CompactOffset

\* The entries stay where they are, and their regions do not overlap.
LEMMA CompactedEntries ==
  ASSUME NEW t, Healthy(t, Region), NEW n \in Nat, Disjoint(t), HandedOut(t, n)
  PROVE  /\ Healthy(Compacted(t), Region)
         /\ Slots(Compacted(t)) = Slots(t)
         /\ Live(Compacted(t)) = Live(t) /\ Tombs(Compacted(t)) = Tombs(t)
         /\ \A i \in Slots(t) : Compacted(t).pairs[i].key = t.pairs[i].key
         /\ \A i \in Live(t) :
              /\ Compacted(t).pairs[i].value.offset = CompactOffset(t, i)
              /\ Compacted(t).pairs[i].value.capacity = t.pairs[i].value.capacity
              /\ CompactOffset(t, i) \in Nat /\ t.pairs[i].value \in Region
              /\ CompactOffset(t, i) + t.pairs[i].value.capacity <= CompactSize(t)
         /\ \A i, j \in Live(t) : i # j =>
              Bytes(Compacted(t).pairs[i].value) \cap Bytes(Compacted(t).pairs[j].value) = {}
         /\ CompactSize(t) \in Nat /\ CompactSize(t) <= n
<1> DEFINE u == Compacted(t)
<1>1. /\ t.capacity \in Nat /\ t.pairs \in [Slots(t) -> Pair(Region)] /\ TableType(t, Region)
      /\ t \in [capacity : Nat, size : Nat, fill : Nat, pairs : [Slots(t) -> Pair(Region)]]
  BY DEF Healthy, TableType
<1>2. \A i \in Live(t) : i \in Slots(t) /\ t.pairs[i].state = "FULL"
  BY DEF Live, InState
<1>3. /\ u.capacity = t.capacity /\ u.size = t.size /\ u.fill = t.fill
      /\ u.pairs = [i \in Slots(t) |->
                      IF i \in Live(t)
                      THEN [t.pairs[i] EXCEPT !.value.offset = CompactOffset(t, i)]
                      ELSE t.pairs[i]]
      /\ u \in [capacity : Nat, size : Nat, fill : Nat, pairs : {u.pairs}]
  BY <1>1 DEF Compacted
<1> HIDE DEF u
<1>4. ASSUME NEW i \in Slots(t)
      PROVE  /\ u.pairs[i] \in Pair(Region)
             /\ u.pairs[i].state = t.pairs[i].state /\ u.pairs[i].key = t.pairs[i].key
  <2>1. CASE i \in Live(t)
    <3>1. t.pairs[i] \in Pair(Region) /\ CompactOffset(t, i) \in Nat
      BY <1>1, CopiedFinite
    <3>2. u.pairs[i] = [t.pairs[i] EXCEPT !.value.offset = CompactOffset(t, i)]
      BY <1>3, <2>1
    <3> QED
      BY <3>1, <3>2 DEF Pair, Region
  <2>2. CASE i \notin Live(t)
    BY <1>1, <1>3, <2>2
  <2> QED
    BY <2>1, <2>2
<1>5. Slots(u) = Slots(t) /\ u.pairs \in [Slots(u) -> Pair(Region)]
  BY <1>3, <1>4 DEF Slots
<1>6. Live(u) = Live(t) /\ Tombs(u) = Tombs(t)
  BY <1>4, <1>5 DEF Live, Tombs, InState
<1>7. Healthy(u, Region)
  <2>1. TableType(u, Region)
    BY <1>1, <1>3, <1>4, <1>5 DEF TableType
  <2>2. CountersAgree(u) /\ RoomLeft(u)
    BY <1>3, <1>6 DEF Healthy, CountersAgree, RoomLeft
  <2> QED
    BY <2>1, <2>2 DEF Healthy
<1>8. ASSUME NEW i \in Live(t)
      PROVE  /\ u.pairs[i].value.offset = CompactOffset(t, i)
             /\ u.pairs[i].value.capacity = t.pairs[i].value.capacity
             /\ CompactOffset(t, i) \in Nat /\ t.pairs[i].value.capacity \in Nat
             /\ i \in 0 .. t.capacity - 1
  <2>1. t.pairs[i] \in Pair(Region) /\ CompactOffset(t, i) \in Nat
    BY <1>1, <1>2, CopiedFinite
  <2>2. u.pairs[i] = [t.pairs[i] EXCEPT !.value.offset = CompactOffset(t, i)]
    BY <1>2, <1>3
  <2> QED
    BY <1>2, <2>1, <2>2 DEF Pair, Region, Slots
<1>9. \A i \in Live(t) : CompactOffset(t, i) + t.pairs[i].value.capacity <= CompactSize(t)
  BY <1>1, <1>8, CompactedApart DEF CompactSize
<1>10. ASSUME NEW i \in Live(t), NEW j \in Live(t), i < j
       PROVE  Bytes(u.pairs[i].value) \cap Bytes(u.pairs[j].value) = {}
  <2>1. CompactOffset(t, i) + t.pairs[i].value.capacity <= CompactOffset(t, j)
    BY <1>8, <1>10, CompactedApart
  <2> QED
    BY <1>8, <2>1 DEF Bytes
<1>11. ASSUME NEW i \in Live(t), NEW j \in Live(t), i # j
       PROVE  Bytes(u.pairs[i].value) \cap Bytes(u.pairs[j].value) = {}
  <2>1. i < j \/ j < i
    BY <1>8, <1>11
  <2> QED
    BY <1>10, <2>1
<1>12. CompactSize(t) \in Nat /\ CompactSize(t) <= n
  BY CopiedFinite DEF CompactSize
<1>13. \A i \in Live(t) : t.pairs[i].value \in Region
  BY UsedSlots DEF Used
<1> QED
  BY <1>4, <1>5, <1>6, <1>7, <1>8, <1>9, <1>11, <1>12, <1>13 DEF u

\* Without tombstones they are all the regions there are.
LEMMA CompactedRegions ==
  ASSUME NEW t, Healthy(t, Region), NEW n \in Nat, Disjoint(t), HandedOut(t, n),
         Tombs(t) = {}
  PROVE  /\ Healthy(Compacted(t), Region)
         /\ Disjoint(Compacted(t)) /\ HandedOut(Compacted(t), CompactSize(t))
         /\ CompactSize(t) \in Nat /\ CompactSize(t) <= n
<1>1. Used(Compacted(t)) = Live(t)
  BY CompactedEntries DEF Used
<1> QED
  BY <1>1, CompactedEntries DEF Disjoint, HandedOut

-----------------------------------------------------------------------------
\* The invariant.

LEMMA WrittenFile ==
  ASSUME NEW f, NEW m \in Nat, DOMAIN f = 0 .. m - 1, NEW offset \in Nat, NEW v \in Value
  PROVE  \E e \in Nat : DOMAIN Written(f, offset, v) = 0 .. e - 1 /\ m <= e
<1> DEFINE e == Max({m, offset + Len[v]})
<1>1. Len[v] \in Nat
  BY LenAssumption
<1>2. Cardinality(DOMAIN f) = m
  BY FS_Interval
<1>3. e \in {m, offset + Len[v]} /\ e >= m
  <2>1. {m, offset + Len[v]} \in SUBSET (0 .. (m + offset + Len[v] + 1) - 1)
    BY <1>1
  <2>2. m + offset + Len[v] + 1 \in Nat
    BY <1>1
  <2> QED
    BY <2>1, <2>2, MaxOfSlots
<1>4. DOMAIN Written(f, offset, v) = 0 .. e - 1
  BY <1>2 DEF Written
<1> HIDE DEF e
<1>5. e \in Nat
  BY <1>1, <1>3
<1> QED
  BY <1>3, <1>4, <1>5

LEMMA EmptyRegions ==
  ASSUME NEW t, t.capacity \in Nat, \A i \in Slots(t) : t.pairs[i].state = "EMPTY", NEW n
  PROVE  Disjoint(t) /\ HandedOut(t, n)
<1>1. Used(t) = {}
  BY DEF Used, Live, Tombs, InState
<1> QED
  BY <1>1 DEF Disjoint, HandedOut

LEMMA FreshRegions ==
  ASSUME NEW n
  PROVE  /\ Healthy(FreshTable(NoRegion), Region)
         /\ Disjoint(FreshTable(NoRegion)) /\ HandedOut(FreshTable(NoRegion), n)
<1>1. NoRegion \in Region
  BY DEF NoRegion, Region
<1>2. Healthy(FreshTable(NoRegion), Region)
  BY <1>1, FreshHealthy
<1> QED
  BY <1>2, EmptyRegions, CapacityAssumption DEF FreshTable, Slots, ZeroPair

LEMMA InitIInv == Init => IInv
<1> SUFFICES ASSUME Init PROVE IInv
  OBVIOUS
<1>1. Healthy(db, Region) /\ Disjoint(db) /\ HandedOut(db, vsize)
  BY FreshRegions DEF Init
<1>2. Fits
  BY ValueCapacityAssumption DEF Init, Fits
<1> QED
  BY <1>1, <1>2 DEF IInv

LEMMA CheckedRegions ==
  ASSUME IInv
  PROVE  /\ Healthy(Checked, Region) /\ ~NeedsRehash(Checked)
         /\ Disjoint(Checked) /\ HandedOut(Checked, vsize)
<1>1. NoRegion \in Region
  BY DEF NoRegion, Region
<1> QED
  BY <1>1, RehashedRegions, RehashedHealthy DEF IInv, Checked

\* A new region is behind what was handed out, in a file that has room for it.
LEMMA SetNewKeeps ==
  ASSUME IInv, NEW k \in Key, NEW v \in Value, SetNew(k, v)
  PROVE  IInv'
<1> DEFINE r == [capacity |-> Len[v], offset |-> vsize]
<1>1. /\ vsize \in Nat /\ vcap \in Nat /\ vsize <= vcap /\ InitValueCapacity <= vcap
      /\ InitValueCapacity \in Nat
  BY ValueCapacityAssumption DEF IInv, Fits
<1>2. PICK m \in Nat : DOMAIN vfile = 0 .. m - 1 /\ vcap <= m
  BY DEF IInv, Fits
<1>3. Len[v] \in Nat /\ 4 * Len[v] <= InitValueCapacity
  BY LenAssumption, SmallValues
<1>4. vsize' = vsize + Len[v] /\ vcap' = (IF Extends THEN 2 * vcap ELSE vcap)
  BY DEF SetNew, SizeAfter
<1>5. vsize' \in Nat /\ vcap' \in Nat /\ vcap <= vcap' /\ vsize' <= vcap'
  BY <1>1, <1>3, <1>4 DEF Extends
<1>6. Healthy(db', Region) /\ Disjoint(db') /\ HandedOut(db', vsize')
  <2>1. r \in Region /\ r.offset = vsize /\ vsize + r.capacity <= vsize' /\ vsize <= vsize'
    BY <1>1, <1>3, <1>4 DEF Region
  <2>2. db' = Stored(Checked, k, r) /\ StopDistances(Checked, k) # {}
    BY DEF SetNew
  <2> HIDE DEF r
  <2> QED
    BY <1>1, <1>5, <2>1, <2>2, CheckedRegions, StoredRegions
<1>7. \E e \in Nat : DOMAIN vfile' = 0 .. e - 1 /\ vcap' <= e
  <2>1. CASE Extends
    <3>1. 2 * vcap \in Nat /\ DOMAIN Resized(vfile, 2 * vcap) = 0 .. (2 * vcap) - 1
      BY <1>1 DEF Resized
    <3>2. vfile' = Written(Resized(vfile, 2 * vcap), vsize, v)
      BY <2>1 DEF SetNew
    <3> DEFINE grown == Resized(vfile, 2 * vcap)
               end == 2 * vcap
    <3>3. DOMAIN grown = 0 .. end - 1 /\ end \in Nat /\ vsize \in Nat
      BY <1>1, <3>1
    <3>5. vcap' = end
      BY <1>4, <2>1
    <3> HIDE DEF grown, end
    <3>4. \E e \in Nat : DOMAIN Written(grown, vsize, v) = 0 .. e - 1 /\ end <= e
      BY <3>3, WrittenFile
    <3> QED
      BY <3>2, <3>3, <3>4, <3>5 DEF grown
  <2>2. CASE ~Extends
    <3>1. vfile' = Written(vfile, vsize, v) /\ vcap' = vcap
      BY <1>4, <2>2 DEF SetNew
    <3>2. PICK e \in Nat : DOMAIN vfile' = 0 .. e - 1 /\ m <= e
      BY <1>1, <1>2, <3>1, WrittenFile
    <3> QED
      BY <1>1, <1>2, <3>1, <3>2
  <2> QED
    BY <2>1, <2>2
<1> QED
  BY <1>1, <1>5, <1>6, <1>7 DEF IInv, Fits

\* Otherwise the slot keeps its region, a tombstone's too.
LEMMA SetInPlaceKeeps ==
  ASSUME IInv, NEW k \in Key, NEW v \in Value, SetInPlace(k, v)
  PROVE  IInv'
<1> DEFINE g == GetEntry(Checked, k)
           r == Checked.pairs[g].value
<1>1. vsize \in Nat /\ vcap \in Nat
  BY DEF IInv, Fits
<1>2. PICK m \in Nat : DOMAIN vfile = 0 .. m - 1 /\ vcap <= m
  BY DEF IInv, Fits
<1>3. /\ StopDistances(Checked, k) # {} /\ Checked.pairs[g].state # "EMPTY"
      /\ db' = Stored(Checked, k, r) /\ vfile' = Written(vfile, r.offset, v)
      /\ vcap' = vcap /\ vsize' = vsize
  BY DEF SetInPlace, NewRegion
<1>4. r \in Region
  <2>1. Checked.capacity \in Nat /\ Checked.capacity > 0
    BY CheckedRegions, UsedSlots
  <2>2. g \in Slots(Checked)
    BY <1>3, <2>1, GetEntryStops
  <2> QED
    BY <1>3, <2>2, CheckedRegions, UsedSlots
<1>5. Healthy(db', Region) /\ Disjoint(db') /\ HandedOut(db', vsize')
  BY <1>1, <1>3, <1>4, CheckedRegions, StoredRegions
<1>6. PICK e \in Nat : DOMAIN vfile' = 0 .. e - 1 /\ m <= e
  <2>1. r.offset \in Nat
    BY <1>4 DEF Region
  <2> QED
    BY <1>2, <1>3, <2>1, WrittenFile
<1>7. Fits'
  BY <1>1, <1>2, <1>3, <1>6 DEF IInv, Fits
<1> QED
  BY <1>5, <1>7 DEF IInv

LEMMA CollectKeeps ==
  ASSUME IInv, CollectWithoutTombs
  PROVE  IInv'
<1>1. /\ vsize \in Nat /\ vcap \in Nat /\ vsize <= vcap /\ InitValueCapacity <= vcap
  BY DEF IInv, Fits
<1>2. /\ db' = Compacted(Checked) /\ vsize' = CompactSize(Checked) /\ vcap' = vcap
      /\ vfile' = CompactFile(Checked) /\ Tombs(Checked) = {}
  BY DEF CollectWithoutTombs, CollectGarbage
<1>3. /\ Healthy(db', Region) /\ Disjoint(db') /\ HandedOut(db', vsize')
      /\ vsize' \in Nat /\ vsize' <= vsize
  BY <1>1, <1>2, CheckedRegions, CompactedRegions
<1>4. DOMAIN vfile' = 0 .. vcap - 1
  BY <1>2 DEF CompactFile, Resized
<1>5. Fits'
  BY <1>1, <1>2, <1>3, <1>4, ValueCapacityAssumption DEF Fits
<1> QED
  BY <1>3, <1>5 DEF IInv

LEMMA NextIInv == IInv /\ [TidyNext]_vars => IInv'
<1> SUFFICES ASSUME IInv, [TidyNext]_vars PROVE IInv'
  OBVIOUS
<1>1. ASSUME Open PROVE IInv'
  <2>1. Healthy(db', Region) /\ Disjoint(db') /\ HandedOut(db', vsize')
    BY <1>1, FreshRegions DEF Open
  <2>2. Fits'
    BY <1>1, ValueCapacityAssumption DEF Open, Fits, Resized
  <2> QED
    BY <2>1, <2>2 DEF IInv
<1>2. ASSUME Clear PROVE IInv'
  <2>1. NoRegion \in Region /\ Healthy(db, Region)
    BY DEF NoRegion, Region, IInv
  <2>2. Healthy(db', Region)
    BY <1>2, <2>1, ClearedHealthy DEF Clear
  <2>3. Disjoint(db') /\ HandedOut(db', vsize')
    <3>1. db' = [db EXCEPT !.size = 0, !.fill = 0,
                           !.pairs = [i \in Slots(db) |-> ZeroPair(NoRegion)]]
      BY <1>2 DEF Clear, Cleared
    <3>2. db \in [capacity : Nat, size : Nat, fill : Nat,
                  pairs : [Slots(db) -> Pair(Region)]]
      BY <2>1 DEF Healthy, TableType
    <3>3. db'.capacity = db.capacity /\ db'.capacity \in Nat
          /\ db'.pairs = [i \in Slots(db) |-> ZeroPair(NoRegion)]
      BY <3>1, <3>2
    <3>4. \A i \in Slots(db') : db'.pairs[i].state = "EMPTY"
      BY <3>3 DEF Slots, ZeroPair
    <3> QED
      BY <3>3, <3>4, EmptyRegions
  <2>4. Fits'
    BY <1>2 DEF Clear, IInv, Fits
  <2> QED
    BY <2>2, <2>3, <2>4 DEF IInv
<1>3. ASSUME NEW k \in Key, Erase(k) PROVE IInv'
  <2>1. Healthy(db', Region) /\ Disjoint(db') /\ HandedOut(db', vsize')
    BY <1>3, ErasedRegions DEF Erase, IInv
  <2>2. Fits'
    BY <1>3 DEF Erase, IInv, Fits
  <2> QED
    BY <2>1, <2>2 DEF IInv
<1>4. ASSUME NEW k \in Key, NEW v \in Value, Set(k, v) PROVE IInv'
  BY <1>4, SetNewKeeps, SetInPlaceKeeps DEF Set
<1>5. ASSUME Rehash PROVE IInv'
  <2>1. Healthy(db', Region) /\ Disjoint(db') /\ HandedOut(db', vsize')
    BY <1>5, RehashedRegions DEF Rehash, IInv
  <2>2. Fits'
    BY <1>5 DEF Rehash, IInv, Fits
  <2> QED
    BY <2>1, <2>2 DEF IInv
<1>6. CASE UNCHANGED vars
  BY <1>6 DEF vars, IInv, Fits
<1> QED
  BY <1>1, <1>2, <1>3, <1>4, <1>5, <1>6, CollectKeeps DEF TidyNext

THEOREM Inductive == TidySpec => []IInv
BY InitIInv, NextIInv, PTL DEF TidySpec

\* No two entries of a tidy client share a byte of the value file.
THEOREM RegionsDisjoint == TidySpec => []LiveRegionsDisjoint
<1>1. IInv => LiveRegionsDisjoint
  BY DEF IInv, Disjoint, Used, LiveRegionsDisjoint
<1> QED
  BY <1>1, Inductive, PTL

\* Every region, a tombstone's too, lies below the next one to be given.
THEOREM RegionsBelowSize == TidySpec => []RegionsHandedOut
<1>1. IInv => RegionsHandedOut
  BY DEF IInv, HandedOut, Used, RegionsHandedOut
<1> QED
  BY <1>1, Inductive, PTL

\* What was handed out fits in the file: one doubling is enough for values of
\* a quarter of its first size.
THEOREM FileHoldsValues == TidySpec => []ValuesFit
<1>1. ASSUME Fits PROVE ValuesFit
  <2>1. PICK m \in Nat : DOMAIN vfile = 0 .. m - 1 /\ vcap <= m
    BY <1>1 DEF Fits
  <2>2. FileSize = m
    BY <2>1, FS_Interval DEF FileSize
  <2> QED
    BY <1>1, <2>1, <2>2 DEF Fits, ValuesFit
<1>2. IInv => ValuesFit
  BY <1>1 DEF IInv
<1> QED
  BY <1>2, Inductive, PTL
-----------------------------------------------------------------------------
\* The values.  Disjoint regions say that a set() leaves the other regions
\* alone; that get() answers with the values last set takes a second
\* invariant: every entry is where its key is looked for, and its region holds
\* a whole value.

Holds(f, r, v) ==
  /\ Len[v] <= r.capacity
  /\ \A n \in 1 .. Len[v] : /\ r.offset + n - 1 \in DOMAIN f
                            /\ f[r.offset + n - 1] = <<v, n>>

Held(t, f) == \A i \in Live(t) : \E v \in Value : Holds(f, t.pairs[i].value, v)

HInv == AtHome(db) /\ Held(db, vfile)

\* The first byte of a value tells a reader which it is.
LEMMA ReadHeld ==
  ASSUME NEW f, NEW r \in Region, NEW v \in Value, Holds(f, r, v)
  PROVE  ReadAt(f, r.offset) = v
<1> DEFINE ok(w) == \A i \in 1 .. Len[w] : /\ r.offset + i - 1 \in DOMAIN f
                                           /\ f[r.offset + i - 1] = <<w, i>>
<1>1. ok(v)
  BY DEF Holds
<1>2. ASSUME NEW w \in Value, ok(w) PROVE w = v
  <2>1. Len[w] \in Nat \ {0} /\ Len[v] \in Nat \ {0}
    BY LenAssumption
  <2>2. f[r.offset + 1 - 1] = <<w, 1>> /\ f[r.offset + 1 - 1] = <<v, 1>>
    BY <1>1, <1>2, <2>1
  <2> QED
    BY <2>2
<1>3. ReadAt(f, r.offset) = IF \E w \in Value : ok(w) THEN CHOOSE w \in Value : ok(w) ELSE Garbage
  BY DEF ReadAt
<1> HIDE DEF ok
<1> QED
  BY <1>1, <1>2, <1>3

LEMMA GetOwn ==
  ASSUME NEW t, Healthy(t, Region), AtHome(t), NEW f, NEW k \in Key
  PROVE  /\ Hash[k] \in Slots(t) /\ GetEntry(t, k) = Hash[k] /\ StopDistances(t, k) # {}
         /\ Get(t, f, k) = IF Hash[k] \in Live(t) THEN ReadAt(f, t.pairs[Hash[k]].value.offset)
                           ELSE Missing
<1>1. /\ Hash[k] \in Slots(t) /\ GetEntry(t, k) = Hash[k] /\ StopDistances(t, k) # {}
      /\ t.pairs[Hash[k]].state = "FULL" => t.size # 0
  BY OwnSlot, DirectKeys
<1> QED
  BY <1>1 DEF Get, Live, InState

\* The slots outside X keep their entries and these their values.
Kept(t, f, u, g, X) ==
  /\ Live(u) \ X = Live(t) \ X
  /\ \A i \in Live(t) \ X, v \in Value :
        Holds(f, t.pairs[i].value, v) => Holds(g, u.pairs[i].value, v)

\* Then get() answers for their keys what it did.
LEMMA SameElsewhere ==
  ASSUME NEW t, Healthy(t, Region), AtHome(t), NEW f, Held(t, f),
         NEW u, Healthy(u, Region), AtHome(u), NEW g,
         NEW X, Kept(t, f, u, g, X)
  PROVE  /\ \A k \in Key : Hash[k] \notin X => Get(u, g, k) = Get(t, f, k)
         /\ \A i \in Live(u) \ X : \E v \in Value : Holds(g, u.pairs[i].value, v)
<1>1. ASSUME NEW i \in Live(t) \ X
      PROVE  /\ i \in Live(u)
             /\ \E v \in Value : Holds(g, u.pairs[i].value, v)
             /\ ReadAt(g, u.pairs[i].value.offset) = ReadAt(f, t.pairs[i].value.offset)
  <2>1. PICK v \in Value : Holds(f, t.pairs[i].value, v)
    BY DEF Held
  <2>2. i \in Live(u) /\ Holds(g, u.pairs[i].value, v)
    BY <2>1 DEF Kept
  <2>3. t.pairs[i].value \in Region /\ u.pairs[i].value \in Region
    BY <2>2, UsedSlots DEF Used
  <2> QED
    BY <2>1, <2>2, <2>3, ReadHeld
<1>2. ASSUME NEW k \in Key, Hash[k] \notin X PROVE Get(u, g, k) = Get(t, f, k)
  <2>1. Hash[k] \in Live(u) <=> Hash[k] \in Live(t)
    BY <1>2 DEF Kept
  <2> QED
    BY <1>1, <1>2, <2>1, GetOwn
<1>3. \A i \in Live(u) \ X : \E v \in Value : Holds(g, u.pairs[i].value, v)
  BY <1>1 DEF Kept
<1> QED
  BY <1>2, <1>3

LEMMA EmptyContents ==
  ASSUME NEW t, Live(t) = {}, t.size = 0, NEW f
  PROVE  AtHome(t) /\ Held(t, f) /\ Contents(t, f) = [k \in Key |-> Missing]
BY DEF AtHome, Held, Contents, Get

LEMMA RehashedValues ==
  ASSUME NEW t, Healthy(t, Region), AtHome(t), NEW f, Held(t, f)
  PROVE  LET u == Rehashed(t, NoRegion)
         IN  AtHome(u) /\ Held(u, f) /\ Contents(u, f) = Contents(t, f)
<1> DEFINE u == Rehashed(t, NoRegion)
<1>1. Healthy(u, Region)
  <2>1. NoRegion \in Region
    BY DEF NoRegion, Region
  <2> QED
    BY <2>1, RehashedHealthy
<1>2. t.capacity \in Nat
  BY UsedSlots
<1>3. /\ AtHome(u) /\ Live(u) \ {} = Live(t) \ {}
      /\ \A i \in Live(t) : u.pairs[i] = t.pairs[i]
  BY <1>2, RehashedInPlace
<1> DEFINE X == {}
<1>4. Kept(t, f, u, f, X)
  BY <1>3 DEF Kept
<1> HIDE DEF u, X
<1>5. /\ \A k \in Key : Hash[k] \notin X => Get(u, f, k) = Get(t, f, k)
      /\ \A i \in Live(u) \ X : \E v \in Value : Holds(f, u.pairs[i].value, v)
  BY <1>1, <1>3, <1>4, SameElsewhere
<1>6. \A k \in Key : Get(u, f, k) = Get(t, f, k)
  BY <1>5 DEF X
<1>7. Held(u, f)
  BY <1>5 DEF X, Held
<1>8. Contents(u, f) = Contents(t, f)
  BY <1>6 DEF Contents
<1> QED
  BY <1>3, <1>7, <1>8 DEF u

LEMMA CheckedValues ==
  ASSUME IInv, HInv
  PROVE  /\ AtHome(Checked) /\ Held(Checked, vfile)
         /\ Contents(Checked, vfile) = Contents(db, vfile)
BY RehashedValues DEF IInv, HInv, Checked

LEMMA ErasedValues ==
  ASSUME NEW t, Healthy(t, Region), AtHome(t), NEW f, Held(t, f), NEW k \in Key,
         t.pairs[GetEntry(t, k)].state = "FULL"
  PROVE  /\ AtHome(Erased(t, k)) /\ Held(Erased(t, k), f)
         /\ Contents(Erased(t, k), f) = [Contents(t, f) EXCEPT ![k] = Missing]
<1> DEFINE u == Erased(t, k)
           h == Hash[k]
<1>1. /\ h \in Slots(t) /\ StopDistances(t, k) # {} /\ GetEntry(t, k) = h
  BY GetOwn
<1>2. Healthy(u, Region)
  BY <1>1, ErasedHealthy
<1>3. /\ u.capacity = t.capacity /\ u.pairs[h].state = "TOMBSTONE"
      /\ \A j \in Slots(t) : j # h => u.pairs[j] = t.pairs[j]
  BY <1>1, ErasedTable
<1> HIDE DEF u
<1>4. Slots(u) = Slots(t)
  BY <1>3 DEF Slots
<1>5. h \notin Live(u) /\ Live(u) \ {h} = Live(t) \ {h}
  BY <1>3, <1>4 DEF Live, InState
<1>6. \A i \in Live(t) \ {h} : u.pairs[i] = t.pairs[i]
  BY <1>3 DEF Live, InState
<1>7. AtHome(u)
  BY <1>5, <1>6 DEF AtHome
<1>8. /\ \A j \in Key : Hash[j] \notin {h} => Get(u, f, j) = Get(t, f, j)
      /\ \A i \in Live(u) \ {h} : \E v \in Value : Holds(f, u.pairs[i].value, v)
  <2> DEFINE X == {h}
  <2>1. Kept(t, f, u, f, X)
    BY <1>5, <1>6 DEF Kept
  <2> HIDE DEF X
  <2>2. /\ \A j \in Key : Hash[j] \notin X => Get(u, f, j) = Get(t, f, j)
        /\ \A i \in Live(u) \ X : \E v \in Value : Holds(f, u.pairs[i].value, v)
    BY <1>2, <1>7, <2>1, SameElsewhere
  <2> QED
    BY <2>2 DEF X
<1>9. \A j \in Key : Hash[j] = h => j = k
  BY DirectKeys DEF OwnSlots
<1>10. Get(u, f, k) = Missing
  BY <1>2, <1>5, <1>7, GetOwn
<1>11. \A j \in Key : Get(u, f, j) = IF j = k THEN Missing ELSE Get(t, f, j)
  BY <1>8, <1>9, <1>10
<1>12. Held(u, f)
  BY <1>5, <1>8 DEF Held
<1> QED
  BY <1>7, <1>11, <1>12 DEF u, Contents
\* set() writes a whole value to the region and nothing beside it.
LEMMA WrittenBytes ==
  ASSUME NEW f, NEW m \in Nat, DOMAIN f = 0 .. m - 1, NEW r \in Region, NEW v \in Value,
         Len[v] <= r.capacity
  PROVE  LET g == Written(f, r.offset, v)
         IN  /\ Holds(g, r, v)
             /\ \A b \in DOMAIN f : b \notin Bytes(r) => b \in DOMAIN g /\ g[b] = f[b]
<1> DEFINE g == Written(f, r.offset, v)
           end == Max({Cardinality(DOMAIN f), r.offset + Len[v]})
<1>1. Len[v] \in Nat /\ r.offset \in Nat /\ r.capacity \in Nat
  BY LenAssumption DEF Region
<1>2. end \in Nat /\ m <= end /\ r.offset + Len[v] <= end
  <2>1. Cardinality(DOMAIN f) = m
    <3>1. m - 1 \in Int /\ 0 \in Int /\ (IF 0 > m - 1 THEN 0 ELSE m - 1 - 0 + 1) = m
      OBVIOUS
    <3>2. Cardinality(0 .. m - 1) = IF 0 > m - 1 THEN 0 ELSE m - 1 - 0 + 1
      BY <3>1, FS_Interval
    <3>3. Cardinality(0 .. m - 1) = m
      BY <3>1, <3>2
    <3> QED
      BY <3>3, Zenon
  <2> DEFINE S == {m, r.offset + Len[v]}
  <2>2. S \in SUBSET (0 .. (m + r.offset + Len[v] + 1) - 1) /\ S # {}
    BY <1>1
  <2>3. m + r.offset + Len[v] + 1 \in Nat
    BY <1>1
  <2> HIDE DEF S
  <2>4. Max(S) \in S /\ \A x \in S : Max(S) >= x
    BY <2>2, <2>3, MaxOfSlots
  <2>5. end = Max(S)
    BY <2>1, Zenon DEF S
  <2>6. end \in {m, r.offset + Len[v]} /\ end >= m /\ end >= r.offset + Len[v]
    BY <2>4, <2>5 DEF S
  <2> HIDE DEF end
  <2> QED
    BY <1>1, <2>6
<1>3. g = [b \in 0 .. end - 1 |->
             IF b \in r.offset .. r.offset + Len[v] - 1 THEN <<v, b - r.offset + 1>>
             ELSE IF b \in DOMAIN f THEN f[b] ELSE Zero]
  BY DEF Written
<1> HIDE DEF g, end
<1>4. ASSUME NEW n \in 1 .. Len[v]
      PROVE  r.offset + n - 1 \in DOMAIN g /\ g[r.offset + n - 1] = <<v, n>>
  <2> DEFINE b == r.offset + n - 1
  <2>1. /\ b \in 0 .. end - 1 /\ b \in r.offset .. r.offset + Len[v] - 1
        /\ b - r.offset + 1 = n
    BY <1>1, <1>2
  <2> HIDE DEF b
  <2>2. b \in DOMAIN g /\ g[b] = <<v, n>>
    BY <1>3, <2>1
  <2> QED
    BY <2>2 DEF b
<1>5. ASSUME NEW b \in DOMAIN f, b \notin Bytes(r)
      PROVE  b \in DOMAIN g /\ g[b] = f[b]
  <2>1. b \in 0 .. end - 1 /\ b \notin r.offset .. r.offset + Len[v] - 1
    BY <1>1, <1>2, <1>5 DEF Bytes
  <2> QED
    BY <1>3, <2>1
<1>6. Holds(g, r, v)
  BY <1>4 DEF Holds
<1> QED
  BY <1>5, <1>6 DEF g

\* A region whose bytes all stay holds what it held.
LEMMA StillHolds ==
  ASSUME NEW f, NEW g, NEW r \in Region, NEW q \in Region, NEW v \in Value, Holds(f, r, v),
         q.capacity = r.capacity,
         \A b \in Bytes(q) : /\ b - q.offset + r.offset \in DOMAIN f => b \in DOMAIN g
                             /\ g[b] = f[b - q.offset + r.offset]
  PROVE  Holds(g, q, v)
<1>1. Len[v] \in Nat /\ Len[v] <= q.capacity
  BY LenAssumption DEF Holds
<1>2. ASSUME NEW n \in 1 .. Len[v]
      PROVE  q.offset + n - 1 \in DOMAIN g /\ g[q.offset + n - 1] = <<v, n>>
  <2> DEFINE b == q.offset + n - 1
  <2>1. b \in Bytes(q) /\ b - q.offset + r.offset = r.offset + n - 1
    BY <1>1 DEF Bytes, Region
  <2>2. r.offset + n - 1 \in DOMAIN f /\ f[r.offset + n - 1] = <<v, n>>
    BY DEF Holds
  <2> HIDE DEF b
  <2>3. b \in DOMAIN g /\ g[b] = <<v, n>>
    BY <2>1, <2>2
  <2> QED
    BY <2>3 DEF b
<1> QED
  BY <1>1, <1>2 DEF Holds

\* ... and a value whose bytes were not written stays where it is.
LEMMA HoldsOn ==
  ASSUME NEW f, NEW g, NEW q \in Region, NEW v \in Value, Holds(f, q, v),
         \A b \in Bytes(q) : b \in DOMAIN g /\ g[b] = f[b]
  PROVE  Holds(g, q, v)
<1>1. Len[v] \in Nat /\ Len[v] <= q.capacity /\ q.offset \in Nat /\ q.capacity \in Nat
  BY LenAssumption DEF Holds, Region
<1>2. ASSUME NEW n \in 1 .. Len[v]
      PROVE  q.offset + n - 1 \in DOMAIN g /\ g[q.offset + n - 1] = <<v, n>>
  <2> DEFINE b == q.offset + n - 1
  <2>1. b \in Bytes(q)
    BY <1>1 DEF Bytes
  <2>2. f[b] = <<v, n>>
    BY DEF Holds
  <2> HIDE DEF b
  <2>3. b \in DOMAIN g /\ g[b] = <<v, n>>
    BY <2>1, <2>2
  <2> QED
    BY <2>3 DEF b
<1> QED
  BY <1>1, <1>2 DEF Holds

\* A set() into a region that no other entry has, in a file that kept every
\* byte handed out.
LEMMA StoredValues ==
  ASSUME NEW t, Healthy(t, Region), AtHome(t), Held(t, vfile), HandedOut(t, vsize),
         NEW k \in Key, NEW v \in Value, NEW r \in Region, Len[v] <= r.capacity,
         NEW f, NEW m \in Nat, DOMAIN f = 0 .. m - 1, vsize \in Nat, vsize <= m,
         \A b \in 0 .. vsize - 1 : b \in DOMAIN vfile /\ f[b] = vfile[b],
         Healthy(Stored(t, k, r), Region), Disjoint(Stored(t, k, r))
  PROVE  LET u == Stored(t, k, r)
             g == Written(f, r.offset, v)
         IN  /\ AtHome(u) /\ Held(u, g)
             /\ Contents(u, g) = [Contents(t, vfile) EXCEPT ![k] = v]
<1> DEFINE u == Stored(t, k, r)
           g == Written(f, r.offset, v)
           h == Hash[k]
<1>1. /\ h \in Slots(t) /\ StopDistances(t, k) # {} /\ GetEntry(t, k) = h
  BY GetOwn
<1>2. /\ u.capacity = t.capacity /\ u.pairs[h] = [state |-> "FULL", key |-> k, value |-> r]
      /\ \A j \in Slots(t) : j # h => u.pairs[j] = t.pairs[j]
  BY <1>1, StoredTable
<1>3. /\ Holds(g, r, v)
      /\ \A b \in DOMAIN f : b \notin Bytes(r) => b \in DOMAIN g /\ g[b] = f[b]
  BY WrittenBytes
<1> HIDE DEF u, g
<1>4. Slots(u) = Slots(t)
  BY <1>2 DEF Slots
<1>5. h \in Live(u) /\ Live(u) \ {h} = Live(t) \ {h}
  BY <1>1, <1>2, <1>4 DEF Live, InState
<1>6. \A i \in Live(t) \ {h} : u.pairs[i] = t.pairs[i]
  BY <1>2 DEF Live, InState
<1>7. AtHome(u)
  BY <1>2, <1>5, <1>6 DEF AtHome
<1>8. ASSUME NEW i \in Live(t) \ {h}, NEW w \in Value, Holds(vfile, t.pairs[i].value, w)
      PROVE  Holds(g, u.pairs[i].value, w)
  <2> DEFINE q == u.pairs[i].value
  <2>1. /\ q = t.pairs[i].value /\ q \in Region /\ q.offset + q.capacity <= vsize
    BY <1>6, UsedSlots DEF Used, HandedOut
  <2>2. Bytes(q) \cap Bytes(r) = {}
    <3>1. Disjoint(u)
      BY DEF u
    <3>2. i \in Used(u) /\ h \in Used(u) /\ i # h /\ u.pairs[h].value = r
      BY <1>2, <1>5 DEF Used
    <3> QED
      BY <3>1, <3>2 DEF Disjoint
  <2> HIDE DEF q
  <2>3. \A b \in Bytes(q) : b \in DOMAIN g /\ g[b] = vfile[b]
    <3> TAKE b \in Bytes(q)
    <3>1. b \in 0 .. vsize - 1 /\ b \in 0 .. m - 1
      <4>1. q.offset \in Nat /\ q.capacity \in Nat /\ b \in q.offset .. q.offset + q.capacity - 1
        BY <2>1 DEF Bytes, Region
      <4>2. q.offset + q.capacity <= vsize /\ vsize <= m
        BY <2>1
      <4> QED
        BY <4>1, <4>2
    <3>2. b \in DOMAIN f /\ b \notin Bytes(r) /\ f[b] = vfile[b]
      BY <2>2, <3>1
    <3> QED
      BY <1>3, <3>2
  <2>5. Holds(vfile, q, w)
    BY <1>8, <2>1
  <2>6. Holds(g, q, w)
    <3>1. q \in Region
      BY <2>1
    <3> QED
      BY <3>1, <2>3, <2>5, HoldsOn
  <2> QED
    BY <2>6 DEF q
<1>9. /\ \A j \in Key : Hash[j] \notin {h} => Get(u, g, j) = Get(t, vfile, j)
      /\ \A i \in Live(u) \ {h} : \E w \in Value : Holds(g, u.pairs[i].value, w)
  <2>1. Healthy(u, Region)
    BY DEF u
  <2> DEFINE X == {h}
  <2>2. \A i \in Live(t) \ X, w \in Value :
           Holds(vfile, t.pairs[i].value, w) => Holds(g, u.pairs[i].value, w)
    BY <1>8
  <2>3. Live(u) \ X = Live(t) \ X
    BY <1>5
  <2>4. Kept(t, vfile, u, g, X)
    BY <2>2, <2>3 DEF Kept
  <2> HIDE DEF X
  <2>5. /\ \A j \in Key : Hash[j] \notin X => Get(u, g, j) = Get(t, vfile, j)
        /\ \A i \in Live(u) \ X : \E w \in Value : Holds(g, u.pairs[i].value, w)
    BY <1>7, <2>1, <2>4, SameElsewhere
  <2> QED
    BY <2>5 DEF X
<1>10. \A j \in Key : Hash[j] = h => j = k
  BY DirectKeys DEF OwnSlots
<1>11. Get(u, g, k) = v
  <2>1. Healthy(u, Region)
    BY DEF u
  <2>2. Get(u, g, k) = ReadAt(g, r.offset)
    BY <1>2, <1>5, <1>7, <2>1, GetOwn
  <2> QED
    BY <1>3, <2>2, ReadHeld
<1>12. \A j \in Key : Get(u, g, j) = IF j = k THEN v ELSE Get(t, vfile, j)
  BY <1>9, <1>10, <1>11
<1>13. Held(u, g)
  BY <1>2, <1>3, <1>5, <1>9 DEF Held
<1> QED
  BY <1>7, <1>12, <1>13 DEF u, g, Contents
\* Every byte of a region that collect_garbage() copies ends up at the same
\* place of the region's new bytes: they are its alone.
LEMMA CopiedByte ==
  ASSUME NEW t, Healthy(t, Region), NEW n \in Nat, n <= vcap, vcap \in Nat,
         Disjoint(t), HandedOut(t, n),
         NEW i \in Live(t), NEW b \in Bytes(Compacted(t).pairs[i].value)
  PROVE  /\ b \in DOMAIN CompactFile(t)
         /\ CompactFile(t)[b]
              = vfile[b - Compacted(t).pairs[i].value.offset + t.pairs[i].value.offset]
<1> DEFINE u == Compacted(t)
           owner(c) == {j \in Live(u) : c \in Bytes(u.pairs[j].value)}
           source(c, j) == c - u.pairs[j].value.offset + t.pairs[j].value.offset
           copied == [c \in 0 .. CompactSize(t) - 1 |->
                        LET j == CHOOSE j \in owner(c) : TRUE IN vfile[source(c, j)]]
<1>1. CompactFile(t) = Resized(copied, vcap)
  BY DEF CompactFile
<1>2. b \in 0 .. CompactSize(t) - 1 /\ CompactSize(t) <= vcap
  <2>1. /\ u.pairs[i].value.offset = CompactOffset(t, i)
        /\ u.pairs[i].value.capacity = t.pairs[i].value.capacity
        /\ CompactOffset(t, i) \in Nat /\ t.pairs[i].value \in Region
        /\ CompactOffset(t, i) + t.pairs[i].value.capacity <= CompactSize(t)
        /\ CompactSize(t) \in Nat /\ CompactSize(t) <= n
    BY CompactedEntries
  <2> HIDE DEF u
  <2>2. b \in CompactOffset(t, i) .. CompactOffset(t, i) + t.pairs[i].value.capacity - 1
    BY <2>1 DEF Bytes, u
  <2> QED
    BY <2>1, <2>2 DEF Region
<1>3. owner(b) = {i}
  <2>1. i \in Live(u)
    BY CompactedEntries
  <2>2. \A j \in Live(u) : b \in Bytes(u.pairs[j].value) => j = i
    BY CompactedEntries
  <2> QED
    BY <2>1, <2>2
<1> HIDE DEF u, owner, source
<1>4. copied[b] = vfile[source(b, i)] /\ b \in DOMAIN copied
  <2>1. (CHOOSE j \in owner(b) : TRUE) = i
    BY <1>3
  <2> QED
    BY <1>2, <2>1
<1>5. b \in 0 .. vcap - 1
  <2>1. CompactSize(t) \in Nat
    BY CompactedEntries
  <2> QED
    BY <1>2, <2>1
<1> HIDE DEF copied
<1>6. b \in DOMAIN Resized(copied, vcap) /\ Resized(copied, vcap)[b] = copied[b]
  BY <1>4, <1>5 DEF Resized
<1> QED
  BY <1>1, <1>4, <1>6 DEF source, u

LEMMA CompactedValues ==
  ASSUME NEW t, Healthy(t, Region), AtHome(t), Held(t, vfile), NEW n \in Nat, n <= vcap,
         vcap \in Nat, Disjoint(t), HandedOut(t, n)
  PROVE  /\ AtHome(Compacted(t)) /\ Held(Compacted(t), CompactFile(t))
         /\ Contents(Compacted(t), CompactFile(t)) = Contents(t, vfile)
<1> DEFINE u == Compacted(t)
           g == CompactFile(t)
<1>1. /\ Healthy(u, Region) /\ Slots(u) = Slots(t) /\ Live(u) = Live(t)
      /\ \A i \in Slots(t) : u.pairs[i].key = t.pairs[i].key
  BY CompactedEntries
<1>2. AtHome(u)
  BY <1>1 DEF AtHome, Live, InState
<1>3. ASSUME NEW i \in Live(t), NEW v \in Value, Holds(vfile, t.pairs[i].value, v)
      PROVE  Holds(g, u.pairs[i].value, v)
  <2> DEFINE r == t.pairs[i].value
             q == u.pairs[i].value
  <2>1. r \in Region /\ q \in Region
    BY <1>1, UsedSlots DEF Used
  <2>2. q.capacity = r.capacity
    BY CompactedEntries
  <2>3. \A b \in Bytes(q) : b \in DOMAIN g /\ g[b] = vfile[b - q.offset + r.offset]
    BY CopiedByte
  <2>4. Holds(vfile, r, v)
    BY <1>3
  <2> HIDE DEF u, g, r, q
  <2>5. Holds(g, q, v)
    BY <2>1, <2>2, <2>3, <2>4, StillHolds
  <2> QED
    BY <2>5 DEF q
<1> HIDE DEF u, g
<1> DEFINE X == {}
<1>4. Live(u) \ X = Live(t) \ X
  BY <1>1
<1>5. \A i \in Live(t) \ X, v \in Value :
         Holds(vfile, t.pairs[i].value, v) => Holds(g, u.pairs[i].value, v)
  BY <1>3
<1>6. Kept(t, vfile, u, g, X)
  BY <1>4, <1>5 DEF Kept
<1> HIDE DEF X
<1>7. /\ \A k \in Key : Hash[k] \notin X => Get(u, g, k) = Get(t, vfile, k)
      /\ \A i \in Live(u) \ X : \E v \in Value : Holds(g, u.pairs[i].value, v)
  <2>1. Healthy(u, Region)
    BY <1>1
  <2> QED
    BY <1>2, <1>6, <2>1, SameElsewhere
<1>8. \A k \in Key : Get(u, g, k) = Get(t, vfile, k)
  BY <1>7 DEF X
<1>9. Held(u, g)
  BY <1>7 DEF X, Held
<1>10. Contents(u, g) = Contents(t, vfile)
  BY <1>8 DEF Contents
<1> QED
  BY <1>2, <1>9, <1>10 DEF u, g

-----------------------------------------------------------------------------
\* Each call.

LEMMA SetValues ==
  ASSUME IInv, HInv, NEW k \in Key, NEW v \in Value, Set(k, v)
  PROVE  HInv' /\ Contents(db', vfile') = [Contents(db, vfile) EXCEPT ![k] = v]
<1>1. IInv'
  BY SetNewKeeps, SetInPlaceKeeps DEF Set
<1>2. Healthy(db', Region) /\ Disjoint(db')
  BY <1>1 DEF IInv
<1>3. /\ Healthy(Checked, Region) /\ HandedOut(Checked, vsize)
      /\ AtHome(Checked) /\ Held(Checked, vfile)
      /\ Contents(Checked, vfile) = Contents(db, vfile)
  BY CheckedRegions, CheckedValues
<1>4. vsize \in Nat /\ vcap \in Nat /\ vsize <= vcap
  BY DEF IInv, Fits
<1>5. PICK m \in Nat : DOMAIN vfile = 0 .. m - 1 /\ vcap <= m
  BY DEF IInv, Fits
<1>6. ASSUME NEW r \in Region, Len[v] <= r.capacity, NEW f, NEW e \in Nat,
             DOMAIN f = 0 .. e - 1, vsize <= e,
             \A b \in 0 .. vsize - 1 : b \in DOMAIN vfile /\ f[b] = vfile[b],
             db' = Stored(Checked, k, r), vfile' = Written(f, r.offset, v)
      PROVE  HInv' /\ Contents(db', vfile') = [Contents(db, vfile) EXCEPT ![k] = v]
  <2>1. Healthy(Stored(Checked, k, r), Region) /\ Disjoint(Stored(Checked, k, r))
    BY <1>2, <1>6, Zenon
  <2>2. /\ AtHome(Stored(Checked, k, r)) /\ Held(Stored(Checked, k, r), Written(f, r.offset, v))
        /\ Contents(Stored(Checked, k, r), Written(f, r.offset, v))
             = [Contents(Checked, vfile) EXCEPT ![k] = v]
    BY <1>3, <1>4, <1>6, <2>1, StoredValues
  <2>3. /\ AtHome(db') /\ Held(db', vfile')
        /\ Contents(db', vfile') = [Contents(Checked, vfile) EXCEPT ![k] = v]
    BY <1>6, <2>2, Zenon
  <2> QED
    BY <1>3, <2>3 DEF HInv
<1>7. \A b \in 0 .. vsize - 1 : b \in DOMAIN vfile
  BY <1>4, <1>5
<1>8. CASE SetNew(k, v)
  <2> DEFINE r == [capacity |-> Len[v], offset |-> vsize]
             f == IF Extends THEN Resized(vfile, 2 * vcap) ELSE vfile
  <2>1. r \in Region /\ Len[v] <= r.capacity /\ r.offset = vsize
    BY <1>4, LenAssumption DEF Region
  <2>2. db' = Stored(Checked, k, r) /\ vfile' = Written(f, vsize, v)
    BY <1>8 DEF SetNew
  <2>3. \E e \in Nat : DOMAIN f = 0 .. e - 1 /\ vsize <= e
    <3>1. CASE Extends
      <4>1. 2 * vcap \in Nat /\ vsize <= 2 * vcap /\ DOMAIN f = 0 .. 2 * vcap - 1
        BY <1>4, <3>1 DEF Resized
      <4> QED
        BY <4>1
    <3>2. CASE ~Extends
      BY <1>4, <1>5, <3>2
    <3> QED
      BY <3>1, <3>2
  <2>4. \A b \in 0 .. vsize - 1 : f[b] = vfile[b]
    BY <1>4, <1>7 DEF Resized
  <2> HIDE DEF r, f
  <2>5. vfile' = Written(f, r.offset, v)
    BY <2>1, <2>2, Zenon
  <2> QED
    BY <1>6, <1>7, <2>1, <2>2, <2>3, <2>4, <2>5
<1>9. CASE SetInPlace(k, v)
  <2> DEFINE g == GetEntry(Checked, k)
             r == Checked.pairs[g].value
  <2>1. /\ Checked.pairs[g].state # "EMPTY" /\ ~(Len[v] > r.capacity)
        /\ db' = Stored(Checked, k, r) /\ vfile' = Written(vfile, r.offset, v)
    BY <1>9 DEF SetInPlace, NewRegion
  <2>2. g \in Slots(Checked)
    BY <1>3, GetOwn
  <2>3. r \in Region
    BY <1>3, <2>1, <2>2, UsedSlots
  <2>4. Len[v] <= r.capacity
    BY <2>1, <2>3, LenAssumption DEF Region
  <2> HIDE DEF r
  <2>5. vsize <= m
    BY <1>4, <1>5
  <2> QED
    BY <1>5, <1>6, <1>7, <2>1, <2>3, <2>4, <2>5
<1> QED
  BY <1>8, <1>9 DEF Set

LEMMA CallKeepsValues ==
  ASSUME IInv, HInv
  PROVE  /\ \A k \in Key : Erase(k) =>
              HInv' /\ Contents(db', vfile') = [Contents(db, vfile) EXCEPT ![k] = Missing]
         /\ Clear \/ Open => HInv' /\ Contents(db', vfile') = [k \in Key |-> Missing]
         /\ Rehash \/ CollectGarbage => HInv' /\ Contents(db', vfile') = Contents(db, vfile)
<1>1. /\ Healthy(db, Region) /\ AtHome(db) /\ Held(db, vfile)
      /\ vsize \in Nat /\ vcap \in Nat /\ vsize <= vcap
  BY DEF IInv, HInv, Fits
<1>2. ASSUME NEW k \in Key, Erase(k)
      PROVE  HInv' /\ Contents(db', vfile') = [Contents(db, vfile) EXCEPT ![k] = Missing]
  <2>1. /\ db.pairs[GetEntry(db, k)].state = "FULL" /\ db' = Erased(db, k) /\ vfile' = vfile
    BY <1>2 DEF Erase
  <2>2. /\ AtHome(db') /\ Held(db', vfile)
        /\ Contents(db', vfile) = [Contents(db, vfile) EXCEPT ![k] = Missing]
    BY <1>1, <2>1, ErasedValues
  <2>3. /\ AtHome(db') /\ Held(db', vfile')
        /\ Contents(db', vfile') = [Contents(db, vfile) EXCEPT ![k] = Missing]
    BY <2>1, <2>2, Zenon
  <2> QED
    BY <2>3 DEF HInv
<1>3. ASSUME Clear \/ Open
      PROVE  HInv' /\ Contents(db', vfile') = [k \in Key |-> Missing]
  <2>1. Live(db') = {} /\ db'.size = 0
    <3>1. CASE Open
      BY <3>1 DEF Open, FreshTable, Live, InState, Slots, ZeroPair
    <3>2. CASE Clear
      <4>1. db \in [capacity : Nat, size : Nat, fill : Nat, pairs : [Slots(db) -> Pair(Region)]]
        BY <1>1 DEF Healthy, TableType
      <4>2. /\ db'.capacity = db.capacity /\ db'.size = 0
            /\ db'.pairs = [i \in Slots(db) |-> ZeroPair(NoRegion)]
        BY <3>2, <4>1 DEF Clear, Cleared
      <4> QED
        BY <4>2 DEF Live, InState, Slots, ZeroPair
    <3> QED
      BY <1>3, <3>1, <3>2
  <2> QED
    BY <2>1, EmptyContents DEF HInv
<1>4. ASSUME Rehash
      PROVE  HInv' /\ Contents(db', vfile') = Contents(db, vfile)
  <2>1. db' = Rehashed(db, NoRegion) /\ vfile' = vfile
    BY <1>4 DEF Rehash
  <2>2. AtHome(db') /\ Held(db', vfile) /\ Contents(db', vfile) = Contents(db, vfile)
    BY <1>1, <2>1, RehashedValues
  <2>3. AtHome(db') /\ Held(db', vfile') /\ Contents(db', vfile') = Contents(db, vfile)
    BY <2>1, <2>2, Zenon
  <2> QED
    BY <2>3 DEF HInv
<1>5. ASSUME CollectGarbage
      PROVE  HInv' /\ Contents(db', vfile') = Contents(db, vfile)
  <2>1. db' = Compacted(Checked) /\ vfile' = CompactFile(Checked)
    BY <1>5 DEF CollectGarbage
  <2>2. /\ AtHome(Compacted(Checked)) /\ Held(Compacted(Checked), CompactFile(Checked))
        /\ Contents(Compacted(Checked), CompactFile(Checked)) = Contents(Checked, vfile)
    BY <1>1, <2>1, CheckedRegions, CheckedValues, CompactedValues
  <2>3. /\ AtHome(db') /\ Held(db', vfile')
        /\ Contents(db', vfile') = Contents(Checked, vfile)
    BY <2>1, <2>2, Zenon
  <2> QED
    BY <2>3, CheckedValues DEF HInv
<1> QED
  BY <1>2, <1>3, <1>4, <1>5

LEMMA InitHInv == Init => HInv
<1> SUFFICES ASSUME Init PROVE HInv
  OBVIOUS
<1>1. Live(db) = {} /\ db.size = 0
  BY DEF Init, FreshTable, Live, InState, Slots, ZeroPair
<1> QED
  BY <1>1, EmptyContents DEF HInv

LEMMA NextHInv == IInv /\ HInv /\ [TidyNext]_vars => HInv'
<1> SUFFICES ASSUME IInv, HInv, [TidyNext]_vars PROVE HInv'
  OBVIOUS
<1>1. CASE UNCHANGED vars
  BY <1>1 DEF vars, HInv
<1>2. CASE TidyNext
  BY <1>2, SetValues, CallKeepsValues DEF TidyNext, CollectWithoutTombs
<1> QED
  BY <1>1, <1>2

\* Each call of a tidy client with small values does to what get() answers
\* what it does to a dictionary, although all values share one file and move
\* in it.
THEOREM CallsStayApart == TidySpec => CallsActOnTheirKey
<1>1. ASSUME IInv, HInv
      PROVE  LET old == Contents(db, vfile)
                 new == Contents(db', vfile')
             IN  /\ \A k \in Key, v \in Value : Set(k, v) => new = [old EXCEPT ![k] = v]
                 /\ \A k \in Key : Erase(k) => new = [old EXCEPT ![k] = Missing]
                 /\ Clear \/ Open => new = [k \in Key |-> Missing]
                 /\ Rehash \/ CollectGarbage => new = old
  BY <1>1, SetValues, CallKeepsValues
<1> QED
  BY <1>1, InitIInv, NextIInv, InitHInv, NextHInv, PTL DEF TidySpec, CallsActOnTheirKey
=============================================================================
