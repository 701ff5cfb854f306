--------------------------- MODULE HashTableProofs ---------------------------
(***************************************************************************)
(* Lemmas about the operators of HashTable, for every capacity, every set  *)
(* of keys and every hash function.                                        *)
(***************************************************************************)
EXTENDS HashTable, FiniteSetTheorems, TLAPS

-----------------------------------------------------------------------------
\* Minima and maxima of sets of slots.

\* A non-empty set of naturals has a least element: the initial segments of
\* its members are finite sets, and strict inclusion is well-founded on those.
LEMMA LeastNatural ==
  ASSUME NEW S \in SUBSET Nat, S # {}
  PROVE  \E x \in S : \A y \in S : x <= y
<1> DEFINE Below(x) == 0 .. x - 1
           R == StrictSubsetOrdering(Nat)
           T == {Below(x) : x \in S}
<1>1. IsWellFoundedOn(R, FiniteSubsetsOf(Nat))
  BY FS_StrictSubsetOrderingWellFounded
<1>2. T \subseteq FiniteSubsetsOf(Nat)
  <2>1. \A x \in Nat : x - 1 \in Int /\ IsFiniteSet(Below(x)) /\ Below(x) \in SUBSET Nat
    BY FS_Interval
  <2> QED
    BY <2>1 DEF FiniteSubsetsOf
<1>3. T # {}
  OBVIOUS
<1>4. \E s \in T : \A u \in T : ~(<<u, s>> \in R)
  <2> HIDE DEF T, R
  <2> QED BY <1>1, <1>2, <1>3, WFMin
<1>5. PICK x \in S : \A y \in S : ~(<<Below(y), Below(x)>> \in R)
  BY <1>4
<1>6. ASSUME NEW y \in S, y < x PROVE FALSE
  <2>1. Below(y) \subseteq Below(x)
    BY <1>6
  <2>2. y \in Below(x) /\ y \notin Below(y)
    BY <1>6
  <2>3. Below(x) \in SUBSET Nat /\ Below(y) \in SUBSET Nat
    OBVIOUS
  <2>4. <<Below(y), Below(x)>> \in R
    <3> HIDE DEF Below
    <3> QED BY <2>1, <2>2, <2>3 DEF StrictSubsetOrdering
  <2> QED
    BY <1>5, <2>4
<1> QED
  BY <1>6

\* Min returns it.
LEMMA MinOfNats ==
  ASSUME NEW S \in SUBSET Nat, S # {}
  PROVE  Min(S) \in S /\ \A x \in S : Min(S) <= x
BY LeastNatural DEF Min

\* A non-empty set of slots has a greatest element, which Max returns.
LEMMA MaxOfSlots ==
  ASSUME NEW n \in Nat, NEW S \in SUBSET (0 .. n - 1), S # {}
  PROVE  Max(S) \in S /\ \A x \in S : Max(S) >= x
<1> DEFINE D == {n - x : x \in S}
<1>1. D \in SUBSET Nat /\ D # {}
  OBVIOUS
<1>2. PICK d \in D : \A e \in D : d <= e
  BY <1>1, LeastNatural
<1>3. \E x \in S : \A y \in S : x >= y
  <2>1. PICK x \in S : d = n - x
    BY <1>2
  <2>2. \A y \in S : d <= n - y
    BY <1>2
  <2> QED
    BY <2>1, <2>2
<1> QED
  BY <1>3 DEF Max

-----------------------------------------------------------------------------
\* Lookup.

\* Probes stay inside the table and reach every slot.
LEMMA ProbeCovers ==
  ASSUME NEW t, t.capacity \in Nat, t.capacity > 0, NEW k \in Key
  PROVE  /\ \A d \in Slots(t) : Probe(t, k, d) \in Slots(t)
         /\ \A i \in Slots(t) : \E d \in Slots(t) : Probe(t, k, d) = i
<1>1. Home(t, k) \in Slots(t)
  BY HashAssumption DEF Home, Slots
<1>2. ASSUME NEW i \in Slots(t) PROVE \E d \in Slots(t) : Probe(t, k, d) = i
  <2>1. CASE i >= Home(t, k)
    <3>1. i - Home(t, k) \in Slots(t) /\ Probe(t, k, i - Home(t, k)) = i
      BY <1>1, <2>1 DEF Slots, Probe
    <3> QED BY <3>1
  <2>2. CASE i < Home(t, k)
    <3>1. /\ i + t.capacity - Home(t, k) \in Slots(t)
          /\ Probe(t, k, i + t.capacity - Home(t, k)) = i
      BY <1>1, <2>2 DEF Slots, Probe
    <3> QED BY <3>1
  <2> QED
    BY <1>1, <2>1, <2>2 DEF Slots
<1> QED
  BY <1>1, <1>2 DEF Probe, Slots

\* When the probe ends, get_entry returns a slot where it may stop.
LEMMA GetEntryStops ==
  ASSUME NEW t, t.capacity \in Nat, t.capacity > 0, NEW k \in Key,
         StopDistances(t, k) # {}
  PROVE  /\ GetEntry(t, k) \in Slots(t)
         /\ Stops(t, k, GetEntry(t, k))
<1>1. StopDistances(t, k) \in SUBSET Nat
  BY DEF StopDistances, Slots
<1>2. Min(StopDistances(t, k)) \in StopDistances(t, k)
  BY <1>1, MinOfNats
<1> QED
  BY <1>2, ProbeCovers DEF GetEntry, StopDistances

-----------------------------------------------------------------------------
\* Counting slots.

\* A table of n slots has n of them.
LEMMA SlotsCounted ==
  ASSUME NEW t, t.capacity \in Nat
  PROVE  IsFiniteSet(Slots(t)) /\ Cardinality(Slots(t)) = t.capacity
<1> DEFINE last == t.capacity - 1
<1>1. last \in Int /\ 0 \in Int
  OBVIOUS
<1>2. (IF 0 > last THEN 0 ELSE last - 0 + 1) = t.capacity
  OBVIOUS
<1>3. Slots(t) = 0 .. last
  BY DEF Slots
<1> HIDE DEF last
<1>4. /\ IsFiniteSet(0 .. last)
      /\ Cardinality(0 .. last) = IF 0 > last THEN 0 ELSE last - 0 + 1
  BY <1>1, FS_Interval
<1>5. Cardinality(0 .. last) = t.capacity
  BY <1>2, <1>4
<1> QED
  BY <1>3, <1>4, <1>5, Zenon

LEMMA StatesFinite ==
  ASSUME NEW t, t.capacity \in Nat
  PROVE  /\ IsFiniteSet(Live(t)) /\ Cardinality(Live(t)) \in Nat
         /\ IsFiniteSet(Tombs(t)) /\ Cardinality(Tombs(t)) \in Nat
<1>1. IsFiniteSet(Slots(t))
  BY SlotsCounted
<1>2. Live(t) \in SUBSET Slots(t) /\ Tombs(t) \in SUBSET Slots(t)
  BY DEF Live, Tombs, InState
<1> QED
  BY <1>1, <1>2, FS_Subset, FS_CardinalityType

\* At most what both sets have.
LEMMA UnionCount ==
  ASSUME NEW A, IsFiniteSet(A), NEW B, IsFiniteSet(B)
  PROVE  /\ Cardinality(A \cup B) \in Nat
         /\ Cardinality(A \cup B) <= Cardinality(A) + Cardinality(B)
<1>1. /\ IsFiniteSet(A \cap B) /\ IsFiniteSet(A \cup B)
      /\ Cardinality(A \cup B) = Cardinality(A) + Cardinality(B) - Cardinality(A \cap B)
  BY FS_Subset, FS_Union
<1>2. /\ Cardinality(A) \in Nat /\ Cardinality(B) \in Nat /\ Cardinality(A \cap B) \in Nat
      /\ Cardinality(A \cup B) \in Nat
  BY <1>1, FS_CardinalityType
<1> QED
  BY <1>1, <1>2

\* As long as not every slot is an entry or a tombstone, one is empty.
LEMMA EmptySlot ==
  ASSUME NEW t, t.capacity \in Nat, \A i \in Slots(t) : t.pairs[i].state \in State,
         Cardinality(Live(t)) + Cardinality(Tombs(t)) < t.capacity
  PROVE  \E i \in Slots(t) : t.pairs[i].state = "EMPTY"
<1> SUFFICES ASSUME \A i \in Slots(t) : t.pairs[i].state # "EMPTY"
             PROVE  FALSE
  OBVIOUS
<1>1. Live(t) \cup Tombs(t) = Slots(t)
  BY DEF State, Live, Tombs, InState
<1>2. Cardinality(Slots(t)) = t.capacity
  BY SlotsCounted
<1>3. Cardinality(Live(t) \cup Tombs(t)) = t.capacity
  BY <1>1, <1>2, Zenon
<1>4. /\ Cardinality(Live(t)) \in Nat /\ Cardinality(Tombs(t)) \in Nat
      /\ Cardinality(Live(t) \cup Tombs(t)) <= Cardinality(Live(t)) + Cardinality(Tombs(t))
  BY StatesFinite, UnionCount
<1> QED
  BY <1>3, <1>4

\* A table that is not too full has an empty slot, so every probe ends.
LEMMA EmptySlotLeft ==
  ASSUME NEW t, NEW Val, TableType(t, Val), CountersAgree(t), RoomLeft(t)
  PROVE  \E i \in Slots(t) : t.pairs[i].state = "EMPTY"
<1>1. /\ t.capacity \in Nat /\ t.capacity >= 5 /\ t.fill \in Nat /\ t.size \in Nat
      /\ \A i \in Slots(t) : t.pairs[i].state \in State
  BY CapacityAssumption DEF TableType, Pair
<1>2. Cardinality(Live(t)) \in Nat /\ Cardinality(Tombs(t)) \in Nat
  BY <1>1, StatesFinite
<1>3. Cardinality(Live(t)) + Cardinality(Tombs(t)) < t.capacity
  BY <1>1, <1>2 DEF CountersAgree, RoomLeft
<1> QED
  BY <1>1, <1>3, EmptySlot

LEMMA ProbeEnds ==
  ASSUME NEW t, NEW Val, TableType(t, Val), CountersAgree(t), RoomLeft(t)
  PROVE  ProbesEnd(t)
<1>1. t.capacity \in Nat /\ t.capacity > 0
  BY CapacityAssumption DEF TableType
<1>2. PICK i \in Slots(t) : t.pairs[i].state = "EMPTY"
  BY EmptySlotLeft
<1>3. ASSUME NEW k \in Key PROVE StopDistances(t, k) # {}
  <2>1. PICK d \in Slots(t) : Probe(t, k, d) = i
    BY <1>1, ProbeCovers
  <2> QED
    BY <1>2, <2>1 DEF StopDistances, Stops
<1> QED
  BY <1>3 DEF ProbesEnd

-----------------------------------------------------------------------------
\* Every update of a healthy table leaves a healthy table.

\* Writing one slot moves at most that slot between the counted sets.
LEMMA CountsAfterWrite ==
  ASSUME NEW t, NEW u, NEW Val, t.capacity \in Nat, t.pairs \in [Slots(t) -> Pair(Val)],
         NEW i \in Slots(t), NEW p \in Pair(Val),
         u.capacity = t.capacity, u.pairs = [t.pairs EXCEPT ![i] = p],
         NEW st \in State
  PROVE  /\ i \in InState(t, st) <=> t.pairs[i].state = st
         /\ IsFiniteSet(InState(t, st)) /\ Cardinality(InState(t, st)) \in Nat
         /\ IsFiniteSet(InState(u, st)) /\ Cardinality(InState(u, st)) \in Nat
         /\ t.pairs[i].state = st /\ p.state # st =>
              Cardinality(InState(u, st)) = Cardinality(InState(t, st)) - 1
         /\ t.pairs[i].state # st /\ p.state = st =>
              Cardinality(InState(u, st)) = Cardinality(InState(t, st)) + 1
         /\ (t.pairs[i].state = st <=> p.state = st) =>
              Cardinality(InState(u, st)) = Cardinality(InState(t, st))
<1> DEFINE A == InState(t, st)
           B == InState(u, st)
<1>1. A \in SUBSET Slots(t) /\ IsFiniteSet(Slots(t))
  <2>1. IsFiniteSet(Slots(t))
    BY SlotsCounted
  <2> QED
    BY <2>1 DEF InState
<1>2. i \in A <=> t.pairs[i].state = st
  BY DEF InState
<1>3. Slots(u) = Slots(t) /\ \A j \in Slots(t) : u.pairs[j] = IF j = i THEN p ELSE t.pairs[j]
  BY DEF Slots
<1>4. B = IF p.state = st THEN A \cup {i} ELSE A \ {i}
  BY <1>3 DEF InState
<1> HIDE DEF A, B
<1>5. IsFiniteSet(A) /\ Cardinality(A) \in Nat
  BY <1>1, FS_Subset, FS_CardinalityType
<1>6. /\ IsFiniteSet(A \cup {i}) /\ IsFiniteSet(A \ {i})
      /\ Cardinality(A \cup {i}) = IF i \in A THEN Cardinality(A) ELSE Cardinality(A) + 1
      /\ Cardinality(A \ {i}) = IF i \in A THEN Cardinality(A) - 1 ELSE Cardinality(A)
  BY <1>5, FS_AddElement, FS_RemoveElement
<1>7. IsFiniteSet(B) /\ Cardinality(B) \in Nat
  BY <1>4, <1>6, FS_CardinalityType
<1>8. /\ i \in A /\ p.state # st => Cardinality(B) = Cardinality(A) - 1
      /\ i \notin A /\ p.state = st => Cardinality(B) = Cardinality(A) + 1
      /\ (i \in A <=> p.state = st) => Cardinality(B) = Cardinality(A)
  BY <1>4, <1>6
<1> QED
  BY <1>2, <1>5, <1>7, <1>8 DEF A, B

LEMMA FreshHealthy ==
  ASSUME NEW Val, NEW zero \in Val
  PROVE  Healthy(FreshTable(zero), Val)
<1> DEFINE t == FreshTable(zero)
<1>1. TableType(t, Val)
  BY CapacityAssumption DEF TableType, FreshTable, ZeroPair, Slots, Pair, State
<1>2. Live(t) = {} /\ Tombs(t) = {}
  BY DEF Live, Tombs, InState, FreshTable, ZeroPair, Slots
<1>3. t.capacity = InitCapacity /\ t.size = 0 /\ t.fill = 0
  BY DEF FreshTable
<1> HIDE DEF t
<1>4. Cardinality(Live(t)) = 0 /\ Cardinality(Tombs(t)) = 0
  BY <1>2, FS_EmptySet
<1>5. CountersAgree(t) /\ RoomLeft(t)
  BY <1>3, <1>4, CapacityAssumption DEF CountersAgree, RoomLeft
<1> QED
  BY <1>1, <1>5 DEF Healthy, t

LEMMA ClearedHealthy ==
  ASSUME NEW Val, NEW zero \in Val, NEW t, Healthy(t, Val)
  PROVE  Healthy(Cleared(t, zero), Val)
<1> DEFINE u == Cleared(t, zero)
<1>1. u = [t EXCEPT !.size = 0, !.fill = 0, !.pairs = [i \in Slots(t) |-> ZeroPair(zero)]]
  BY DEF Cleared
<1>2. TableType(t, Val)
  BY DEF Healthy
<1>3. /\ u.capacity = t.capacity /\ u.size = 0 /\ u.fill = 0
      /\ u.pairs = [i \in Slots(t) |-> ZeroPair(zero)]
      /\ Slots(u) = Slots(t)
  BY <1>2 DEF Cleared, TableType, Slots
<1>4. ZeroPair(zero) \in Pair(Val) /\ ZeroPair(zero).state = "EMPTY"
  BY DEF ZeroPair, Pair, State
<1>5. TableType(u, Val)
  BY <1>2, <1>3, <1>4 DEF TableType, Cleared
<1>6. Live(u) = {} /\ Tombs(u) = {}
  BY <1>3, <1>4 DEF Live, Tombs, InState
<1>7. CountersAgree(u)
  BY <1>3, <1>6, FS_EmptySet DEF CountersAgree
<1>8. RoomLeft(u)
  BY <1>2, <1>3 DEF RoomLeft, TableType
<1> QED
  BY <1>5, <1>7, <1>8 DEF Healthy

\* Replacing fields of a table by values of their types.
LEMMA FieldsReplaced ==
  ASSUME NEW S, NEW t \in [capacity : Nat, size : Nat, fill : Nat, pairs : S],
         NEW a \in Nat, NEW b \in Nat, NEW q \in S,
         NEW u, u = [t EXCEPT !.size = a, !.fill = b, !.pairs = q]
  PROVE  /\ u \in [capacity : Nat, size : Nat, fill : Nat, pairs : S]
         /\ u.capacity = t.capacity /\ u.size = a /\ u.fill = b /\ u.pairs = q
OBVIOUS

LEMMA FieldsReplacedButFill ==
  ASSUME NEW S, NEW t \in [capacity : Nat, size : Nat, fill : Nat, pairs : S],
         NEW a \in Nat, NEW q \in S,
         NEW u, u = [t EXCEPT !.size = a, !.pairs = q]
  PROVE  /\ u \in [capacity : Nat, size : Nat, fill : Nat, pairs : S]
         /\ u.capacity = t.capacity /\ u.size = a /\ u.fill = t.fill /\ u.pairs = q
OBVIOUS

LEMMA ErasedHealthy ==
  ASSUME NEW Val, NEW t, Healthy(t, Val), NEW k \in Key,
         StopDistances(t, k) # {}, t.pairs[GetEntry(t, k)].state = "FULL"
  PROVE  Healthy(Erased(t, k), Val)
<1> DEFINE i == GetEntry(t, k)
           p == [t.pairs[i] EXCEPT !.state = "TOMBSTONE"]
           q == [t.pairs EXCEPT ![i] = p]
           u == Erased(t, k)
           PairSeqs == [Slots(t) -> Pair(Val)]
<1>1. /\ TableType(t, Val) /\ t.capacity \in Nat /\ t.capacity > 0
      /\ t \in [capacity : Nat, size : Nat, fill : Nat, pairs : PairSeqs]
      /\ t.pairs \in PairSeqs /\ t.size \in Nat /\ t.fill \in Nat
  BY CapacityAssumption DEF Healthy, TableType
<1>2. i \in Slots(t) /\ t.pairs[i].state = "FULL"
  BY <1>1, GetEntryStops
<1>3. p \in Pair(Val) /\ p.state = "TOMBSTONE" /\ p.key \in Key
  BY <1>1, <1>2 DEF TableType, Pair, State
<1>4. u = [t EXCEPT !.size = t.size - 1, !.pairs = q]
  BY DEF Erased
<1> HIDE DEF i, p
<1>5. q \in PairSeqs
  BY <1>1, <1>2, <1>3
<1>6. Cardinality(Live(t)) \in Nat /\ Cardinality(Live(t)) >= 1
  <2>1. i \in Live(t) /\ IsFiniteSet(Live(t)) /\ Cardinality(Live(t)) \in Nat
    BY <1>1, <1>2, StatesFinite DEF Live, InState
  <2>2. Cardinality(Live(t)) # 0
    BY <2>1, FS_EmptySet
  <2> QED
    BY <2>1, <2>2
<1>7. t.size - 1 \in Nat
  BY <1>1, <1>6 DEF Healthy, CountersAgree
<1> HIDE DEF u, q, PairSeqs
<1>8. /\ u \in [capacity : Nat, size : Nat, fill : Nat, pairs : PairSeqs]
      /\ u.capacity = t.capacity /\ u.size = t.size - 1 /\ u.fill = t.fill /\ u.pairs = q
      /\ Slots(u) = Slots(t)
  BY <1>1, <1>4, <1>5, <1>7, FieldsReplacedButFill DEF Slots
<1>9. /\ Cardinality(Live(u)) \in Nat /\ Cardinality(Tombs(t)) \in Nat
      /\ Cardinality(Live(u)) = Cardinality(Live(t)) - 1
      /\ Cardinality(Tombs(u)) = Cardinality(Tombs(t)) + 1
  <2>1. "FULL" \in State /\ "TOMBSTONE" \in State
    BY DEF State
  <2>2. t.pairs \in [Slots(t) -> Pair(Val)] /\ u.pairs = [t.pairs EXCEPT ![i] = p]
    BY <1>1, <1>8 DEF PairSeqs, q
  <2> QED
    BY <1>1, <1>2, <1>3, <1>8, <2>1, <2>2, CountsAfterWrite DEF Live, Tombs
<1>10. CountersAgree(u)
  BY <1>1, <1>6, <1>8, <1>9 DEF Healthy, CountersAgree
<1>11. \A j \in Slots(u) : u.pairs[j].state # "EMPTY" => u.pairs[j].key \in Key
  BY <1>1, <1>2, <1>3, <1>8 DEF TableType, q
<1>12. TableType(u, Val)
  BY <1>1, <1>8, <1>11 DEF TableType, PairSeqs
<1>13. RoomLeft(u)
  BY <1>8 DEF Healthy, RoomLeft
<1> QED
  BY <1>10, <1>12, <1>13 DEF Healthy, u

LEMMA StoredHealthy ==
  ASSUME NEW Val, NEW t, Healthy(t, Val), ~NeedsRehash(t),
         NEW k \in Key, NEW val \in Val, StopDistances(t, k) # {}
  PROVE  Healthy(Stored(t, k, val), Val)
<1> DEFINE i == GetEntry(t, k)
           p == [state |-> "FULL", key |-> k, value |-> val]
           q == [t.pairs EXCEPT ![i] = p]
           size == IF t.pairs[i].state = "FULL" THEN t.size ELSE t.size + 1
           fill == IF t.pairs[i].state = "EMPTY" THEN t.fill + 1 ELSE t.fill
           u == Stored(t, k, val)
           PairSeqs == [Slots(t) -> Pair(Val)]
<1>1. /\ TableType(t, Val) /\ t.capacity \in Nat /\ t.capacity > 0
      /\ t \in [capacity : Nat, size : Nat, fill : Nat, pairs : PairSeqs]
      /\ t.pairs \in PairSeqs /\ t.size \in Nat /\ t.fill \in Nat
  BY CapacityAssumption DEF Healthy, TableType
<1>2. i \in Slots(t)
  BY <1>1, GetEntryStops
<1>3. p \in Pair(Val) /\ p.state = "FULL" /\ p.key \in Key
  BY DEF Pair, State
<1>4. u = [t EXCEPT !.size = size, !.fill = fill, !.pairs = q]
  BY DEF Stored
<1> HIDE DEF i, p
<1>5. q \in PairSeqs /\ t.pairs[i].state \in State
  BY <1>1, <1>2, <1>3 DEF Pair
<1>6. size \in Nat /\ fill \in Nat
  BY <1>1
<1> HIDE DEF u, q, PairSeqs, size, fill
<1>7. /\ u \in [capacity : Nat, size : Nat, fill : Nat, pairs : PairSeqs]
      /\ u.capacity = t.capacity /\ u.size = size /\ u.fill = fill /\ u.pairs = q
      /\ Slots(u) = Slots(t)
  BY <1>1, <1>4, <1>5, <1>6, FieldsReplaced DEF Slots
<1>8. /\ Cardinality(Live(t)) \in Nat /\ Cardinality(Live(u)) \in Nat
      /\ Cardinality(Live(u)) = IF t.pairs[i].state = "FULL" THEN Cardinality(Live(t))
                                                           ELSE Cardinality(Live(t)) + 1
      /\ Cardinality(Tombs(t)) \in Nat /\ Cardinality(Tombs(u)) \in Nat
      /\ Cardinality(Tombs(u)) = IF t.pairs[i].state = "TOMBSTONE"
                                 THEN Cardinality(Tombs(t)) - 1 ELSE Cardinality(Tombs(t))
  <2>1. "FULL" \in State /\ "TOMBSTONE" \in State
    BY DEF State
  <2>2. t.pairs \in [Slots(t) -> Pair(Val)] /\ u.pairs = [t.pairs EXCEPT ![i] = p]
    BY <1>1, <1>7 DEF PairSeqs, q
  <2> QED
    BY <1>1, <1>2, <1>3, <1>7, <2>1, <2>2, CountsAfterWrite DEF Live, Tombs
<1>9. CountersAgree(u)
  <2>1. CASE t.pairs[i].state = "FULL"
    BY <1>1, <1>7, <1>8, <2>1 DEF Healthy, CountersAgree, size, fill
  <2>2. CASE t.pairs[i].state = "TOMBSTONE"
    BY <1>1, <1>7, <1>8, <2>2 DEF Healthy, CountersAgree, size, fill
  <2>3. CASE t.pairs[i].state = "EMPTY"
    BY <1>1, <1>7, <1>8, <2>3 DEF Healthy, CountersAgree, size, fill
  <2> QED
    BY <1>5, <2>1, <2>2, <2>3 DEF State
<1>10. RoomLeft(u)
  BY <1>1, <1>7 DEF Healthy, RoomLeft, NeedsRehash, fill
<1>11. \A j \in Slots(u) : u.pairs[j].state # "EMPTY" => u.pairs[j].key \in Key
  BY <1>1, <1>2, <1>3, <1>7 DEF TableType, q
<1>12. TableType(u, Val)
  BY <1>1, <1>7, <1>11 DEF TableType, PairSeqs
<1> QED
  BY <1>9, <1>10, <1>12 DEF Healthy, u

\* The entries of a rehashed table come from different entries of the old one,
\* and there are no tombstones.
LEMMA RehashedCounts ==
  ASSUME NEW zero, NEW t, t.capacity \in Nat
  PROVE  /\ Tombs(Rehashed(t, zero)) = {}
         /\ Cardinality(Live(Rehashed(t, zero))) <= Cardinality(Live(t))
<1> DEFINE u == Rehashed(t, zero)
           From(j) == Max(CopiedTo(t, j))
<1>1. /\ Slots(u) = 0 .. 2 * t.capacity - 1
      /\ u.pairs = [j \in 0 .. 2 * t.capacity - 1 |->
                      IF CopiedTo(t, j) = {} THEN ZeroPair(zero) ELSE t.pairs[From(j)]]
  BY DEF Rehashed, Slots
<1> HIDE DEF u
<1>2. ASSUME NEW j, CopiedTo(t, j) # {}
      PROVE  From(j) \in Live(t) /\ NewHome(t, From(j)) = j /\ t.pairs[From(j)].state = "FULL"
  <2>1. CopiedTo(t, j) \in SUBSET (0 .. t.capacity - 1)
    BY DEF CopiedTo, Live, InState, Slots
  <2>2. From(j) \in CopiedTo(t, j)
    BY <1>2, <2>1, MaxOfSlots
  <2> QED
    BY <2>2 DEF CopiedTo, Live, InState
<1>3. ZeroPair(zero).state = "EMPTY"
  BY DEF ZeroPair
<1> HIDE DEF From
<1>4. \A j \in Live(u) : j \in Slots(u) /\ CopiedTo(t, j) # {}
  BY <1>1, <1>3 DEF Live, InState
<1>5. Tombs(u) = {}
  BY <1>1, <1>2, <1>3 DEF Tombs, InState
<1>6. Cardinality(Live(u)) <= Cardinality(Live(t))
  <2> DEFINE f == [j \in Live(u) |-> From(j)]
  <2>1. f \in [Live(u) -> Live(t)]
    BY <1>2, <1>4
  <2>2. \A j, l \in Live(u) : f[j] = f[l] => j = l
    BY <1>2, <1>4
  <2>3. f \in Injection(Live(u), Live(t))
    BY <2>1, <2>2 DEF Injection, IsInjective
  <2> QED
    BY <2>3, StatesFinite, FS_Injection
<1> QED
  BY <1>5, <1>6 DEF u

\* A rehash leaves a healthy table that has room.
LEMMA RehashedHealthy ==
  ASSUME NEW Val, NEW zero \in Val, NEW t, Healthy(t, Val)
  PROVE  Healthy(Rehashed(t, zero), Val) /\ ~NeedsRehash(Rehashed(t, zero))
<1> DEFINE u == Rehashed(t, zero)
           From(j) == Max(CopiedTo(t, j))
<1>1. /\ TableType(t, Val) /\ t.capacity \in Nat /\ t.capacity >= InitCapacity
      /\ t.capacity >= 5 /\ t.size \in Nat /\ t.fill \in Nat
      /\ t.pairs \in [Slots(t) -> Pair(Val)]
  BY CapacityAssumption DEF Healthy, TableType
<1>2. /\ u.capacity = 2 * t.capacity /\ u.size = t.size /\ u.fill = t.size
      /\ Slots(u) = 0 .. 2 * t.capacity - 1
      /\ u.pairs = [j \in 0 .. 2 * t.capacity - 1 |->
                      IF CopiedTo(t, j) = {} THEN ZeroPair(zero) ELSE t.pairs[From(j)]]
      /\ u \in [capacity : {2 * t.capacity}, size : {t.size}, fill : {t.size},
                pairs : {u.pairs}]
  BY DEF Rehashed, Slots
<1> HIDE DEF u
<1>3. ASSUME NEW j \in Slots(u), CopiedTo(t, j) # {}
      PROVE  /\ From(j) \in Live(t) /\ From(j) \in Slots(t) /\ NewHome(t, From(j)) = j
             /\ t.pairs[From(j)].state = "FULL"
  <2>1. CopiedTo(t, j) \in SUBSET (0 .. t.capacity - 1)
    BY DEF CopiedTo, Live, InState, Slots
  <2>2. From(j) \in CopiedTo(t, j)
    BY <1>1, <1>3, <2>1, MaxOfSlots
  <2> QED
    BY <2>2 DEF CopiedTo, Live, InState
<1>4. ZeroPair(zero) \in Pair(Val) /\ ZeroPair(zero).state = "EMPTY"
  BY DEF ZeroPair, Pair, State
<1> HIDE DEF From
<1>5. u.pairs \in [Slots(u) -> Pair(Val)]
  BY <1>1, <1>2, <1>3, <1>4
<1>6. \A j \in Slots(u) : u.pairs[j].state # "EMPTY" => u.pairs[j].key \in Key
  BY <1>1, <1>2, <1>3, <1>4 DEF TableType
<1>7. TableType(u, Val)
  <2>1. 2 * t.capacity \in Nat /\ 2 * t.capacity >= InitCapacity
    BY <1>1, CapacityAssumption
  <2> QED
    BY <1>1, <1>2, <1>5, <1>6, <2>1 DEF TableType
<1>8. Tombs(u) = {} /\ Cardinality(Live(u)) <= Cardinality(Live(t))
  BY <1>1, RehashedCounts DEF u
<1>9. CountersAgree(u)
  <2>1. Cardinality(Tombs(u)) = 0 /\ Cardinality(Live(u)) \in Nat /\ Cardinality(Live(t)) \in Nat
    BY <1>1, <1>7, <1>8, StatesFinite, FS_EmptySet DEF TableType
  <2>2. Cardinality(Live(t)) <= t.size
    BY DEF Healthy, CountersAgree
  <2> QED
    BY <1>1, <1>2, <1>8, <2>1, <2>2 DEF CountersAgree
<1>10. t.size <= t.fill
  BY <1>1, StatesFinite DEF Healthy, CountersAgree
<1>11. RoomLeft(u) /\ ~NeedsRehash(u)
  <2>1. 4 * t.size <= 3 * t.capacity + 4
    BY <1>1, <1>10 DEF Healthy, RoomLeft
  <2>2. u.fill = t.size /\ u.capacity = 2 * t.capacity
    BY <1>2
  <2> QED
    BY <1>1, <2>1, <2>2 DEF RoomLeft, NeedsRehash
<1> QED
  BY <1>7, <1>9, <1>11 DEF Healthy, u

-----------------------------------------------------------------------------
\* The slots that the updates leave, and where they are found.

\* What erase() and set() write is in the slot of the key, and nothing else is
\* written.
LEMMA ErasedTable ==
  ASSUME NEW t, NEW V, Healthy(t, V), NEW k \in Key
  PROVE  LET i == GetEntry(t, k)
             u == Erased(t, k)
         IN  /\ i \in Slots(t) /\ u.capacity = t.capacity
             /\ u.pairs[i].state = "TOMBSTONE"
             /\ \A j \in Slots(t) : j # i => u.pairs[j] = t.pairs[j]
<1>1. t.capacity \in Nat /\ t.capacity > 0 /\ StopDistances(t, k) # {}
  BY ProbeEnds, CapacityAssumption DEF Healthy, TableType, ProbesEnd
<1>2. GetEntry(t, k) \in Slots(t)
  BY <1>1, GetEntryStops
<1>3. t.pairs \in [Slots(t) -> Pair(V)] /\ t \in [capacity : Nat, size : Nat, fill : Nat, pairs : [Slots(t) -> Pair(V)]]
  BY DEF Healthy, TableType
<1> QED
  BY <1>2, <1>3 DEF Erased, Pair

LEMMA StoredTable ==
  ASSUME NEW t, NEW V, Healthy(t, V), NEW k \in Key, NEW v
  PROVE  LET i == GetEntry(t, k)
             u == Stored(t, k, v)
         IN  /\ i \in Slots(t) /\ u.capacity = t.capacity
             /\ u.pairs[i] = [state |-> "FULL", key |-> k, value |-> v]
             /\ \A j \in Slots(t) : j # i => u.pairs[j] = t.pairs[j]
<1>1. t.capacity \in Nat /\ t.capacity > 0 /\ StopDistances(t, k) # {}
  BY ProbeEnds, CapacityAssumption DEF Healthy, TableType, ProbesEnd
<1>2. GetEntry(t, k) \in Slots(t)
  BY <1>1, GetEntryStops
<1>3. t.pairs \in [Slots(t) -> Pair(V)] /\ t \in [capacity : Nat, size : Nat, fill : Nat, pairs : [Slots(t) -> Pair(V)]]
  BY DEF Healthy, TableType
<1> QED
  BY <1>2, <1>3 DEF Stored

\* get_entry returns the same slot when an edit leaves it a stop and makes no
\* other.
LEMMA SameStop ==
  ASSUME NEW t, NEW u, t.capacity \in Nat, t.capacity > 0, u.capacity = t.capacity,
         NEW k \in Key, StopDistances(t, k) # {},
         \A j \in Slots(t) : Stops(u, k, j) => Stops(t, k, j),
         Stops(u, k, GetEntry(t, k))
  PROVE  GetEntry(u, k) = GetEntry(t, k)
<1> DEFINE D == StopDistances(t, k)
           E == StopDistances(u, k)
<1>1. Slots(u) = Slots(t) /\ \A d \in Slots(t) : Probe(u, k, d) = Probe(t, k, d)
  BY DEF Slots, Probe, Home
<1>2. D \in SUBSET Nat /\ E \in SUBSET Nat
  BY <1>1 DEF StopDistances, Slots
<1>3. Min(D) \in D /\ \A d \in D : Min(D) <= d
  BY <1>2, MinOfNats
<1>4. GetEntry(t, k) = Probe(t, k, Min(D)) /\ Min(D) \in Slots(t)
  BY <1>3 DEF GetEntry, StopDistances
<1>5. Min(D) \in E
  BY <1>1, <1>4 DEF StopDistances
<1>6. ASSUME NEW e \in E PROVE e \in D
  <2>1. e \in Slots(t) /\ Stops(u, k, Probe(t, k, e)) /\ Probe(t, k, e) \in Slots(t)
    BY <1>1, ProbeCovers DEF StopDistances
  <2> QED
    BY <2>1 DEF StopDistances
<1>7. Min(E) \in E /\ \A e \in E : Min(E) <= e
  BY <1>2, <1>5, MinOfNats
<1>8. Min(E) = Min(D)
  BY <1>2, <1>3, <1>5, <1>6, <1>7
<1> QED
  BY <1>1, <1>4, <1>8 DEF GetEntry

\* So it does when the edit is of the slot that it returned.
LEMMA SamePlace ==
  ASSUME NEW t, NEW u, t.capacity \in Nat, t.capacity > 0, u.capacity = t.capacity,
         NEW k \in Key, StopDistances(t, k) # {},
         \A j \in Slots(t) : j # GetEntry(t, k) => u.pairs[j] = t.pairs[j],
         Stops(u, k, GetEntry(t, k))
  PROVE  GetEntry(u, k) = GetEntry(t, k)
<1>1. ASSUME NEW j \in Slots(t), Stops(u, k, j) PROVE Stops(t, k, j)
  <2>1. CASE j = GetEntry(t, k)
    BY <2>1, GetEntryStops
  <2>2. CASE j # GetEntry(t, k)
    BY <1>1, <2>2 DEF Stops
  <2> QED
    BY <2>1, <2>2
<1> QED
  BY <1>1, SameStop
-----------------------------------------------------------------------------
\* Keys with slots of their own.

\* A probe for such a key ends where it starts.
LEMMA OwnSlot ==
  ASSUME OwnSlots, NEW t, NEW Val, Healthy(t, Val), AtHome(t), NEW k \in Key
  PROVE  /\ Hash[k] \in Slots(t)
         /\ StopDistances(t, k) # {}
         /\ GetEntry(t, k) = Hash[k]
         /\ t.pairs[Hash[k]].state = "FULL" => t.size # 0 /\ t.pairs[Hash[k]].key = k
<1>1. TableType(t, Val) /\ t.capacity \in Nat /\ t.capacity >= InitCapacity
  BY DEF Healthy, TableType
<1>2. Hash[k] \in Nat /\ Hash[k] < t.capacity
  BY <1>1, HashAssumption, CapacityAssumption DEF OwnSlots
<1>3. Home(t, k) = Hash[k]
  BY <1>1, <1>2 DEF Home
<1>4. 0 \in Slots(t) /\ Hash[k] \in Slots(t) /\ Probe(t, k, 0) = Hash[k]
  BY <1>1, <1>2, <1>3 DEF Probe, Slots
<1>5. t.pairs[Hash[k]].state = "FULL" => t.pairs[Hash[k]].key = k
  <2>1. t.pairs[Hash[k]].state = "FULL" => t.pairs[Hash[k]].key \in Key
    BY <1>1, <1>4 DEF TableType
  <2>2. t.pairs[Hash[k]].state = "FULL" => Hash[t.pairs[Hash[k]].key] = Hash[k]
    BY <1>4 DEF AtHome, Live, InState
  <2> QED
    BY <2>1, <2>2 DEF OwnSlots
<1>6. 0 \in StopDistances(t, k)
  BY <1>4, <1>5 DEF StopDistances, Stops
<1>7. GetEntry(t, k) = Hash[k]
  <2>1. StopDistances(t, k) \in SUBSET Nat
    BY DEF StopDistances, Slots
  <2>2. Min(StopDistances(t, k)) = 0
    BY <1>6, <2>1, MinOfNats
  <2> QED
    BY <1>4, <2>2 DEF GetEntry
<1>8. t.pairs[Hash[k]].state = "FULL" => t.size # 0
  <2>1. CASE t.pairs[Hash[k]].state = "FULL"
    <3>1. Hash[k] \in Live(t) /\ IsFiniteSet(Live(t)) /\ Cardinality(Live(t)) \in Nat
      BY <1>1, <1>4, <2>1, StatesFinite DEF Live, InState
    <3>2. Cardinality(Live(t)) # 0
      BY <3>1, FS_EmptySet
    <3> QED
      BY <1>1, <3>1, <3>2 DEF Healthy, CountersAgree, TableType
  <2> QED
    BY <2>1
<1> QED
  BY <1>4, <1>5, <1>6, <1>7, <1>8

\* No two of their entries are copied to one slot: rehash leaves each where
\* it is, and the tombstones behind.
LEMMA RehashedInPlace ==
  ASSUME NEW zero, NEW t, t.capacity \in Nat, AtHome(t)
  PROVE  LET u == Rehashed(t, zero)
         IN  /\ Live(u) = Live(t) /\ AtHome(u)
             /\ \A i \in Live(t) : i \in Slots(u) /\ u.pairs[i] = t.pairs[i]
<1> DEFINE u == Rehashed(t, zero)
<1>1. /\ Slots(u) = 0 .. 2 * t.capacity - 1
      /\ u.pairs = [j \in 0 .. 2 * t.capacity - 1 |->
                      IF CopiedTo(t, j) = {} THEN ZeroPair(zero)
                      ELSE t.pairs[Max(CopiedTo(t, j))]]
  BY DEF Rehashed, Slots
<1> HIDE DEF u
<1>2. \A i \in Live(t) : i \in 0 .. t.capacity - 1 /\ NewHome(t, i) = i
  <2> SUFFICES ASSUME NEW i \in Live(t)
               PROVE  i \in 0 .. t.capacity - 1 /\ NewHome(t, i) = i
    OBVIOUS
  <2>1. i \in 0 .. t.capacity - 1 /\ Hash[t.pairs[i].key] = i
    BY DEF AtHome, Live, InState, Slots
  <2>2. i % (2 * t.capacity) = i
    BY <2>1
  <2> QED
    BY <2>1, <2>2 DEF NewHome
<1>3. \A j \in 0 .. 2 * t.capacity - 1 :
         CopiedTo(t, j) = IF j \in Live(t) THEN {j} ELSE {}
  BY <1>2 DEF CopiedTo
<1>4. \A j \in Live(t) : Max({j}) = j
  BY <1>2 DEF Max
<1>5. ASSUME NEW i \in Live(t) PROVE i \in Slots(u) /\ u.pairs[i] = t.pairs[i]
  <2>1. i \in 0 .. 2 * t.capacity - 1
    BY <1>2
  <2>2. CopiedTo(t, i) = {i} /\ Max(CopiedTo(t, i)) = i /\ CopiedTo(t, i) # {}
    BY <1>3, <1>4, <2>1
  <2> QED
    BY <1>1, <2>1, <2>2
<1>6. ASSUME NEW i \in Slots(u), i \notin Live(t) PROVE u.pairs[i].state = "EMPTY"
  <2>1. CopiedTo(t, i) = {}
    BY <1>1, <1>3, <1>6
  <2> QED
    BY <1>1, <2>1 DEF ZeroPair
<1>7. Live(u) = Live(t)
  BY <1>5, <1>6 DEF Live, InState
<1>8. AtHome(u)
  BY <1>5, <1>7 DEF AtHome
<1> QED
  BY <1>5, <1>7, <1>8 DEF u
=============================================================================
