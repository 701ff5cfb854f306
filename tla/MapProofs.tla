------------------------------ MODULE MapProofs ------------------------------
(***************************************************************************)
(* Map implements OwningMap, and keeps its counters, for the tidy client:  *)
(* for every set of keys and items, hash function and first capacity.      *)
(***************************************************************************)
EXTENDS Map, FiniteSetTheorems, TLAPS

Bucket == [state : {"NULL", "FULL", "TOMB"}, hash : Nat,
           key : Key \cup {ZeroKey}, item : Item \cup {ZeroItem}]

MapOf(n) == [capacity : Nat, length : Nat, tombs : Nat, buckets : [0 .. n - 1 -> Bucket]]

Full(m) == InState(m, "FULL")
Tombs(m) == InState(m, "TOMB")

\* A FULL bucket has a key and an item of the client, and the hash of the key.
EntriesTyped(m) ==
  \A i \in Full(m) : LET b == m.buckets[i]
                     IN  b.key \in Key /\ b.hash = Hash[b.key] /\ b.item \in Item

WellTyped(m) == m.capacity > 0 /\ m \in MapOf(m.capacity) /\ EntriesTyped(m)

\* The probe of a key gets to its bucket before it meets a NULL one.
ReachedIn(m, i) ==
  LET h == Hash[m.buckets[i].key]
  IN  \E d \in Slots(m) : /\ Probe(m, h, d) = i
                          /\ \A e \in 0 .. d - 1 : m.buckets[Probe(m, h, e)].state # "NULL"
Reached(m) == \A i \in Full(m) : ReachedIn(m, i)

KeysDiffer(m) == \A i, j \in Full(m) : m.buckets[i].key = m.buckets[j].key => i = j

Counted(m) == m.length = Cardinality(Full(m)) /\ m.tombs = Cardinality(Tombs(m))

\* There is a bucket that is neither FULL nor TOMB.
Room(m) == m.length + m.tombs < m.capacity

Healthy(m) == WellTyped(m) /\ Reached(m) /\ KeysDiffer(m) /\ Counted(m) /\ Room(m)

Entries(m) == {m.buckets[i] : i \in Full(m)}

\* The buckets of m with b as bucket i, and the map with them.
BucketsWith(m, i, b) == [m.buckets EXCEPT ![i] = b]
Written(m, i, b) == [m EXCEPT !.buckets[i] = b]

\* The inductive invariant: a map that is healthy, with an item of its own in
\* each entry, and these are the ones that were not released.
IInv == /\ map # NoMap => Healthy(map) /\ map.capacity >= 4 /\ map.capacity <= MaxCapacity
        /\ held = {b.item : b \in Entries(map)}
        /\ \A a, b \in Entries(map) : a.item = b.item => a = b

-----------------------------------------------------------------------------
\* Naturals.

\* A non-empty set of naturals has a least element: strict inclusion of the
\* finite sets 0 .. x - 1 is well-founded.
LEMMA LeastNatural ==
  ASSUME NEW S \in SUBSET Nat, S # {}
  PROVE  \E x \in S : \A y \in S : x <= y
<1> DEFINE Below(x) == 0 .. x - 1
           R == StrictSubsetOrdering(Nat)
           T == {Below(x) : x \in S}
<1>1. IsWellFoundedOn(R, FiniteSubsetsOf(Nat))
  BY FS_StrictSubsetOrderingWellFounded
<1>2. T \subseteq FiniteSubsetsOf(Nat)
  <2>1. \A x \in Nat : x - 1 \in Int /\ IsFiniteSet(Below(x)) /\ Below(x) \in SUBSET Nat
    BY FS_Interval
  <2> QED
    BY <2>1 DEF FiniteSubsetsOf
<1>3. T # {}
  OBVIOUS
<1>4. \E s \in T : \A u \in T : ~(<<u, s>> \in R)
  <2> HIDE DEF T, R
  <2> QED BY <1>1, <1>2, <1>3, WFMin
<1>5. PICK x \in S : \A y \in S : ~(<<Below(y), Below(x)>> \in R)
  BY <1>4
<1>6. ASSUME NEW y \in S, y < x PROVE FALSE
  <2>1. /\ Below(y) \subseteq Below(x) /\ y \in Below(x) /\ y \notin Below(y)
        /\ Below(x) \in SUBSET Nat /\ Below(y) \in SUBSET Nat
    BY <1>6
  <2>2. <<Below(y), Below(x)>> \in R
    <3> HIDE DEF Below
    <3> QED BY <2>1 DEF StrictSubsetOrdering
  <2> QED
    BY <1>5, <2>2
<1> QED
  BY <1>6

LEMMA SmallMod ==
  ASSUME NEW x \in Nat, NEW w \in Nat, x < w
  PROVE  x % w = x
OBVIOUS

LEMMA MinOfNats ==
  ASSUME NEW S \in SUBSET Nat, S # {}
  PROVE  Min(S) \in S /\ \A x \in S : Min(S) <= x
BY LeastNatural DEF Min

\* Induction up to a bound, for the set of the numbers that have the property.
LEMMA InductionUpTo ==
  ASSUME NEW n \in Nat, NEW S, 0 \in S,
         \A i \in 1 .. n : i - 1 \in S => i \in S
  PROVE  0 .. n \subseteq S
<1> SUFFICES ASSUME NEW z \in 0 .. n, z \notin S PROVE FALSE
  OBVIOUS
<1> DEFINE T == (0 .. n) \ S
<1>1. PICK x \in T : \A y \in T : x <= y
  <2>1. T \in SUBSET Nat /\ T # {}
    OBVIOUS
  <2> HIDE DEF T
  <2> QED
    BY <2>1, LeastNatural
<1>2. x \in 1 .. n /\ x - 1 \in 0 .. n /\ ~(x <= x - 1)
  BY <1>1
<1> QED
  BY <1>1, <1>2

-----------------------------------------------------------------------------
\* The loops of _map_rehash and of map_clear are functions.

LEMMA ClearingLoop ==
  ASSUME NEW m, m.capacity \in Nat
  PROVE  /\ Clearing(m)[0] = m
         /\ \A i \in 1 .. m.capacity : Clearing(m)[i] = ClearStep(Clearing(m)[i - 1], i - 1)
<1> DEFINE n == m.capacity
           Loop(g, j) == g = [i \in 0 .. j |-> IF i = 0 THEN m ELSE ClearStep(g[i - 1], i - 1)]
           S == {j \in Nat : \E g : Loop(g, j)}
<1>1. 0 \in S
  <2>1. Loop([i \in 0 .. 0 |-> m], 0)
    OBVIOUS
  <2> QED
    BY <2>1
<1>2. ASSUME NEW j \in 1 .. n, j - 1 \in S PROVE j \in S
  <2>1. PICK g : Loop(g, j - 1)
    BY <1>2
  <2> DEFINE h == [i \in 0 .. j |-> IF i < j THEN g[i] ELSE ClearStep(g[j - 1], j - 1)]
  <2>2. ASSUME NEW i \in 0 .. j
        PROVE  h[i] = IF i = 0 THEN m ELSE ClearStep(h[i - 1], i - 1)
    BY <2>1
  <2>3. h = [i \in 0 .. j |-> h[i]]
    OBVIOUS
  <2> HIDE DEF h
  <2>4. Loop(h, j)
    BY <2>2, <2>3
  <2> QED
    BY <2>4
<1> HIDE DEF S
<1>3. n \in S
  BY <1>1, <1>2, InductionUpTo
<1>4. \E g : g = [i \in 0 .. n |-> IF i = 0 THEN m ELSE ClearStep(g[i - 1], i - 1)]
  BY <1>3 DEF S
<1>5. Clearing(m) = [i \in 0 .. n |-> IF i = 0 THEN m ELSE ClearStep(Clearing(m)[i - 1], i - 1)]
  BY <1>4 DEF Clearing
<1> QED
  BY <1>5

LEMMA CopyingLoop ==
  ASSUME NEW m, m.capacity \in Nat, NEW n
  PROVE  /\ CopiedTo(m, n)[0] = Allocated(n)
         /\ \A i \in 1 .. m.capacity :
              CopiedTo(m, n)[i] = IF IsCopied(m, i - 1)
                                  THEN CopyStep(m, CopiedTo(m, n)[i - 1], i - 1)
                                  ELSE CopiedTo(m, n)[i - 1]
<1> DEFINE Step(new, i) == IF IsCopied(m, i) THEN CopyStep(m, new, i) ELSE new
           c == m.capacity
           Loop(g, j) == g = [i \in 0 .. j |-> IF i = 0 THEN Allocated(n) ELSE Step(g[i - 1], i - 1)]
           S == {j \in Nat : \E g : Loop(g, j)}
<1>1. 0 \in S
  <2>1. Loop([i \in 0 .. 0 |-> Allocated(n)], 0)
    OBVIOUS
  <2> QED
    BY <2>1
<1>2. ASSUME NEW j \in 1 .. c, j - 1 \in S PROVE j \in S
  <2>1. PICK g : Loop(g, j - 1)
    BY <1>2
  <2> DEFINE h == [i \in 0 .. j |-> IF i < j THEN g[i] ELSE Step(g[j - 1], j - 1)]
  <2> HIDE DEF Step
  <2>2. ASSUME NEW i \in 0 .. j
        PROVE  h[i] = IF i = 0 THEN Allocated(n) ELSE Step(h[i - 1], i - 1)
    BY <2>1
  <2>3. h = [i \in 0 .. j |-> h[i]]
    OBVIOUS
  <2> HIDE DEF h
  <2>4. Loop(h, j)
    BY <2>2, <2>3
  <2> QED
    BY <2>4
<1> HIDE DEF S
<1>3. c \in S
  BY <1>1, <1>2, InductionUpTo
<1>4. \E g : g = [i \in 0 .. c |-> IF i = 0 THEN Allocated(n)
                                   ELSE IF IsCopied(m, i - 1) THEN CopyStep(m, g[i - 1], i - 1)
                                   ELSE g[i - 1]]
  BY <1>3 DEF S
<1>5. CopiedTo(m, n) = [i \in 0 .. c |-> IF i = 0 THEN Allocated(n)
                                         ELSE IF IsCopied(m, i - 1)
                                              THEN CopyStep(m, CopiedTo(m, n)[i - 1], i - 1)
                                         ELSE CopiedTo(m, n)[i - 1]]
  BY <1>4 DEF CopiedTo
<1> QED
  BY <1>5

-----------------------------------------------------------------------------
\* Lookup.

\* A probe stays inside the map and reaches every bucket once.
LEMMA ProbeCovers ==
  ASSUME NEW m, m.capacity \in Nat, m.capacity > 0, NEW h \in Nat
  PROVE  /\ \A d \in Slots(m) : Probe(m, h, d) \in Slots(m)
         /\ \A i \in Slots(m) : \E d \in Slots(m) : Probe(m, h, d) = i
         /\ \A d, e \in Slots(m) : Probe(m, h, d) = Probe(m, h, e) => d = e
<1> DEFINE r == h % m.capacity
           c == m.capacity
<1>1. r \in 0 .. c - 1
  OBVIOUS
<1>2. \A d \in 0 .. c - 1 : Probe(m, h, d) = IF r + d < c THEN r + d ELSE r + d - c
  BY DEF Probe
<1>3. Slots(m) = 0 .. c - 1 /\ c \in Nat
  BY DEF Slots
<1> HIDE DEF r, c
<1>4. ASSUME NEW i \in 0 .. c - 1 PROVE \E d \in 0 .. c - 1 : Probe(m, h, d) = i
  <2>1. CASE i >= r
    <3>1. i - r \in 0 .. c - 1 /\ Probe(m, h, i - r) = i
      BY <1>1, <1>2, <1>3, <2>1
    <3> QED BY <3>1
  <2>2. CASE i < r
    <3>1. i + c - r \in 0 .. c - 1 /\ Probe(m, h, i + c - r) = i
      BY <1>1, <1>2, <1>3, <2>2
    <3> QED BY <3>1
  <2> QED
    BY <1>1, <2>1, <2>2
<1>5. \A d \in 0 .. c - 1 : Probe(m, h, d) \in 0 .. c - 1
  BY <1>1, <1>2, <1>3
<1>6. \A d, e \in 0 .. c - 1 : Probe(m, h, d) = Probe(m, h, e) => d = e
  BY <1>1, <1>2, <1>3
<1> QED
  BY <1>3, <1>4, <1>5, <1>6

\* A map of n buckets has n of them.
LEMMA SlotsCounted ==
  ASSUME NEW m, m.capacity \in Nat
  PROVE  IsFiniteSet(Slots(m)) /\ Cardinality(Slots(m)) = m.capacity
<1> DEFINE last == m.capacity - 1
<1>1. last \in Int /\ 0 \in Int
  OBVIOUS
<1>2. (IF 0 > last THEN 0 ELSE last - 0 + 1) = m.capacity
  OBVIOUS
<1>3. Slots(m) = 0 .. last
  BY DEF Slots
<1> HIDE DEF last
<1>4. /\ IsFiniteSet(0 .. last)
      /\ Cardinality(0 .. last) = IF 0 > last THEN 0 ELSE last - 0 + 1
  BY <1>1, FS_Interval
<1>5. Cardinality(0 .. last) = m.capacity
  BY <1>2, <1>4
<1> QED
  BY <1>3, <1>4, <1>5, Zenon

LEMMA StatesFinite ==
  ASSUME NEW m, m.capacity \in Nat, NEW st
  PROVE  IsFiniteSet(InState(m, st)) /\ Cardinality(InState(m, st)) \in Nat
<1>1. IsFiniteSet(Slots(m))
  BY SlotsCounted
<1>2. InState(m, st) \in SUBSET Slots(m)
  BY DEF InState
<1> QED
  BY <1>1, <1>2, FS_Subset, FS_CardinalityType

LEMMA WellTypedFields ==
  ASSUME NEW m, WellTyped(m)
  PROVE  /\ m.capacity \in Nat /\ m.capacity > 0 /\ m.length \in Nat /\ m.tombs \in Nat
         /\ m.buckets \in [Slots(m) -> Bucket]
         /\ \A i \in Slots(m) : m.buckets[i] \in Bucket
BY DEF WellTyped, MapOf, Slots

LEMMA NullLeft ==
  ASSUME NEW m, WellTyped(m), Counted(m), Room(m)
  PROVE  \E i \in Slots(m) : m.buckets[i].state = "NULL"
<1> SUFFICES ASSUME \A i \in Slots(m) : m.buckets[i].state # "NULL" PROVE FALSE
  OBVIOUS
<1>1. m.capacity \in Nat /\ m.capacity > 0
  BY WellTypedFields
<1>2. Full(m) \cup Tombs(m) = Slots(m) /\ Full(m) \cap Tombs(m) = {}
  BY WellTypedFields DEF Bucket, Full, Tombs, InState
<1>3. /\ IsFiniteSet(Full(m)) /\ Cardinality(Full(m)) \in Nat
      /\ IsFiniteSet(Tombs(m)) /\ Cardinality(Tombs(m)) \in Nat
  BY <1>1, StatesFinite DEF Full, Tombs
<1>4. Cardinality(Slots(m)) = Cardinality(Full(m)) + Cardinality(Tombs(m))
  <2>1. Cardinality(Full(m) \cup Tombs(m))
          = Cardinality(Full(m)) + Cardinality(Tombs(m)) - Cardinality(Full(m) \cap Tombs(m))
    BY <1>3, FS_Union
  <2>2. Cardinality(Full(m) \cap Tombs(m)) = 0
    BY <1>2, FS_EmptySet
  <2>3. Cardinality(Full(m) \cup Tombs(m)) = Cardinality(Slots(m))
    BY <1>2, Zenon
  <2> QED
    BY <1>3, <2>1, <2>2, <2>3
<1>5. Cardinality(Slots(m)) = m.capacity
  BY <1>1, SlotsCounted
<1> QED
  BY <1>1, <1>3, <1>4, <1>5 DEF Room, Counted

\* _map_findbucket returns, at a bucket of the key or a NULL one, and passed
\* neither before.
LEMMA Finds ==
  ASSUME NEW m, WellTyped(m), Counted(m), Room(m), NEW k \in Key
  PROVE  /\ StopDistances(m, k, Hash[k]) # {}
         /\ StopDistance(m, k, Hash[k]) \in Slots(m)
         /\ FindBucket(m, k, Hash[k]) = Probe(m, Hash[k], StopDistance(m, k, Hash[k]))
         /\ FindBucket(m, k, Hash[k]) \in Slots(m)
         /\ \/ Matches(m, k, Hash[k], FindBucket(m, k, Hash[k]))
            \/ m.buckets[FindBucket(m, k, Hash[k])].state = "NULL"
         /\ \A e \in 0 .. StopDistance(m, k, Hash[k]) - 1 :
              /\ e \in Slots(m)
              /\ m.buckets[Probe(m, Hash[k], e)].state # "NULL"
              /\ ~Matches(m, k, Hash[k], Probe(m, Hash[k], e))
         /\ \A d \in Slots(m) : Matches(m, k, Hash[k], Probe(m, Hash[k], d)) =>
              StopDistance(m, k, Hash[k]) <= d
<1> DEFINE h == Hash[k]
           D == StopDistances(m, k, h)
<1>1. h \in Nat /\ m.capacity \in Nat /\ m.capacity > 0
  BY MapAssumption, WellTypedFields
<1>2. D # {} /\ D \subseteq Slots(m)
  <2>1. PICK i \in Slots(m) : m.buckets[i].state = "NULL"
    BY NullLeft
  <2>2. PICK d \in Slots(m) : Probe(m, h, d) = i
    BY <1>1, ProbeCovers
  <2> QED
    BY <2>1, <2>2 DEF StopDistances
<1>3. Min(D) \in D /\ \A d \in D : Min(D) <= d
  <2>1. D \in SUBSET Nat
    BY <1>2 DEF Slots
  <2> HIDE DEF D
  <2> QED
    BY <1>2, <2>1, MinOfNats
<1>4. StopDistance(m, k, h) = Min(D)
  BY DEF StopDistance
<1>5. ASSUME NEW e \in 0 .. Min(D) - 1 PROVE e \in Slots(m) /\ e \notin D
  BY <1>1, <1>2, <1>3 DEF Slots
<1> QED
  BY <1>1, <1>2, <1>3, <1>4, <1>5, ProbeCovers DEF FindBucket, StopDistances

\* A key that is in a bucket is found there.
LEMMA FindsEntry ==
  ASSUME NEW m, Healthy(m), NEW i \in Full(m)
  PROVE  LET k == m.buckets[i].key
         IN  k \in Key /\ FindBucket(m, k, Hash[k]) = i
<1> DEFINE k == m.buckets[i].key
           h == Hash[k]
           s == StopDistance(m, k, h)
<1>1. k \in Key /\ m.buckets[i].hash = h /\ m.buckets[i].state = "FULL" /\ h \in Nat
  BY MapAssumption DEF Healthy, WellTyped, EntriesTyped, Full, InState
<1>2. PICK d \in Slots(m) : /\ Probe(m, h, d) = i
                            /\ \A e \in 0 .. d - 1 : m.buckets[Probe(m, h, e)].state # "NULL"
  BY DEF Healthy, Reached, ReachedIn
<1>3. Matches(m, k, h, Probe(m, h, d))
  BY <1>1, <1>2 DEF Matches
<1>4. /\ s \in Slots(m) /\ s <= d /\ FindBucket(m, k, h) = Probe(m, h, s)
      /\ Probe(m, h, s) \in Slots(m)
      /\ Matches(m, k, h, Probe(m, h, s)) \/ m.buckets[Probe(m, h, s)].state = "NULL"
  BY <1>1, <1>3, Finds DEF Healthy
<1>5. Matches(m, k, h, Probe(m, h, s))
  <2>1. CASE s = d
    BY <1>3, <2>1
  <2>2. CASE s # d
    <3>1. s \in 0 .. d - 1
      BY <1>4, <2>2 DEF Slots
    <3> QED
      BY <1>2, <1>4, <3>1
  <2> QED
    BY <2>1, <2>2
<1>6. Probe(m, h, s) = i
  BY <1>4, <1>5 DEF Matches, Full, InState, Healthy, KeysDiffer
<1> QED
  BY <1>1, <1>4, <1>6

\* A key that is in no bucket leads to a NULL one.
LEMMA FindsNull ==
  ASSUME NEW m, Healthy(m), NEW k \in Key, \A b \in Entries(m) : b.key # k
  PROVE  m.buckets[FindBucket(m, k, Hash[k])].state = "NULL"
<1>1. \A i \in Slots(m) : ~Matches(m, k, Hash[k], i)
  BY DEF Matches, Entries, Full, InState
<1> QED
  BY <1>1, Finds DEF Healthy

\* So what map_get answers depends on the entries alone.
LEMMA Gets ==
  ASSUME NEW m, Healthy(m), NEW k \in Key
  PROVE  /\ \A b \in Entries(m) : b.key = k => Get(m, k) = b.item
         /\ (\A b \in Entries(m) : b.key # k) => Get(m, k) = Nothing
<1>1. ASSUME NEW b \in Entries(m), b.key = k PROVE Get(m, k) = b.item
  <2>1. PICK i \in Full(m) : b = m.buckets[i]
    BY DEF Entries
  <2>2. FindBucket(m, k, Hash[k]) = i /\ b.state = "FULL"
    BY <1>1, <2>1, FindsEntry DEF Full, InState
  <2> QED
    BY <2>1, <2>2 DEF Get
<1>2. ASSUME \A b \in Entries(m) : b.key # k PROVE Get(m, k) = Nothing
  BY <1>2, FindsNull DEF Get
<1> QED
  BY <1>1, <1>2

-----------------------------------------------------------------------------
\* Editing one bucket.

\* It moves at most that bucket between the counted sets.
LEMMA CountsAfterWrite ==
  ASSUME NEW m, NEW u, m.capacity \in Nat, m.buckets \in [Slots(m) -> Bucket],
         NEW i \in Slots(m), NEW b,
         u.capacity = m.capacity, u.buckets = BucketsWith(m, i, b), NEW st
  PROVE  /\ InState(u, st) = IF b.state = st THEN InState(m, st) \cup {i} ELSE InState(m, st) \ {i}
         /\ Cardinality(InState(m, st)) \in Nat
         /\ m.buckets[i].state = st /\ b.state # st =>
              Cardinality(InState(u, st)) = Cardinality(InState(m, st)) - 1
         /\ m.buckets[i].state # st /\ b.state = st =>
              Cardinality(InState(u, st)) = Cardinality(InState(m, st)) + 1
         /\ (m.buckets[i].state = st <=> b.state = st) =>
              Cardinality(InState(u, st)) = Cardinality(InState(m, st))
<1> DEFINE A == InState(m, st)
           B == InState(u, st)
<1>1. IsFiniteSet(A) /\ Cardinality(A) \in Nat
  BY StatesFinite
<1>2. i \in A <=> m.buckets[i].state = st
  BY DEF InState
<1>3. Slots(u) = Slots(m) /\ \A j \in Slots(m) : u.buckets[j] = IF j = i THEN b ELSE m.buckets[j]
  BY DEF Slots, BucketsWith
<1>4. B = IF b.state = st THEN A \cup {i} ELSE A \ {i}
  BY <1>3 DEF InState
<1> HIDE DEF A, B
<1>5. /\ Cardinality(A \cup {i}) = IF i \in A THEN Cardinality(A) ELSE Cardinality(A) + 1
      /\ Cardinality(A \ {i}) = IF i \in A THEN Cardinality(A) - 1 ELSE Cardinality(A)
  BY <1>1, FS_AddElement, FS_RemoveElement
<1>6. /\ i \in A /\ b.state # st => Cardinality(B) = Cardinality(A) - 1
      /\ i \notin A /\ b.state = st => Cardinality(B) = Cardinality(A) + 1
      /\ (i \in A <=> b.state = st) => Cardinality(B) = Cardinality(A)
  BY <1>4, <1>5
<1> QED
  BY <1>1, <1>2, <1>4, <1>6 DEF A, B

\* Another key's bucket, filled or emptied to a TOMB, hides none.
LEMMA StillReached ==
  ASSUME NEW m, WellTyped(m), Reached(m), NEW i \in Slots(m), NEW b, b.state # "NULL", NEW u,
         u.capacity = m.capacity, u.buckets = BucketsWith(m, i, b),
         NEW j \in Full(m), j # i \/ b.key = m.buckets[i].key
  PROVE  ReachedIn(u, j)
<1> DEFINE h == Hash[m.buckets[j].key]
<1>1. PICK d \in Slots(m) : /\ Probe(m, h, d) = j
                            /\ \A e \in 0 .. d - 1 : m.buckets[Probe(m, h, e)].state # "NULL"
  BY DEF Reached, ReachedIn
<1>2. /\ m.capacity \in Nat /\ m.capacity > 0 /\ h \in Nat
      /\ m.buckets \in [Slots(m) -> Bucket] /\ j \in Slots(m)
  BY WellTypedFields, MapAssumption DEF WellTyped, EntriesTyped, Full, InState
<1>3. /\ Slots(u) = Slots(m) /\ \A g, e : Probe(u, g, e) = Probe(m, g, e)
      /\ \A l \in Slots(m) : u.buckets[l] = IF l = i THEN b ELSE m.buckets[l]
  BY <1>2 DEF Slots, Probe, BucketsWith
<1>4. u.buckets[j].key = m.buckets[j].key
  BY <1>2, <1>3
<1>5. ASSUME NEW e \in 0 .. d - 1 PROVE u.buckets[Probe(m, h, e)].state # "NULL"
  <2>1. e \in Slots(m)
    BY <1>2 DEF Slots
  <2>2. Probe(m, h, e) \in Slots(m)
    BY <1>2, <2>1, ProbeCovers
  <2> QED
    BY <1>1, <1>3, <2>2
<1> QED
  BY <1>1, <1>3, <1>4, <1>5 DEF ReachedIn

\* A new entry in the bucket that was found for its key.
LEMMA Inserted ==
  ASSUME NEW m, Healthy(m), m.length + m.tombs + 1 < m.capacity,
         NEW b \in Bucket, b.state = "FULL", b.key \in Key, b.hash = Hash[b.key], b.item \in Item,
         \A a \in Entries(m) : a.key # b.key,
         NEW u \in MapOf(m.capacity), u.capacity = m.capacity,
         u.length = m.length + 1, u.tombs = m.tombs,
         u.buckets = BucketsWith(m, FindBucket(m, b.key, Hash[b.key]), b)
  PROVE  Healthy(u) /\ Entries(u) = Entries(m) \cup {b}
<1> DEFINE k == b.key
           i == FindBucket(m, k, Hash[k])
           s == StopDistance(m, k, Hash[k])
<1>1. /\ m.capacity \in Nat /\ m.capacity > 0 /\ m.length \in Nat /\ m.tombs \in Nat
      /\ m.buckets \in [Slots(m) -> Bucket]
  BY WellTypedFields DEF Healthy
<1>2. /\ i \in Slots(m) /\ m.buckets[i].state = "NULL" /\ i = Probe(m, Hash[k], s) /\ s \in Slots(m)
      /\ \A e \in 0 .. s - 1 : e \in Slots(m) /\ m.buckets[Probe(m, Hash[k], e)].state # "NULL"
  BY Finds, FindsNull DEF Healthy
<1>3. /\ Full(u) = Full(m) \cup {i} /\ Tombs(u) = Tombs(m) /\ i \notin Full(m)
      /\ Cardinality(Full(u)) = Cardinality(Full(m)) + 1
      /\ Cardinality(Tombs(u)) = Cardinality(Tombs(m))
  <2>1. InState(u, "FULL") = InState(m, "FULL") \cup {i} /\ InState(u, "TOMB") = InState(m, "TOMB") \ {i}
        /\ Cardinality(InState(u, "FULL")) = Cardinality(InState(m, "FULL")) + 1
        /\ Cardinality(InState(u, "TOMB")) = Cardinality(InState(m, "TOMB"))
    BY <1>1, <1>2, CountsAfterWrite
  <2> QED
    BY <1>2, <2>1 DEF Full, Tombs, InState
<1>4. /\ Slots(u) = Slots(m) /\ \A g, e : Probe(u, g, e) = Probe(m, g, e)
      /\ \A l \in Slots(m) : u.buckets[l] = IF l = i THEN b ELSE m.buckets[l]
  BY <1>1 DEF Slots, Probe, BucketsWith
<1>5. Full(m) \subseteq Slots(m)
  BY DEF Full, InState
<1>6. WellTyped(u)
  BY <1>1, <1>2, <1>3, <1>4, <1>5 DEF Healthy, WellTyped, EntriesTyped
<1>7. Reached(u)
  <2>1. ASSUME NEW j \in Full(m) PROVE ReachedIn(u, j)
    <3>1. j # i /\ b.state # "NULL" /\ u.buckets = BucketsWith(m, i, b)
      BY <1>3
    <3> HIDE DEF i
    <3> QED
      BY <1>2, <3>1, StillReached DEF Healthy
  <2>2. \A e \in 0 .. s - 1 : u.buckets[Probe(u, Hash[k], e)].state # "NULL"
    <3>1. \A e \in Slots(m) : Probe(m, Hash[k], e) \in Slots(m)
      BY <1>1, ProbeCovers, MapAssumption
    <3> QED
      BY <1>2, <1>4, <3>1
  <2>3. u.buckets[i].key = k /\ Probe(u, Hash[k], s) = i /\ s \in Slots(u)
    BY <1>2, <1>4
  <2>4. ReachedIn(u, i)
    BY <2>2, <2>3 DEF ReachedIn
  <2> QED
    BY <1>3, <2>1, <2>4 DEF Reached
<1>8. KeysDiffer(u)
  <2>1. \A j \in Full(m) : /\ j \in Slots(m) /\ j # i /\ u.buckets[j] = m.buckets[j]
                           /\ m.buckets[j].key # k
    BY <1>3, <1>4, <1>5 DEF Entries
  <2>2. u.buckets[i].key = k
    BY <1>2, <1>4
  <2> QED
    BY <1>3, <2>1, <2>2 DEF KeysDiffer, Healthy
<1>9. Counted(u) /\ Room(u)
  BY <1>1, <1>3 DEF Healthy, Counted, Room
<1>10. Entries(u) = Entries(m) \cup {b}
  BY <1>2, <1>3, <1>4, <1>5 DEF Entries
<1> QED
  BY <1>6, <1>7, <1>8, <1>9, <1>10 DEF Healthy

\* An entry's bucket, written again for its key.
LEMMA Replaced ==
  ASSUME NEW m, Healthy(m), NEW i \in Full(m),
         NEW b \in Bucket, b.state = "FULL", b.key = m.buckets[i].key, b.hash = Hash[b.key],
         b.item \in Item,
         NEW u \in MapOf(m.capacity), u.capacity = m.capacity,
         u.length = m.length, u.tombs = m.tombs, u.buckets = BucketsWith(m, i, b)
  PROVE  Healthy(u) /\ Entries(u) = (Entries(m) \ {m.buckets[i]}) \cup {b}
<1>1. /\ m.capacity \in Nat /\ m.capacity > 0 /\ m.buckets \in [Slots(m) -> Bucket]
      /\ WellTyped(m) /\ Reached(m)
  BY WellTypedFields DEF Healthy
<1>2. i \in Slots(m) /\ m.buckets[i].state = "FULL" /\ Full(m) \subseteq Slots(m) /\ b.key \in Key
  BY DEF Full, InState, Healthy, WellTyped, EntriesTyped
<1>3. /\ Slots(u) = Slots(m)
      /\ \A l \in Slots(m) : u.buckets[l] = IF l = i THEN b ELSE m.buckets[l]
  BY <1>1 DEF Slots, BucketsWith
<1>4. Full(u) = Full(m) /\ Tombs(u) = Tombs(m)
  BY <1>2, <1>3 DEF Full, Tombs, InState
<1>5. WellTyped(u)
  BY <1>1, <1>2, <1>3, <1>4 DEF Healthy, WellTyped, EntriesTyped
<1>6. Reached(u)
  <2>1. ASSUME NEW j \in Full(m) PROVE ReachedIn(u, j)
    BY <1>1, <1>2, StillReached
  <2> QED
    BY <1>4, <2>1 DEF Reached
<1>7. \A j, l \in Full(m) : m.buckets[j].key = m.buckets[l].key => j = l
  BY DEF Healthy, KeysDiffer
<1>8. KeysDiffer(u)
  BY <1>2, <1>3, <1>4, <1>7 DEF KeysDiffer
<1>9. Counted(u) /\ Room(u)
  BY <1>4 DEF Healthy, Counted, Room
<1>10. Entries(u) = (Entries(m) \ {m.buckets[i]}) \cup {b}
  <2>1. \A j \in Full(m) : m.buckets[j] = m.buckets[i] => j = i
    BY <1>7
  <2> QED
    BY <1>2, <1>3, <1>4, <2>1 DEF Entries
<1> QED
  BY <1>5, <1>6, <1>8, <1>9, <1>10 DEF Healthy

\* An entry's bucket, made a TOMB.
LEMMA Removed ==
  ASSUME NEW m, Healthy(m), NEW i \in Full(m),
         NEW b \in Bucket, b.state = "TOMB", b.key = m.buckets[i].key,
         NEW u \in MapOf(m.capacity), u.capacity = m.capacity,
         u.length = m.length - 1, u.tombs = m.tombs + 1, u.buckets = BucketsWith(m, i, b)
  PROVE  Healthy(u) /\ Entries(u) = Entries(m) \ {m.buckets[i]}
<1>1. /\ m.capacity \in Nat /\ m.capacity > 0 /\ m.buckets \in [Slots(m) -> Bucket]
      /\ m.length \in Nat /\ m.tombs \in Nat /\ WellTyped(m) /\ Reached(m)
  BY WellTypedFields DEF Healthy
<1>2. i \in Slots(m) /\ m.buckets[i].state = "FULL" /\ Full(m) \subseteq Slots(m)
  BY DEF Full, InState
<1>3. /\ Slots(u) = Slots(m)
      /\ \A l \in Slots(m) : u.buckets[l] = IF l = i THEN b ELSE m.buckets[l]
  BY <1>1 DEF Slots, BucketsWith
<1>4. /\ Full(u) = Full(m) \ {i} /\ Tombs(u) = Tombs(m) \cup {i}
      /\ Cardinality(Full(u)) = Cardinality(Full(m)) - 1
      /\ Cardinality(Tombs(u)) = Cardinality(Tombs(m)) + 1
  BY <1>1, <1>2, CountsAfterWrite DEF Full, Tombs
<1>5. WellTyped(u)
  BY <1>1, <1>2, <1>3, <1>4 DEF Healthy, WellTyped, EntriesTyped
<1>6. Reached(u)
  <2>1. ASSUME NEW j \in Full(m) PROVE ReachedIn(u, j)
    BY <1>1, <1>2, StillReached
  <2> QED
    BY <1>4, <2>1 DEF Reached
<1>7. \A j, l \in Full(m) : m.buckets[j].key = m.buckets[l].key => j = l
  BY DEF Healthy, KeysDiffer
<1>8. KeysDiffer(u)
  BY <1>2, <1>3, <1>4, <1>7 DEF KeysDiffer
<1>9. Counted(u) /\ Room(u)
  BY <1>1, <1>4 DEF Healthy, Counted, Room
<1>10. Entries(u) = Entries(m) \ {m.buckets[i]}
  <2>1. \A j \in Full(m) : m.buckets[j] = m.buckets[i] => j = i
    BY <1>7
  <2> QED
    BY <1>2, <1>3, <1>4, <2>1 DEF Entries
<1> QED
  BY <1>5, <1>6, <1>8, <1>9, <1>10 DEF Healthy

-----------------------------------------------------------------------------
\* Writing.

LEMMA BucketClaimed ==
  ASSUME NEW a \in Bucket, NEW h \in Nat, NEW b, b = [a EXCEPT !.hash = h, !.state = "FULL"]
  PROVE  b \in Bucket /\ b = [state |-> "FULL", hash |-> h, key |-> a.key, item |-> a.item]
<1>1. b \in Bucket
  BY DEF Bucket
<1>2. b.state = "FULL" /\ b.hash = h /\ b.key = a.key /\ b.item = a.item
  BY DEF Bucket
<1>3. b = [state |-> b.state, hash |-> b.hash, key |-> b.key, item |-> b.item]
  BY <1>1 DEF Bucket
<1> QED
  BY <1>1, <1>2, <1>3

LEMMA BucketFilled ==
  ASSUME NEW a \in Bucket, NEW k \in Key, NEW x \in Item, NEW b, b = [a EXCEPT !.key = k, !.item = x]
  PROVE  b \in Bucket /\ b = [state |-> a.state, hash |-> a.hash, key |-> k, item |-> x]
<1>1. b \in Bucket
  BY DEF Bucket
<1>2. b.state = a.state /\ b.hash = a.hash /\ b.key = k /\ b.item = x
  BY DEF Bucket
<1>3. b = [state |-> b.state, hash |-> b.hash, key |-> b.key, item |-> b.item]
  BY <1>1 DEF Bucket
<1> QED
  BY <1>1, <1>2, <1>3

LEMMA BucketMarked ==
  ASSUME NEW a \in Bucket, NEW st \in {"NULL", "TOMB"}, NEW b, b = [a EXCEPT !.state = st]
  PROVE  b \in Bucket /\ b.state = st /\ b.key = a.key
BY DEF Bucket

HasFields(S, m, len, n, bs, u) ==
  /\ u \in [capacity : Nat, length : Nat, tombs : Nat, buckets : S]
  /\ u.capacity = m.capacity /\ u.length = len /\ u.tombs = n /\ u.buckets = bs

LEMMA FieldsReplaced ==
  ASSUME NEW S, NEW m \in [capacity : Nat, length : Nat, tombs : Nat, buckets : S],
         NEW len \in Nat, NEW n \in Nat, NEW bs \in S,
         NEW u, u = [m EXCEPT !.length = len, !.tombs = n, !.buckets = bs]
  PROVE  HasFields(S, m, len, n, bs, u)
BY DEF HasFields

LEMMA BucketsReplaced ==
  ASSUME NEW S, NEW m \in [capacity : Nat, length : Nat, tombs : Nat, buckets : S], NEW bs \in S,
         NEW u, u = [m EXCEPT !.buckets = bs]
  PROVE  /\ u \in [capacity : Nat, length : Nat, tombs : Nat, buckets : S]
         /\ u.capacity = m.capacity /\ u.length = m.length /\ u.tombs = m.tombs /\ u.buckets = bs
OBVIOUS

\* Without tombs a write claims the bucket that was found, and counts it.
Claims(m, k, h, i, u) ==
  /\ i \in Slots(m) /\ Writable(m, k, h) = i /\ DestroyedBy(m, k, h) = {}
  /\ u \in MapOf(m.capacity) /\ u.capacity = m.capacity
  /\ u.length = m.length + 1 /\ u.tombs = 0
  /\ u.buckets = [m.buckets EXCEPT ![i] = [m.buckets[i] EXCEPT !.hash = h, !.state = "FULL"]]

LEMMA ClaimsNull ==
  ASSUME NEW m, Healthy(m), m.tombs = 0, NEW k \in Key, \A b \in Entries(m) : b.key # k
  PROVE  Claims(m, k, Hash[k], FindBucket(m, k, Hash[k]), Claimed(m, k, Hash[k]))
<1> DEFINE h == Hash[k]
           i == FindBucket(m, k, h)
           u == Claimed(m, k, h)
           b == [m.buckets[i] EXCEPT !.hash = h, !.state = "FULL"]
<1>1. /\ m.capacity \in Nat /\ m.capacity > 0 /\ m.length \in Nat /\ h \in Nat
      /\ m \in MapOf(m.capacity) /\ m.buckets \in [Slots(m) -> Bucket] /\ m.buckets \in [0 .. m.capacity - 1 -> Bucket]
  BY WellTypedFields, MapAssumption DEF Healthy, WellTyped, Slots
<1>2. i \in Slots(m) /\ m.buckets[i].state = "NULL" /\ StopDistance(m, k, h) \in Slots(m)
  BY Finds, FindsNull DEF Healthy
<1>3. Tombs(m) = {}
  <2>1. IsFiniteSet(Tombs(m)) /\ Cardinality(Tombs(m)) = 0
    BY <1>1, StatesFinite DEF Tombs, Healthy, Counted
  <2> QED
    BY <2>1, FS_EmptySet
<1>4. TombsPassed(m, k, h) = {}
  <2>1. ASSUME NEW d \in 0 .. StopDistance(m, k, h) - 1 PROVE m.buckets[Probe(m, h, d)].state # "TOMB"
    <3>1. d \in Slots(m)
      BY <1>1, <1>2 DEF Slots
    <3> QED
      BY <1>1, <1>3, <3>1, ProbeCovers DEF Tombs, InState
  <2> QED
    BY <2>1 DEF TombsPassed
<1>5. Writable(m, k, h) = i /\ DestroyedBy(m, k, h) = {}
  BY <1>2, <1>4 DEF Writable, DestroyedBy
<1>6. b \in Bucket /\ b = [state |-> "FULL", hash |-> h, key |-> m.buckets[i].key, item |-> m.buckets[i].item]
  <2>1. m.buckets[i] \in Bucket
    BY <1>1, <1>2
  <2> QED
    BY <1>1, <2>1, BucketClaimed
<1>7. u = [m EXCEPT !.length = m.length + 1, !.tombs = 0, !.buckets = [m.buckets EXCEPT ![i] = b]]
  <2>1. u = [m EXCEPT !.tombs = m.tombs, !.length = m.length + 1,
                      !.buckets[i].hash = h, !.buckets[i].state = "FULL"]
    BY <1>2, <1>4 DEF Claimed
  <2> HIDE DEF i, h, u
  <2> QED
    BY <1>1, <1>2, <2>1 DEF MapOf, Slots
<1> HIDE DEF b, i, h, u
<1>8. /\ u \in MapOf(m.capacity) /\ u.capacity = m.capacity
      /\ u.length = m.length + 1 /\ u.tombs = 0
      /\ u.buckets = [m.buckets EXCEPT ![i] = b]
  <2> DEFINE S == [0 .. m.capacity - 1 -> Bucket]
             bs == [m.buckets EXCEPT ![i] = b]
  <2>1. bs \in S /\ m.length + 1 \in Nat
    BY <1>1, <1>2, <1>6 DEF Slots
  <2>2. m \in [capacity : Nat, length : Nat, tombs : Nat, buckets : S]
    BY <1>1 DEF MapOf
  <2> HIDE DEF S, bs
  <2>3. /\ u \in [capacity : Nat, length : Nat, tombs : Nat, buckets : S]
        /\ u.capacity = m.capacity /\ u.length = m.length + 1 /\ u.tombs = 0 /\ u.buckets = bs
    <3>1. u = [m EXCEPT !.length = m.length + 1, !.tombs = 0, !.buckets = bs]
      BY <1>7 DEF bs
    <3>2. HasFields(S, m, m.length + 1, 0, bs, u)
      BY <2>1, <2>2, <3>1, FieldsReplaced
    <3> QED
      BY <3>2 DEF HasFields
  <2> QED
    BY <2>3 DEF MapOf, S, bs
<1> QED
  BY <1>2, <1>5, <1>8 DEF Claims, b, i, h, u

\* A bucket of a map without tombs, claimed for a new key and written.
LEMMA ClaimedAndWritten ==
  ASSUME NEW m, Healthy(m), m.tombs = 0, m.length + 1 < m.capacity,
         NEW b \in Bucket, b.state = "FULL", b.key \in Key, b.hash = Hash[b.key], b.item \in Item,
         \A a \in Entries(m) : a.key # b.key,
         NEW u, u = Written(Claimed(m, b.key, Hash[b.key]), FindBucket(m, b.key, Hash[b.key]), b)
  PROVE  /\ Healthy(u) /\ Entries(u) = Entries(m) \cup {b}
         /\ u.capacity = m.capacity /\ u.length = m.length + 1 /\ u.tombs = 0
<1> DEFINE k == b.key
           i == FindBucket(m, k, Hash[k])
           c == Claimed(m, k, Hash[k])
           S == [0 .. m.capacity - 1 -> Bucket]
           claimed == [m.buckets[i] EXCEPT !.hash = Hash[k], !.state = "FULL"]
           bs == [m.buckets EXCEPT ![i] = b]
<1>1. /\ i \in Slots(m) /\ c \in MapOf(m.capacity) /\ c.capacity = m.capacity
      /\ c.length = m.length + 1 /\ c.tombs = 0 /\ c.buckets = [m.buckets EXCEPT ![i] = claimed]
  <2>1. Claims(m, k, Hash[k], i, c)
    BY ClaimsNull
  <2> HIDE DEF i, c
  <2> QED
    BY <2>1 DEF Claims
<1>2. /\ m.length \in Nat /\ m.buckets \in S /\ Slots(m) = 0 .. m.capacity - 1
  BY WellTypedFields DEF Slots, Healthy
<1>3. bs \in S /\ bs = [c.buckets EXCEPT ![i] = b]
  <2> HIDE DEF claimed, i, c
  <2> QED
    BY <1>1, <1>2
<1>4. c \in [capacity : Nat, length : Nat, tombs : Nat, buckets : S]
  BY <1>1 DEF MapOf
<1>5. u = [c EXCEPT !.buckets = bs]
  <2>1. u = [c EXCEPT !.buckets = [c.buckets EXCEPT ![i] = b]]
    BY DEF Written
  <2> HIDE DEF c, i, S, bs, claimed
  <2> QED
    BY <1>3, <2>1, Zenon
<1>6. /\ u \in [capacity : Nat, length : Nat, tombs : Nat, buckets : S]
      /\ u.capacity = m.capacity /\ u.length = m.length + 1 /\ u.tombs = 0 /\ u.buckets = bs
  <2> HIDE DEF c, S, bs, i, claimed
  <2>1. /\ u \in [capacity : Nat, length : Nat, tombs : Nat, buckets : S]
        /\ u.capacity = c.capacity /\ u.length = c.length /\ u.tombs = c.tombs /\ u.buckets = bs
    BY <1>3, <1>4, <1>5, BucketsReplaced
  <2> QED
    BY <1>1, <2>1
<1>7. u \in MapOf(m.capacity)
  BY <1>6 DEF MapOf
<1>8. m.length + m.tombs + 1 < m.capacity
  BY <1>2
<1>9. Healthy(u) /\ Entries(u) = Entries(m) \cup {b}
  <2>1. u.buckets = BucketsWith(m, FindBucket(m, b.key, Hash[b.key]), b) /\ u.tombs = m.tombs
    BY <1>6 DEF BucketsWith
  <2> QED
    <3> HIDE DEF c, bs, S, i, k
    <3>1. /\ u \in MapOf(m.capacity) /\ u.capacity = m.capacity /\ u.length = m.length + 1
          /\ u.tombs = m.tombs
      BY <1>6, <1>7, <2>1
    <3> QED
      BY <1>8, <2>1, <3>1, Inserted
<1> QED
  BY <1>6, <1>9

\* map_set of a key that is in no bucket of a map without tombs.
LEMMA StoresNew ==
  ASSUME NEW m, Healthy(m), m.tombs = 0, m.length + 1 < m.capacity,
         NEW k \in Key, \A a \in Entries(m) : a.key # k, NEW x \in Item
  PROVE  LET u == Stored(m, k, x)
         IN  /\ Healthy(u) /\ u.capacity = m.capacity
             /\ Entries(u) = Entries(m) \cup {[state |-> "FULL", hash |-> Hash[k], key |-> k, item |-> x]}
             /\ DestroyedBy(m, k, Hash[k]) = {}
<1> DEFINE h == Hash[k]
           i == FindBucket(m, k, h)
           c == Claimed(m, k, h)
           claimed == [m.buckets[i] EXCEPT !.hash = h, !.state = "FULL"]
           b == [state |-> "FULL", hash |-> h, key |-> k, item |-> x]
           u == Stored(m, k, x)
<1>1. /\ i \in Slots(m) /\ Writable(m, k, h) = i /\ DestroyedBy(m, k, h) = {}
      /\ c \in MapOf(m.capacity) /\ c.capacity = m.capacity
      /\ c.buckets = [m.buckets EXCEPT ![i] = claimed]
  <2>1. Claims(m, k, h, i, c)
    BY ClaimsNull
  <2> HIDE DEF i, c
  <2> QED
    BY <2>1 DEF Claims
<1>2. m.buckets \in [Slots(m) -> Bucket] /\ h \in Nat
  BY WellTypedFields, MapAssumption DEF Healthy
<1>3. claimed \in Bucket /\ claimed.state = "FULL" /\ claimed.hash = h
  <2>1. m.buckets[i] \in Bucket
    BY <1>1, <1>2
  <2>2. claimed \in Bucket
        /\ claimed = [state |-> "FULL", hash |-> h, key |-> m.buckets[i].key, item |-> m.buckets[i].item]
    <3> HIDE DEF h, i
    <3> QED
      BY <1>2, <2>1, BucketClaimed
  <2> QED
    BY <2>2
<1>4. b \in Bucket /\ [claimed EXCEPT !.key = k, !.item = x] = b
  <2> DEFINE d == [claimed EXCEPT !.key = k, !.item = x]
  <2>1. d \in Bucket /\ d = [state |-> claimed.state, hash |-> claimed.hash, key |-> k, item |-> x]
    BY <1>3, BucketFilled
  <2> QED
    BY <1>3, <2>1
<1>5. c.buckets[i] = claimed
  BY <1>1, <1>2
<1>6. u = [c EXCEPT !.buckets[i] = b]
  <2>1. u = [c EXCEPT !.buckets[i].key = k, !.buckets[i].item = x]
    BY <1>1 DEF Stored
  <2> DEFINE d == [c.buckets[i] EXCEPT !.key = k, !.item = x]
  <2>2. d = b
    BY <1>4, <1>5
  <2> HIDE DEF c, i, claimed, u, b, h
  <2>3. u = [c EXCEPT !.buckets = [c.buckets EXCEPT ![i] = d]]
    BY <1>1, <1>2, <2>1 DEF MapOf, Slots
  <2> QED
    BY <2>2, <2>3
<1> HIDE DEF u
<1>7. b.key = k /\ b.hash = Hash[k] /\ b.item = x /\ b.state = "FULL"
  OBVIOUS
<1>8. Healthy(u) /\ Entries(u) = Entries(m) \cup {b} /\ u.capacity = m.capacity
  <2>1. b \in Bucket
    BY <1>4
  <2>2. u = Written(Claimed(m, b.key, Hash[b.key]), FindBucket(m, b.key, Hash[b.key]), b)
    BY <1>6 DEF Written
  <2>3. /\ b.state = "FULL" /\ b.key \in Key /\ b.hash = Hash[b.key] /\ b.item \in Item
        /\ \A a \in Entries(m) : a.key # b.key
    OBVIOUS
  <2> HIDE DEF b
  <2> QED
    BY <2>1, <2>2, <2>3, ClaimedAndWritten
<1> QED
  BY <1>1, <1>8 DEF u

\* map_set of a key that is in a bucket.
LEMMA StoresOver ==
  ASSUME NEW m, Healthy(m), NEW i \in Full(m), NEW x \in Item
  PROVE  LET k == m.buckets[i].key
             u == Stored(m, k, x)
         IN  /\ Healthy(u) /\ u.capacity = m.capacity
             /\ Entries(u) = (Entries(m) \ {m.buckets[i]})
                               \cup {[state |-> "FULL", hash |-> Hash[k], key |-> k, item |-> x]}
             /\ DestroyedBy(m, k, Hash[k]) = {m.buckets[i].item}
<1> DEFINE a == m.buckets[i]
           k == a.key
           S == [0 .. m.capacity - 1 -> Bucket]
           b == [a EXCEPT !.key = k, !.item = x]
           bs == BucketsWith(m, i, b)
           u == Stored(m, k, x)
<1>1. /\ m.buckets \in S /\ Slots(m) = 0 .. m.capacity - 1
      /\ m \in [capacity : Nat, length : Nat, tombs : Nat, buckets : S]
  BY DEF Slots, Healthy, WellTyped, MapOf
<1>2. i \in Slots(m) /\ a.state = "FULL" /\ k \in Key /\ a.hash = Hash[k]
  BY DEF Full, InState, Healthy, WellTyped, EntriesTyped
<1>3. FindBucket(m, k, Hash[k]) = i
  BY FindsEntry
<1>4. DestroyedBy(m, k, Hash[k]) = {a.item} /\ Writable(m, k, Hash[k]) = i /\ Claimed(m, k, Hash[k]) = m
  BY <1>2, <1>3 DEF DestroyedBy, Writable, Claimed
<1>5. b \in Bucket /\ b = [state |-> "FULL", hash |-> Hash[k], key |-> k, item |-> x]
  <2>1. a \in Bucket
    BY <1>1, <1>2
  <2> HIDE DEF a
  <2> QED
    BY <1>2, <2>1, BucketFilled
<1>6. u = [m EXCEPT !.buckets = bs]
  <2>1. u = [m EXCEPT !.buckets[i].key = k, !.buckets[i].item = x]
    BY <1>4 DEF Stored
  <2> QED
    BY <1>1, <1>2, <2>1 DEF BucketsWith
<1>7. bs \in S
  <2> HIDE DEF b
  <2> QED
    BY <1>1, <1>5 DEF BucketsWith
<1> HIDE DEF u, bs, S
<1>8. /\ u \in [capacity : Nat, length : Nat, tombs : Nat, buckets : S]
      /\ u.capacity = m.capacity /\ u.length = m.length /\ u.tombs = m.tombs /\ u.buckets = bs
  BY <1>1, <1>6, <1>7, BucketsReplaced
<1>9. Healthy(u) /\ Entries(u) = (Entries(m) \ {a}) \cup {b}
  <2>1. u \in MapOf(m.capacity) /\ u.buckets = BucketsWith(m, i, b)
    BY <1>8 DEF MapOf, S, bs
  <2>2. b \in Bucket /\ b.state = "FULL" /\ b.key = m.buckets[i].key /\ b.hash = Hash[b.key] /\ b.item \in Item
    BY <1>5
  <2> HIDE DEF b
  <2> QED
    BY <1>8, <2>1, <2>2, Replaced
<1> QED
  BY <1>4, <1>5, <1>8, <1>9 DEF u

\* _map_del
Tombed(m, i) == [m EXCEPT !.buckets[i].state = "TOMB", !.length = Dec(@), !.tombs = @ + 1]

LEMMA Deletes ==
  ASSUME NEW m, Healthy(m), m.capacity <= MaxCapacity, NEW i \in Full(m),
         NEW u, u = Tombed(m, i)
  PROVE  /\ Healthy(u) /\ u.capacity = m.capacity
         /\ Entries(u) = Entries(m) \ {m.buckets[i]}
<1> DEFINE a == m.buckets[i]
           S == [0 .. m.capacity - 1 -> Bucket]
           b == [a EXCEPT !.state = "TOMB"]
           bs == BucketsWith(m, i, b)
<1>1. /\ m.buckets \in S /\ Slots(m) = 0 .. m.capacity - 1
      /\ m \in [capacity : Nat, length : Nat, tombs : Nat, buckets : S]
  BY DEF Slots, Healthy, WellTyped, MapOf
<1>2. i \in Slots(m) /\ a \in Bucket
  BY <1>1 DEF Full, InState
<1>3. b \in Bucket /\ b.state = "TOMB" /\ b.key = a.key
  <2> HIDE DEF a
  <2> QED
    BY <1>2, BucketMarked
<1>4. m.length \in Nat /\ m.tombs \in Nat /\ m.capacity \in Nat /\ m.length + m.tombs < m.capacity
  BY WellTypedFields DEF Healthy, Room
<1>5. m.length - 1 \in Nat
  <2>1. m.length = Cardinality(Full(m)) /\ IsFiniteSet(Full(m)) /\ Full(m) # {}
    BY <1>4, StatesFinite DEF Healthy, Counted, Full
  <2> QED
    BY <1>4, <2>1, FS_EmptySet
<1>6. Dec(m.length) = m.length - 1
  <2>1. m.length - 1 < Word /\ Word \in Nat
    BY <1>4, MapAssumption
  <2> QED
    BY <1>5, <2>1, SmallMod DEF Dec
<1>7. bs \in S
  <2> HIDE DEF b
  <2> QED
    BY <1>1, <1>2, <1>3 DEF BucketsWith
<1>8. u = [m EXCEPT !.length = m.length - 1, !.tombs = m.tombs + 1, !.buckets = bs]
  <2> DEFINE len == Dec(m.length)
             n == m.tombs + 1
  <2>1. u = [m EXCEPT !.buckets[i].state = "TOMB", !.length = len, !.tombs = n]
    BY DEF Tombed
  <2> HIDE DEF len, n, S
  <2>2. u = [m EXCEPT !.length = len, !.tombs = n, !.buckets = bs]
    BY <1>1, <2>1 DEF BucketsWith
  <2> QED
    BY <1>6, <2>2 DEF len, n
<1> HIDE DEF bs, S
<1>9. /\ u \in [capacity : Nat, length : Nat, tombs : Nat, buckets : S]
      /\ u.capacity = m.capacity /\ u.length = m.length - 1 /\ u.tombs = m.tombs + 1 /\ u.buckets = bs
  <2> DEFINE len == m.length - 1
             n == m.tombs + 1
  <2>1. len \in Nat /\ n \in Nat
    BY <1>4, <1>5
  <2>2. u = [m EXCEPT !.length = len, !.tombs = n, !.buckets = bs]
    BY <1>8
  <2> HIDE DEF len, n
  <2>4. m \in [capacity : Nat, length : Nat, tombs : Nat, buckets : S]
    BY <1>1
  <2>3. HasFields(S, m, len, n, bs, u)
    BY <1>7, <2>1, <2>2, <2>4, FieldsReplaced
  <2> QED
    BY <2>3 DEF HasFields, len, n
<1>10. u \in MapOf(m.capacity) /\ u.buckets = BucketsWith(m, i, b)
  BY <1>9 DEF MapOf, S, bs
<1> HIDE DEF b
<1> QED
  BY <1>3, <1>9, <1>10, Removed

-----------------------------------------------------------------------------
\* Rehashing.

LEMMA AllocatedHealthy ==
  ASSUME NEW n \in Nat, n > 0
  PROVE  LET u == Allocated(n)
         IN  /\ Healthy(u) /\ Entries(u) = {}
             /\ u.capacity = n /\ u.length = 0 /\ u.tombs = 0
<1> DEFINE u == Allocated(n)
           bs == [i \in 0 .. n - 1 |-> ZeroBucket]
<1>1. ZeroBucket \in Bucket /\ ZeroBucket.state = "NULL"
  BY DEF ZeroBucket, Bucket
<1>2. bs \in [0 .. n - 1 -> Bucket] /\ \A i \in 0 .. n - 1 : bs[i].state = "NULL"
  BY <1>1
<1>3. u = [capacity |-> n, length |-> 0, tombs |-> 0, buckets |-> bs]
  BY DEF Allocated
<1> HIDE DEF bs, u
<1>4. u \in MapOf(n) /\ u.capacity = n /\ u.length = 0 /\ u.tombs = 0 /\ u.buckets = bs
  BY <1>2, <1>3 DEF MapOf
<1>5. Full(u) = {} /\ Tombs(u) = {}
  BY <1>2, <1>4 DEF Full, Tombs, InState, Slots
<1>6. WellTyped(u) /\ Reached(u) /\ KeysDiffer(u) /\ Entries(u) = {}
  BY <1>4, <1>5 DEF WellTyped, EntriesTyped, Reached, KeysDiffer, Entries
<1>7. Counted(u) /\ Room(u)
  BY <1>4, <1>5, FS_EmptySet DEF Counted, Room
<1> QED
  BY <1>4, <1>6, <1>7 DEF Healthy, u

\* The entries in the first i buckets.
Before(m, i) == {j \in Full(m) : j < i}

LEMMA BeforeGrows ==
  ASSUME NEW m, Healthy(m), NEW i \in 1 .. m.capacity
  PROVE  /\ IsCopied(m, i - 1) <=> m.buckets[i - 1].state = "FULL"
         /\ m.buckets[i - 1].state # "FULL" => Before(m, i) = Before(m, i - 1)
         /\ m.buckets[i - 1].state = "FULL" =>
              /\ i - 1 \in Full(m) /\ Before(m, i) = Before(m, i - 1) \cup {i - 1}
              /\ Cardinality(Before(m, i)) = Cardinality(Before(m, i - 1)) + 1
              /\ Cardinality(Before(m, i - 1)) < m.length
         /\ Cardinality(Before(m, i - 1)) \in Nat
<1> DEFINE B == Before(m, i - 1)
<1>1. m.capacity \in Nat /\ i - 1 \in Slots(m) /\ Slots(m) = 0 .. m.capacity - 1
  BY WellTypedFields DEF Healthy, Slots
<1>2. Full(m) \subseteq Slots(m)
  BY DEF Full, InState
<1>3. IsFiniteSet(Full(m)) /\ m.length = Cardinality(Full(m))
  BY <1>1, StatesFinite DEF Full, Healthy, Counted
<1>4. B \subseteq Full(m) /\ i - 1 \notin B
  BY <1>1, <1>2 DEF Before
<1>5. IsFiniteSet(B) /\ Cardinality(B) \in Nat
  BY <1>3, <1>4, FS_Subset, FS_CardinalityType
<1>6. ASSUME m.buckets[i - 1].state = "FULL"
      PROVE  i - 1 \in Full(m) /\ Cardinality(B) < m.length
  <2>1. i - 1 \in Full(m)
    BY <1>1, <1>6 DEF Full, InState
  <2>2. B # Full(m)
    BY <1>4, <2>1
  <2> HIDE DEF B
  <2>3. Cardinality(B) <= Cardinality(Full(m)) /\ Cardinality(B) # Cardinality(Full(m))
    BY <1>3, <1>4, <2>2, FS_Subset
  <2>4. Cardinality(B) \in Nat /\ Cardinality(Full(m)) \in Nat
    BY <1>3, <1>5, FS_CardinalityType
  <2> QED
    BY <1>3, <2>1, <2>3, <2>4
<1>7. IsCopied(m, i - 1) <=> m.buckets[i - 1].state = "FULL"
  BY <1>6 DEF IsCopied, Before, Full
<1>8. ASSUME NEW j \in Full(m) PROVE j < i <=> j < i - 1 \/ j = i - 1
  BY <1>1, <1>2
<1>9. ASSUME m.buckets[i - 1].state # "FULL" PROVE Before(m, i) = B
  <2>1. i - 1 \notin Full(m)
    BY <1>9 DEF Full, InState
  <2> QED
    BY <1>8, <2>1 DEF Before
<1>10. ASSUME m.buckets[i - 1].state = "FULL"
       PROVE  Before(m, i) = B \cup {i - 1} /\ Cardinality(Before(m, i)) = Cardinality(B) + 1
  <2>1. Before(m, i) = B \cup {i - 1}
    BY <1>6, <1>8, <1>10 DEF Before
  <2> HIDE DEF B
  <2>2. Cardinality(B \cup {i - 1}) = Cardinality(B) + 1
    BY <1>4, <1>5, FS_AddElement
  <2>3. Cardinality(Before(m, i)) = Cardinality(B \cup {i - 1})
    BY <2>1, Zenon
  <2> QED
    BY <2>1, <2>2, <2>3
<1> QED
  BY <1>5, <1>6, <1>7, <1>9, <1>10

\* A rehash to no fewer buckets keeps the entries and their items, and loses
\* the tombs.
LEMMA Rehashes ==
  ASSUME NEW m, Healthy(m), NEW n \in Nat, n >= m.capacity
  PROVE  LET u == Rehashed(m, n)
         IN  /\ Healthy(u) /\ Entries(u) = Entries(m)
             /\ u.capacity = n /\ u.length = m.length /\ u.tombs = 0
             /\ DestroyedByRehash(m, n) = {}
<1> DEFINE P(i) == LET u == CopiedTo(m, n)[i]
                   IN  /\ Healthy(u) /\ Entries(u) = {m.buckets[j] : j \in Before(m, i)}
                       /\ u.capacity = n /\ u.tombs = 0 /\ u.length = Cardinality(Before(m, i))
           S == {i \in 0 .. m.capacity : P(i)}
<1>1. m.capacity \in Nat /\ m.capacity > 0 /\ m.length \in Nat /\ m.tombs \in Nat
  BY WellTypedFields DEF Healthy
<1>2. Full(m) \subseteq 0 .. m.capacity - 1 /\ IsFiniteSet(Full(m)) /\ m.length = Cardinality(Full(m))
  BY <1>1, StatesFinite DEF Full, InState, Slots, Healthy, Counted
<1>3. 0 \in S
  <2>1. Before(m, 0) = {}
    BY <1>1, <1>2 DEF Before
  <2>2. CopiedTo(m, n)[0] = Allocated(n)
    BY <1>1, CopyingLoop
  <2>3. Cardinality(Before(m, 0)) = 0 /\ {m.buckets[j] : j \in Before(m, 0)} = {}
    BY <2>1, FS_EmptySet
  <2> QED
    BY <1>1, <2>2, <2>3, AllocatedHealthy
<1>4. ASSUME NEW i \in 1 .. m.capacity, i - 1 \in S PROVE i \in S
  <2> DEFINE c == CopiedTo(m, n)[i - 1]
             u == CopiedTo(m, n)[i]
             b == m.buckets[i - 1]
             B == Before(m, i - 1)
  <2>1. /\ Healthy(c) /\ Entries(c) = {m.buckets[j] : j \in B}
        /\ c.capacity = n /\ c.tombs = 0 /\ c.length = Cardinality(B)
    BY <1>4
  <2>2. u = IF IsCopied(m, i - 1) THEN CopyStep(m, c, i - 1) ELSE c
    BY <1>1, CopyingLoop
  <2>3. CASE b.state # "FULL"
    <3>1. u = c /\ Before(m, i) = B
      BY <2>2, <2>3, BeforeGrows
    <3> QED
      BY <2>1, <3>1
  <2>4. CASE b.state = "FULL"
    <3>1. /\ i - 1 \in Full(m) /\ Before(m, i) = B \cup {i - 1} /\ u = CopyStep(m, c, i - 1)
          /\ Cardinality(Before(m, i)) = Cardinality(B) + 1 /\ Cardinality(B) < m.length
          /\ Cardinality(B) \in Nat
      BY <2>2, <2>4, BeforeGrows
    <3>2. b \in Bucket /\ b.key \in Key /\ b.hash = Hash[b.key] /\ b.item \in Item
      BY <1>2, <3>1 DEF Healthy, WellTyped, MapOf, EntriesTyped
    <3>3. ASSUME NEW a \in Entries(c) PROVE a.key # b.key
      <4>1. PICK j \in B : a = m.buckets[j]
        BY <2>1
      <4>2. j \in Full(m) /\ j # i - 1
        BY <1>2, <4>1 DEF Before
      <4> QED
        BY <3>1, <4>1, <4>2 DEF Healthy, KeysDiffer
    <3>4. u = Written(Claimed(c, b.key, Hash[b.key]), FindBucket(c, b.key, Hash[b.key]), b)
      <4>1. Writable(c, b.key, Hash[b.key]) = FindBucket(c, b.key, Hash[b.key])
        <5> DEFINE k == b.key
        <5>1. k \in Key /\ \A a \in Entries(c) : a.key # k
          BY <3>2, <3>3
        <5> HIDE DEF c, b, k
        <5>2. Claims(c, k, Hash[k], FindBucket(c, k, Hash[k]), Claimed(c, k, Hash[k]))
          BY <2>1, <5>1, ClaimsNull
        <5> QED
          BY <5>2 DEF Claims, k
      <4> QED
        BY <3>1, <4>1 DEF CopyStep, Written
    <3>5. c.length + 1 < c.capacity
      BY <1>1, <2>1, <3>1 DEF Healthy, Room
    <3>6. /\ Healthy(u) /\ Entries(u) = Entries(c) \cup {b}
          /\ u.capacity = c.capacity /\ u.length = c.length + 1 /\ u.tombs = 0
      <4> HIDE DEF c, b, u
      <4> QED
        BY <2>1, <2>4, <3>2, <3>3, <3>4, <3>5, ClaimedAndWritten
    <3>7. Entries(u) = {m.buckets[j] : j \in Before(m, i)}
      <4> HIDE DEF c, u, B
      <4> QED
        BY <2>1, <3>1, <3>6
    <3> HIDE DEF c, u
    <3>8. P(i)
      BY <2>1, <3>1, <3>6, <3>7 DEF u
    <3> QED
      BY <3>8
  <2> QED
    BY <2>3, <2>4
<1>5. \A i \in 0 .. m.capacity : P(i)
  <2>1. 0 .. m.capacity \subseteq S
    <3> HIDE DEF S
    <3> QED
      BY <1>1, <1>3, <1>4, InductionUpTo
  <2> QED
    BY <2>1
<1>6. P(m.capacity)
  BY <1>1, <1>5
<1>7. Before(m, m.capacity) = Full(m)
  BY <1>1, <1>2 DEF Before
<1>8. Cardinality(Before(m, m.capacity)) = m.length
  BY <1>2, <1>7, Zenon
<1>9. {m.buckets[j] : j \in Before(m, m.capacity)} = Entries(m)
  BY <1>7 DEF Entries
<1>10. ASSUME NEW j \in Slots(m), IsCopied(m, j)
      PROVE  DestroyedBy(CopiedTo(m, n)[j], m.buckets[j].key, Hash[m.buckets[j].key]) = {}
  <2> DEFINE c == CopiedTo(m, n)[j]
             b == m.buckets[j]
             k == b.key
  <2>1. j \in 0 .. m.capacity /\ j + 1 \in 1 .. m.capacity /\ (j + 1) - 1 = j
    BY <1>1 DEF Slots
  <2>2. j \in Full(m)
    BY <1>10, <2>1, BeforeGrows
  <2>3. Healthy(c) /\ Entries(c) = {m.buckets[i] : i \in Before(m, j)}
    BY <1>5, <2>1
  <2>4. k \in Key /\ \A a \in Entries(c) : a.key # k
    <3>1. k \in Key
      BY <2>2 DEF Healthy, WellTyped, EntriesTyped
    <3>2. ASSUME NEW i \in Before(m, j) PROVE m.buckets[i].key # k
      <4>1. i \in Full(m) /\ i # j
        BY <1>2, <2>1 DEF Before
      <4> QED
        BY <2>2, <4>1 DEF Healthy, KeysDiffer
    <3> QED
      BY <2>3, <3>1, <3>2
  <2> HIDE DEF c, k
  <2>5. c.buckets[FindBucket(c, k, Hash[k])].state = "NULL"
    BY <2>3, <2>4, FindsNull
  <2> QED
    BY <2>5 DEF DestroyedBy, c, k
<1>11. DestroyedByRehash(m, n) = {}
  BY <1>10 DEF DestroyedByRehash
<1> QED
  BY <1>6, <1>8, <1>9, <1>11 DEF Rehashed

-----------------------------------------------------------------------------
\* Clearing.

\* A map whose first i buckets are NULL, the others those of m.
ClearedUpTo(m, i, u) ==
  /\ u.capacity = m.capacity /\ u \in MapOf(m.capacity)
  /\ \A j \in Slots(m) : IF j < i THEN u.buckets[j].state = "NULL" ELSE u.buckets[j] = m.buckets[j]
  /\ Counted(u) /\ Room(u)

LEMMA ClearsOne ==
  ASSUME NEW m, Healthy(m), m.capacity <= MaxCapacity, NEW i \in 1 .. m.capacity,
         NEW c, ClearedUpTo(m, i - 1, c)
  PROVE  ClearedUpTo(m, i, ClearStep(c, i - 1))
<1> DEFINE u == ClearStep(c, i - 1)
           a == c.buckets[i - 1]
           S == [0 .. c.capacity - 1 -> Bucket]
           b == [a EXCEPT !.state = "NULL"]
           bs == BucketsWith(c, i - 1, b)
           len == IF a.state = "FULL" THEN Dec(c.length) ELSE c.length
           n == IF a.state = "TOMB" THEN Dec(c.tombs) ELSE c.tombs
<1>1. /\ c.capacity = m.capacity /\ c.capacity \in Nat /\ c.length \in Nat /\ c.tombs \in Nat
      /\ c.buckets \in S /\ Slots(c) = 0 .. c.capacity - 1 /\ Slots(m) = Slots(c)
      /\ c \in [capacity : Nat, length : Nat, tombs : Nat, buckets : S]
      /\ c.length + c.tombs < c.capacity
  BY DEF ClearedUpTo, MapOf, Slots, Room
<1>2. i - 1 \in Slots(c) /\ a \in Bucket
  BY <1>1
<1>3. /\ IsFiniteSet(Full(c)) /\ c.length = Cardinality(Full(c))
      /\ IsFiniteSet(Tombs(c)) /\ c.tombs = Cardinality(Tombs(c))
  BY <1>1, StatesFinite DEF Full, Tombs, ClearedUpTo, Counted
<1>4. \A j \in Slots(m) : j < i <=> j < i - 1 \/ j = i - 1
  BY <1>1
<1>5. CASE c.length = 0 /\ c.tombs = 0
  <2>1. u = c
    BY <1>5 DEF ClearStep
  <2>2. Full(c) = {} /\ Tombs(c) = {}
    BY <1>3, <1>5, FS_EmptySet
  <2>3. a.state = "NULL"
    BY <1>2, <2>2 DEF Bucket, Full, Tombs, InState
  <2> QED
    <3>1. \A j \in Slots(m) : IF j < i THEN c.buckets[j].state = "NULL" ELSE c.buckets[j] = m.buckets[j]
      BY <1>1, <1>4, <2>3 DEF ClearedUpTo
    <3>2. ClearedUpTo(m, i, c)
      BY <3>1 DEF ClearedUpTo
    <3> QED
      BY <2>1, <3>2
<1>6. CASE ~(c.length = 0 /\ c.tombs = 0)
  <2>1. u = [c EXCEPT !.length = len, !.tombs = n, !.buckets = bs]
    <3>1. u = [c EXCEPT !.length = len, !.tombs = n, !.buckets[i - 1].state = "NULL"]
      BY <1>6 DEF ClearStep
    <3> HIDE DEF len, n, S, u
    <3> QED
      BY <1>1, <3>1 DEF BucketsWith
  <2>2. b \in Bucket /\ b.state = "NULL"
    <3> HIDE DEF a
    <3> QED
      BY <1>2, BucketMarked
  <2>3. bs \in S
    <3> HIDE DEF b
    <3> QED
      BY <1>1, <1>2, <2>2 DEF BucketsWith
  <2>4. a.state = "FULL" => c.length - 1 \in Nat /\ len = c.length - 1
    <3> SUFFICES ASSUME a.state = "FULL" PROVE c.length - 1 \in Nat /\ len = c.length - 1
      OBVIOUS
    <3>1. Full(c) # {}
      BY <1>2 DEF Full, InState
    <3>2. c.length - 1 \in Nat
      BY <1>1, <1>3, <3>1, FS_EmptySet
    <3>3. c.length - 1 < Word /\ Word \in Nat
      BY <1>1, MapAssumption
    <3> QED
      BY <3>2, <3>3, SmallMod DEF Dec
  <2>5. a.state = "TOMB" => c.tombs - 1 \in Nat /\ n = c.tombs - 1
    <3> SUFFICES ASSUME a.state = "TOMB" PROVE c.tombs - 1 \in Nat /\ n = c.tombs - 1
      OBVIOUS
    <3>1. Tombs(c) # {}
      BY <1>2 DEF Tombs, InState
    <3>2. c.tombs - 1 \in Nat
      BY <1>1, <1>3, <3>1, FS_EmptySet
    <3>3. c.tombs - 1 < Word /\ Word \in Nat
      BY <1>1, MapAssumption
    <3> QED
      BY <3>2, <3>3, SmallMod DEF Dec
  <2>6. /\ a.state # "FULL" => len = c.length
        /\ a.state # "TOMB" => n = c.tombs
    OBVIOUS
  <2> HIDE DEF len, n, S, bs, u, a, b
  <2>7. len \in Nat /\ n \in Nat /\ len <= c.length /\ n <= c.tombs
    BY <1>1, <2>4, <2>5, <2>6
  <2>8. /\ u \in [capacity : Nat, length : Nat, tombs : Nat, buckets : S]
        /\ u.capacity = c.capacity /\ u.length = len /\ u.tombs = n /\ u.buckets = bs
    <3>1. HasFields(S, c, len, n, bs, u)
      BY <1>1, <2>1, <2>3, <2>7, FieldsReplaced
    <3> QED
      BY <3>1 DEF HasFields
  <2>9. c.buckets \in [Slots(c) -> Bucket] /\ u.buckets = BucketsWith(c, i - 1, b)
    BY <1>1, <2>8 DEF S, bs
  <2>10. /\ Cardinality(Full(u)) = IF a.state = "FULL" THEN Cardinality(Full(c)) - 1
                                   ELSE Cardinality(Full(c))
         /\ Cardinality(Tombs(u)) = IF a.state = "TOMB" THEN Cardinality(Tombs(c)) - 1
                                    ELSE Cardinality(Tombs(c))
    <3>1. /\ c.capacity \in Nat /\ i - 1 \in Slots(c) /\ u.capacity = c.capacity
          /\ c.buckets[i - 1].state = a.state /\ b.state # "FULL" /\ b.state # "TOMB"
      BY <1>1, <1>2, <2>2, <2>8 DEF a
    <3>2. /\ c.buckets[i - 1].state = "FULL" => Cardinality(Full(u)) = Cardinality(Full(c)) - 1
          /\ c.buckets[i - 1].state # "FULL" => Cardinality(Full(u)) = Cardinality(Full(c))
      BY <2>9, <3>1, CountsAfterWrite DEF Full
    <3>3. /\ c.buckets[i - 1].state = "TOMB" => Cardinality(Tombs(u)) = Cardinality(Tombs(c)) - 1
          /\ c.buckets[i - 1].state # "TOMB" => Cardinality(Tombs(u)) = Cardinality(Tombs(c))
      BY <2>9, <3>1, CountsAfterWrite DEF Tombs
    <3> QED
      BY <3>1, <3>2, <3>3
  <2>11. Counted(u) /\ Room(u)
    <3>1. c.length = Cardinality(Full(c)) /\ c.tombs = Cardinality(Tombs(c)) /\ c.length + c.tombs < c.capacity
      BY <1>1, <1>3 DEF Counted, Room
    <3>2. len = Cardinality(Full(u))
      BY <2>4, <2>6, <2>10, <3>1
    <3>3. n = Cardinality(Tombs(u))
      BY <2>5, <2>6, <2>10, <3>1
    <3>4. len + n < c.capacity
      BY <1>1, <2>7, <3>1
    <3> QED
      BY <2>8, <3>2, <3>3, <3>4 DEF Counted, Room
  <2>12. \A j \in Slots(c) : bs[j] = IF j = i - 1 THEN b ELSE c.buckets[j]
    BY <1>1, <1>2 DEF bs, BucketsWith, S
  <2>13. \A j \in Slots(m) : IF j < i THEN u.buckets[j].state = "NULL" ELSE u.buckets[j] = m.buckets[j]
    BY <1>1, <1>4, <2>2, <2>8, <2>12 DEF ClearedUpTo
  <2> QED
    <3>1. u \in MapOf(m.capacity) /\ u.capacity = m.capacity
      BY <1>1, <2>8 DEF MapOf, S
    <3>2. ClearedUpTo(m, i, u)
      BY <2>11, <2>13, <3>1 DEF ClearedUpTo
    <3> QED
      BY <3>2 DEF u
<1> QED
  BY <1>5, <1>6

\* map_clear leaves no entry and no tomb, and passes every entry.
LEMMA Clears ==
  ASSUME NEW m, Healthy(m), m.capacity <= MaxCapacity
  PROVE  LET u == Cleared(m)
         IN  /\ Healthy(u) /\ Entries(u) = {}
             /\ u.capacity = m.capacity /\ u.length = 0 /\ u.tombs = 0
             /\ DestroyedByClear(m) = {b.item : b \in Entries(m)}
<1> DEFINE S == {i \in 0 .. m.capacity : ClearedUpTo(m, i, Clearing(m)[i])}
           u == Cleared(m)
<1>1. m.capacity \in Nat /\ m.capacity > 0 /\ Slots(m) = 0 .. m.capacity - 1
  BY WellTypedFields DEF Healthy, Slots
<1>2. 0 \in S
  <2>1. ClearedUpTo(m, 0, m)
    BY <1>1 DEF ClearedUpTo, Healthy, WellTyped
  <2> QED
    BY <1>1, <2>1, ClearingLoop
<1>3. ASSUME NEW i \in 1 .. m.capacity, i - 1 \in S PROVE i \in S
  <2>1. ClearedUpTo(m, i, ClearStep(Clearing(m)[i - 1], i - 1))
    BY <1>3, ClearsOne
  <2>2. Clearing(m)[i] = ClearStep(Clearing(m)[i - 1], i - 1)
    BY <1>1, ClearingLoop
  <2> QED
    BY <1>1, <2>1, <2>2
<1>4. ClearedUpTo(m, m.capacity, u)
  <2>1. 0 .. m.capacity \subseteq S
    <3> HIDE DEF S
    <3> QED
      BY <1>1, <1>2, <1>3, InductionUpTo
  <2> QED
    BY <1>1, <2>1 DEF Cleared
<1> HIDE DEF u
<1>5. Slots(u) = Slots(m) /\ \A j \in Slots(u) : u.buckets[j].state = "NULL"
  BY <1>1, <1>4 DEF ClearedUpTo, Slots
<1>6. Full(u) = {} /\ Tombs(u) = {}
  BY <1>5 DEF Full, Tombs, InState
<1>7. u.length = 0 /\ u.tombs = 0
  BY <1>4, <1>6, FS_EmptySet DEF ClearedUpTo, Counted
<1>8. Healthy(u) /\ Entries(u) = {}
  BY <1>1, <1>4, <1>6 DEF ClearedUpTo, Healthy, WellTyped, EntriesTyped, Reached, KeysDiffer, Entries
<1>9. DestroyedByClear(m) = {b.item : b \in Entries(m)}
  BY <1>6 DEF DestroyedByClear, Entries, Full, u
<1> QED
  BY <1>4, <1>7, <1>8, <1>9 DEF u, ClearedUpTo

-----------------------------------------------------------------------------
\* The steps of the tidy client, as changes of the entries.

LEMMA NoMapEmpty == Full(NoMap) = {} /\ Tombs(NoMap) = {} /\ Entries(NoMap) = {} /\ NoMap.capacity = 0
BY DEF NoMap, Full, Tombs, InState, Slots, Entries

LEMMA MapHealthy ==
  ASSUME IInv, map # NoMap
  PROVE  /\ Healthy(map) /\ map.capacity >= 4 /\ map.capacity <= MaxCapacity
         /\ map.capacity \in Nat /\ map.length \in Nat /\ map.tombs \in Nat
         /\ map.length + map.tombs < map.capacity
<1>1. Healthy(map) /\ map.capacity >= 4 /\ map.capacity <= MaxCapacity
  BY DEF IInv
<1> QED
  BY <1>1, WellTypedFields DEF Healthy, Room

LEMMA KeysOfEntries ==
  ASSUME NEW m, Healthy(m)
  PROVE  /\ \A b \in Entries(m) : b.key \in Key /\ b.item \in Item
         /\ \A a, b \in Entries(m) : a.key = b.key => a = b
BY DEF Entries, Healthy, WellTyped, EntriesTyped, KeysDiffer

\* The rehash of map_set makes room for one more entry, and so does its absence.
LEMMA Checks ==
  ASSUME IInv, map # NoMap
  PROVE  LET m == Checked(map)
         IN  /\ Healthy(m) /\ Entries(m) = Entries(map) /\ m.capacity >= 4
             /\ NeedsRehash(map) \/ map.tombs = 0 => m.tombs = 0 /\ m.length + 1 < m.capacity
             /\ DestroyedByCheck(map) = {}
<1>1. /\ Healthy(map) /\ map.capacity >= 4 /\ map.capacity <= MaxCapacity
      /\ map.capacity \in Nat /\ map.length \in Nat /\ map.tombs \in Nat
      /\ map.length + map.tombs < map.capacity
  BY MapHealthy
<1>2. CASE NeedsRehash(map)
  <2> DEFINE n == 2 * map.capacity
             m == Rehashed(map, n)
  <2>1. n \in Nat /\ n >= map.capacity /\ n >= 4 /\ map.length + 1 < n
    BY <1>1
  <2> HIDE DEF n
  <2>2. /\ Healthy(m) /\ Entries(m) = Entries(map)
        /\ m.capacity = n /\ m.length = map.length /\ m.tombs = 0
        /\ DestroyedByRehash(map, n) = {}
    BY <1>1, <2>1, Rehashes
  <2>3. Checked(map) = m /\ DestroyedByCheck(map) = DestroyedByRehash(map, n)
    BY <1>2 DEF Checked, DestroyedByCheck, n
  <2> HIDE DEF m
  <2> QED
    BY <2>1, <2>2, <2>3
<1>3. CASE ~NeedsRehash(map)
  <2>1. (map.length + map.tombs) % Word = map.length + map.tombs
    <3>1. map.length + map.tombs \in Nat /\ map.length + map.tombs < Word /\ Word \in Nat
      BY <1>1, MapAssumption
    <3> QED
      BY <3>1, SmallMod
  <2>2. 4 * (map.length + map.tombs) < 3 * map.capacity
    BY <1>1, <1>3, <2>1 DEF NeedsRehash
  <2>3. map.tombs = 0 => map.length + 1 < map.capacity
    BY <1>1, <2>2
  <2> QED
    BY <1>1, <1>3, <2>3 DEF Checked, DestroyedByCheck
<1> QED
  BY <1>2, <1>3

Entry(k, x) == [state |-> "FULL", hash |-> Hash[k], key |-> k, item |-> x]

\* map_set takes the place of the entry of the key, or adds one.
LEMMA SetEntries ==
  ASSUME IInv, NEW k \in Key, NEW x \in Item, map # NoMap, Tidy(k), Set(k, x)
  PROVE  LET old == {b \in Entries(map) : b.key = k}
         IN  /\ Healthy(map') /\ map'.capacity >= 4 /\ map'.capacity <= MaxCapacity
             /\ Entries(map') = (Entries(map) \ old) \cup {Entry(k, x)}
             /\ held' = (held \ {b.item : b \in old}) \cup {x} /\ x \notin held
<1> DEFINE m == Checked(map)
           old == {b \in Entries(map) : b.key = k}
<1>1. /\ Healthy(m) /\ Entries(m) = Entries(map) /\ m.capacity >= 4
      /\ NeedsRehash(map) \/ map.tombs = 0 => m.tombs = 0 /\ m.length + 1 < m.capacity
      /\ DestroyedByCheck(map) = {}
  BY Checks
<1>2. /\ m.capacity <= MaxCapacity /\ map' = Stored(m, k, x) /\ x \notin held
      /\ held' = (held \ DestroyedBy(m, k, Hash[k])) \cup {x}
  BY <1>1 DEF Set
<1> HIDE DEF m
<1>3. CASE old = {}
  <2>1. \A b \in Entries(map) : b.key # k
    BY <1>3
  <2>2. Get(map, k) = Nothing
    BY <2>1, MapHealthy, Gets
  <2>3. m.tombs = 0 /\ m.length + 1 < m.capacity
    BY <1>1, <2>2 DEF Tidy
  <2>4. /\ Healthy(map') /\ map'.capacity = m.capacity
        /\ Entries(map') = Entries(m) \cup {Entry(k, x)}
        /\ DestroyedBy(m, k, Hash[k]) = {}
    BY <1>1, <1>2, <2>1, <2>3, StoresNew DEF Entry
  <2> QED
    BY <1>1, <1>2, <1>3, <2>4
<1>4. CASE old # {}
  <2>1. PICK i \in Full(m) : m.buckets[i] \in old
    BY <1>1, <1>4 DEF Entries
  <2>2. m.buckets[i].key = k /\ old = {m.buckets[i]}
    BY <1>1, <2>1, KeysOfEntries
  <2>3. /\ Healthy(map') /\ map'.capacity = m.capacity
        /\ Entries(map') = (Entries(m) \ {m.buckets[i]}) \cup {Entry(k, x)}
        /\ DestroyedBy(m, k, Hash[k]) = {m.buckets[i].item}
    BY <1>1, <1>2, <2>2, StoresOver DEF Entry
  <2> HIDE DEF old
  <2>4. {b.item : b \in old} = {m.buckets[i].item}
    BY <2>2
  <2> QED
    BY <1>1, <1>2, <2>2, <2>3, <2>4 DEF old
<1> QED
  BY <1>3, <1>4

\* _map_del takes the entry of the key.
LEMMA DelEntries ==
  ASSUME IInv, NEW k \in Key, Del(k)
  PROVE  /\ Healthy(map') /\ map'.capacity = map.capacity
         /\ \E b \in Entries(map) : /\ b.key = k /\ held' = held \ {b.item}
                                    /\ Entries(map') = Entries(map) \ {b}
<1> DEFINE i == FindBucket(map, k, Hash[k])
<1>1. Healthy(map) /\ map.capacity <= MaxCapacity
  BY MapHealthy DEF Del
<1>2. /\ map.buckets[i].state = "FULL" /\ map' = Tombed(map, i)
      /\ held' = held \ {map.buckets[i].item}
  BY DEF Del, Tombed
<1>3. i \in Slots(map) /\ map.buckets[i].key = k
  BY <1>1, <1>2, Finds DEF Matches, Healthy
<1> HIDE DEF i
<1>4. i \in Full(map) /\ map.buckets[i] \in Entries(map)
  BY <1>2, <1>3 DEF Full, InState, Entries
<1>5. /\ Healthy(map') /\ map'.capacity = map.capacity
      /\ Entries(map') = Entries(map) \ {map.buckets[i]}
  BY <1>1, <1>2, <1>4, Deletes
<1> QED
  BY <1>2, <1>3, <1>4, <1>5

LEMMA RehashEntries ==
  ASSUME IInv, NEW n \in Nat, n <= MaxCapacity, Rehash(n)
  PROVE  /\ Healthy(map') /\ Entries(map') = Entries(map) /\ held' = held
         /\ map'.capacity >= 4 /\ map'.capacity <= MaxCapacity
<1> DEFINE c == IF n = 0 THEN map.capacity ELSE n
<1>1. Healthy(map) /\ map.capacity >= 4 /\ map.capacity <= MaxCapacity /\ map.capacity \in Nat
  BY MapHealthy DEF Rehash
<1>2. c \in Nat /\ c >= map.capacity /\ c >= 4 /\ c <= MaxCapacity
  BY <1>1, MapAssumption DEF Rehash
<1>3. map' = Rehashed(map, c) /\ held' = held \ DestroyedByRehash(map, c)
  BY DEF Rehash
<1> HIDE DEF c
<1>4. /\ Healthy(map') /\ Entries(map') = Entries(map) /\ map'.capacity = c
      /\ held' = held
  BY <1>1, <1>2, <1>3, Rehashes
<1> QED
  BY <1>2, <1>3, <1>4

LEMMA ClearEntries ==
  ASSUME IInv, Clear
  PROVE  /\ Healthy(map') /\ Entries(map') = {} /\ held' = {} /\ map'.capacity = map.capacity
         /\ map'.length = 0 /\ map'.tombs = 0
<1>1. Healthy(map) /\ map.capacity <= MaxCapacity
  BY MapHealthy DEF Clear
<1>2. map' = Cleared(map) /\ held' = held \ DestroyedByClear(map)
  BY DEF Clear
<1>3. /\ Healthy(map') /\ Entries(map') = {}
      /\ map'.capacity = map.capacity /\ map'.length = 0 /\ map'.tombs = 0
      /\ DestroyedByClear(map) = {b.item : b \in Entries(map)}
  BY <1>1, <1>2, Clears
<1> QED
  BY <1>2, <1>3 DEF IInv

LEMMA DestroyEntries ==
  ASSUME IInv, Destroy
  PROVE  map' = NoMap /\ Entries(map') = {} /\ held' = {}
<1>1. Healthy(map) /\ map.capacity <= MaxCapacity
  BY MapHealthy DEF Destroy
<1>2. map' = NoMap /\ held' = held \ DestroyedByClear(map)
  BY DEF Destroy
<1>3. DestroyedByClear(map) = {b.item : b \in Entries(map)}
  BY <1>1, Clears
<1> QED
  BY <1>2, <1>3, NoMapEmpty DEF IInv

LEMMA CreateEntries ==
  ASSUME IInv, Create
  PROVE  /\ Healthy(map') /\ Entries(map') = {} /\ Entries(map) = {} /\ held' = held
         /\ map'.capacity >= 4 /\ map'.capacity <= MaxCapacity
<1>1. InitCapacity \in Nat /\ InitCapacity > 0 /\ InitCapacity >= 4 /\ InitCapacity <= MaxCapacity
  BY CapacityAssumption, MapAssumption
<1>2. map' = Allocated(InitCapacity) /\ map = NoMap /\ held' = held
  BY DEF Create
<1>3. Healthy(map') /\ Entries(map') = {} /\ map'.capacity = InitCapacity
  BY <1>1, <1>2, AllocatedHealthy
<1> QED
  BY <1>1, <1>2, <1>3, NoMapEmpty

\* A reserve is a rehash.
LEMMA ReserveRehashes ==
  ASSUME NEW n \in 0 .. MaxCapacity, (4 * n + 2) \div 3 <= MaxCapacity, Reserve(n)
  PROVE  \E j \in Nat : j <= MaxCapacity /\ Rehash(j)
<1>1. (4 * n + 2) \div 3 \in Nat
  BY MapAssumption
<1> QED
  BY <1>1 DEF Reserve

-----------------------------------------------------------------------------
\* IInv is inductive.

LEMMA EntriesPrime == Entries(map)' = Entries(map')
BY DEF Entries, Full, InState, Slots

LEMMA IInvPrime ==
  ASSUME \/ map' = NoMap
         \/ Healthy(map') /\ map'.capacity >= 4 /\ map'.capacity <= MaxCapacity,
         held' = {b.item : b \in Entries(map')},
         \A a, b \in Entries(map') : a.item = b.item => a = b
  PROVE  IInv'
<1>1. Healthy(map)' = Healthy(map')
  BY DEF Healthy, WellTyped, MapOf, EntriesTyped, Reached, ReachedIn, KeysDiffer,
         Counted, Room, Full, Tombs, InState, Slots, Probe
<1>2. NoMap' = NoMap
  BY DEF NoMap
<1> QED
  BY <1>1, <1>2, EntriesPrime DEF IInv

LEMMA InitIInv == Init => IInv
BY NoMapEmpty DEF Init, IInv

LEMMA SetKeeps ==
  ASSUME IInv, NEW k \in Key, NEW x \in Item, map # NoMap, Tidy(k), Set(k, x)
  PROVE  IInv'
<1> DEFINE N == Entries(map)
           old == {b \in N : b.key = k}
           new == Entry(k, x)
           M == Entries(map')
<1>1. /\ Healthy(map') /\ map'.capacity >= 4 /\ map'.capacity <= MaxCapacity
      /\ M = (N \ old) \cup {new}
      /\ held' = (held \ {b.item : b \in old}) \cup {x} /\ x \notin held
  BY SetEntries
<1>2. held = {b.item : b \in N} /\ \A a, b \in N : a.item = b.item => a = b
  BY DEF IInv
<1>3. new.item = x
  BY DEF Entry
<1> HIDE DEF N, M, new
<1>4. held' = {b.item : b \in M}
  BY <1>1, <1>2, <1>3
<1>5. \A a, b \in M : a.item = b.item => a = b
  BY <1>1, <1>2, <1>3
<1> QED
  BY <1>1, <1>4, <1>5, IInvPrime DEF M

LEMMA DelKeeps ==
  ASSUME IInv, NEW k \in Key, Del(k)
  PROVE  IInv'
<1> DEFINE N == Entries(map)
           M == Entries(map')
<1>1. Healthy(map') /\ map'.capacity = map.capacity
  BY DelEntries
<1>2. PICK b \in N : b.key = k /\ held' = held \ {b.item} /\ M = N \ {b}
  BY DelEntries
<1>3. held = {a.item : a \in N} /\ \A a, c \in N : a.item = c.item => a = c
  BY DEF IInv
<1>4. map.capacity >= 4 /\ map.capacity <= MaxCapacity
  BY MapHealthy DEF Del
<1> HIDE DEF N, M
<1>5. held' = {a.item : a \in M}
  BY <1>2, <1>3
<1>6. \A a, c \in M : a.item = c.item => a = c
  BY <1>2, <1>3
<1> QED
  BY <1>1, <1>4, <1>5, <1>6, IInvPrime DEF M

LEMMA RehashKeeps ==
  ASSUME IInv, NEW n \in Nat, n <= MaxCapacity, Rehash(n)
  PROVE  IInv'
BY RehashEntries, IInvPrime DEF IInv

LEMMA NextIInv == ASSUME IInv, [TidyNext]_vars PROVE IInv'
<1>1. CASE Create
  BY <1>1, CreateEntries, IInvPrime DEF IInv
<1>2. ASSUME NEW k \in Key, Del(k) PROVE IInv'
  BY <1>2, DelKeeps
<1>3. ASSUME NEW n \in 0 .. MaxCapacity, Rehash(n) PROVE IInv'
  BY <1>3, RehashKeeps, MapAssumption
<1>4. ASSUME NEW n \in 0 .. MaxCapacity, (4 * n + 2) \div 3 <= MaxCapacity, Reserve(n) PROVE IInv'
  BY <1>4, ReserveRehashes, RehashKeeps
<1>5. CASE Clear
  <2>1. map.capacity >= 4 /\ map.capacity <= MaxCapacity
    BY <1>5, MapHealthy DEF Clear
  <2> QED
    BY <1>5, <2>1, ClearEntries, IInvPrime
<1>6. CASE Destroy
  BY <1>6, DestroyEntries, IInvPrime
<1>7. ASSUME NEW k \in Key, NEW x \in Item, map # NoMap, Tidy(k), Set(k, x) PROVE IInv'
  BY <1>7, SetKeeps
<1>8. CASE UNCHANGED vars
  BY <1>8, IInvPrime DEF vars, IInv
<1> QED
  BY <1>1, <1>2, <1>3, <1>4, <1>5, <1>6, <1>7, <1>8 DEF TidyNext, Maintain

-----------------------------------------------------------------------------
\* The steps are those of a dictionary that owns its items.

ContentsOf(m) == IF m = NoMap THEN [k \in Key |-> Nothing] ELSE [k \in Key |-> Get(m, k)]

LEMMA ContentsOfEntries ==
  ASSUME NEW m, m = NoMap \/ Healthy(m), NEW k \in Key
  PROVE  /\ \A b \in Entries(m) : b.key = k => ContentsOf(m)[k] = b.item
         /\ (\A b \in Entries(m) : b.key # k) => ContentsOf(m)[k] = Nothing
<1>1. CASE m = NoMap
  BY <1>1, NoMapEmpty DEF ContentsOf
<1>2. CASE m # NoMap
  <2>1. ContentsOf(m)[k] = Get(m, k)
    BY <1>2 DEF ContentsOf
  <2> QED
    BY <1>2, <2>1, Gets
<1> QED
  BY <1>1, <1>2

LEMMA ContentsAre == Contents = ContentsOf(map) /\ Contents' = ContentsOf(map')
<1>1. \A k : Get(map, k)' = Get(map', k)
  BY DEF Get, FindBucket, StopDistance, StopDistances, Probe, Matches, Slots, Min
<1>2. NoMap' = NoMap
  BY DEF NoMap
<1> QED
  BY <1>1, <1>2 DEF Contents, ContentsOf

LEMMA SameEntriesSameContents ==
  ASSUME NEW m, NEW n, m = NoMap \/ Healthy(m), n = NoMap \/ Healthy(n), Entries(m) = Entries(n)
  PROVE  ContentsOf(m) = ContentsOf(n)
<1>1. ASSUME NEW k \in Key PROVE ContentsOf(m)[k] = ContentsOf(n)[k]
  <2>1. CASE \E b \in Entries(m) : b.key = k
    BY <2>1, ContentsOfEntries
  <2>2. CASE \A b \in Entries(m) : b.key # k
    BY <2>2, ContentsOfEntries
  <2> QED
    BY <2>1, <2>2
<1>2. ContentsOf(m) = [k \in Key |-> ContentsOf(m)[k]] /\ ContentsOf(n) = [k \in Key |-> ContentsOf(n)[k]]
  BY DEF ContentsOf
<1> QED
  BY <1>1, <1>2

LEMMA SetRefines ==
  ASSUME IInv, NEW k \in Key, NEW x \in Item, map # NoMap, Tidy(k), Set(k, x)
  PROVE  Dictionary!Put(k, x)
<1> DEFINE N == Entries(map)
           M == Entries(map')
           old == {b \in N : b.key = k}
<1>1. /\ Healthy(map') /\ M = (N \ old) \cup {Entry(k, x)}
      /\ held' = (held \ {b.item : b \in old}) \cup {x} /\ x \notin held
  BY SetEntries
<1>2. Healthy(map) /\ held = {b.item : b \in N}
  BY DEF IInv
<1>3. Entry(k, x).key = k /\ Entry(k, x).item = x
  BY DEF Entry
<1>4. ASSUME NEW j \in Key PROVE ContentsOf(map')[j] = IF j = k THEN x ELSE ContentsOf(map)[j]
  <2>1. CASE j = k
    <3>1. Entry(k, x) \in M
      BY <1>1
    <3> QED
      BY <1>1, <1>3, <2>1, <3>1, ContentsOfEntries
  <2>2. ASSUME j # k, NEW b \in N, b.key = j PROVE ContentsOf(map')[j] = ContentsOf(map)[j]
    <3>1. b \in M
      BY <1>1, <2>2
    <3> QED
      BY <1>1, <1>2, <2>2, <3>1, ContentsOfEntries
  <2>3. CASE j # k /\ \A b \in N : b.key # j
    <3>1. \A b \in M : b.key # j
      BY <1>1, <1>3, <2>3
    <3> QED
      BY <1>1, <1>2, <2>3, <3>1, ContentsOfEntries
  <2> QED
    BY <2>1, <2>2, <2>3
<1>5. Contents' = [Contents EXCEPT ![k] = x]
  <2>1. Contents = [j \in Key |-> ContentsOf(map)[j]] /\ Contents' = [j \in Key |-> ContentsOf(map')[j]]
    BY ContentsAre DEF ContentsOf
  <2> QED
    BY <1>4, <2>1
<1>6. held \ {b.item : b \in old} = held \ {Contents[k]}
  <2>1. CASE old = {}
    <3>1. Contents[k] = Nothing
      BY <1>2, <2>1, ContentsAre, ContentsOfEntries
    <3>2. Nothing \notin held
      BY <1>2, KeysOfEntries, MapAssumption
    <3> QED
      BY <2>1, <3>1, <3>2
  <2>2. CASE old # {}
    <3>1. PICK b \in N : b.key = k
      BY <2>2
    <3>2. old = {b}
      BY <1>2, <3>1, KeysOfEntries
    <3>3. Contents[k] = b.item
      BY <1>2, <3>1, ContentsAre, ContentsOfEntries
    <3> QED
      BY <3>2, <3>3
  <2> QED
    BY <2>1, <2>2
<1> QED
  BY <1>1, <1>5, <1>6 DEF Dictionary!Put

LEMMA DelRefines ==
  ASSUME IInv, NEW k \in Key, Del(k)
  PROVE  Dictionary!Delete(k)
<1> DEFINE N == Entries(map)
           M == Entries(map')
<1>1. Healthy(map) /\ Healthy(map')
  BY MapHealthy, DelEntries DEF Del
<1>2. PICK b \in N : b.key = k /\ held' = held \ {b.item} /\ M = N \ {b}
  BY DelEntries
<1>3. \A a \in N : a.key = k => a = b
  BY <1>1, <1>2, KeysOfEntries
<1>4. ASSUME NEW j \in Key PROVE ContentsOf(map')[j] = IF j = k THEN Nothing ELSE ContentsOf(map)[j]
  <2>1. CASE j = k
    <3>1. \A a \in M : a.key # k
      BY <1>2, <1>3
    <3> QED
      BY <1>1, <2>1, <3>1, ContentsOfEntries
  <2>2. ASSUME j # k, NEW a \in N, a.key = j PROVE ContentsOf(map')[j] = ContentsOf(map)[j]
    <3>1. a \in M
      BY <1>2, <2>2
    <3> QED
      BY <1>1, <2>2, <3>1, ContentsOfEntries
  <2>3. CASE j # k /\ \A a \in N : a.key # j
    <3>1. \A a \in M : a.key # j
      BY <1>2, <2>3
    <3> QED
      BY <1>1, <2>3, <3>1, ContentsOfEntries
  <2> QED
    BY <2>1, <2>2, <2>3
<1>5. Contents' = [Contents EXCEPT ![k] = Nothing]
  <2>1. Contents = [j \in Key |-> ContentsOf(map)[j]] /\ Contents' = [j \in Key |-> ContentsOf(map')[j]]
    BY ContentsAre DEF ContentsOf
  <2> QED
    BY <1>4, <2>1
<1>6. Contents[k] = b.item
  BY <1>1, <1>2, ContentsAre, ContentsOfEntries
<1>7. b.item # Nothing
  BY <1>1, <1>2, KeysOfEntries, MapAssumption
<1> QED
  BY <1>2, <1>5, <1>6, <1>7 DEF Dictionary!Delete

\* A step that leaves the entries and the items alone is a stutter, and one
\* that leaves none of either is a DeleteAll.
LEMMA StutterRefines ==
  ASSUME IInv, map' = NoMap \/ Healthy(map'), Entries(map') = Entries(map), held' = held
  PROVE  UNCHANGED Dictionary!vars
<1>1. map = NoMap \/ Healthy(map)
  BY DEF IInv
<1>2. ContentsOf(map') = ContentsOf(map)
  BY <1>1, SameEntriesSameContents
<1> QED
  BY <1>2, ContentsAre DEF Dictionary!vars

LEMMA DeleteAllRefines ==
  ASSUME map' = NoMap \/ Healthy(map'), Entries(map') = {}, held' = {}
  PROVE  Dictionary!DeleteAll
<1>1. \A k \in Key : ContentsOf(map')[k] = Nothing
  BY ContentsOfEntries
<1>2. Contents' = Dictionary!Empty
  BY <1>1, ContentsAre DEF ContentsOf, Dictionary!Empty
<1> QED
  BY <1>2 DEF Dictionary!DeleteAll

LEMMA InitRefines == Init => Dictionary!Init
BY DEF Init, Dictionary!Init, Dictionary!Empty, Contents

LEMMA StepRefines ==
  ASSUME IInv, [TidyNext]_vars
  PROVE  [Dictionary!Next]_(Dictionary!vars)
<1>1. CASE Create
  BY <1>1, CreateEntries, StutterRefines
<1>2. ASSUME NEW k \in Key, Del(k) PROVE Dictionary!Next
  BY <1>2, DelRefines DEF Dictionary!Next
<1>3. ASSUME NEW n \in Nat, n <= MaxCapacity, Rehash(n) PROVE UNCHANGED Dictionary!vars
  BY <1>3, RehashEntries, StutterRefines
<1>4. ASSUME NEW n \in 0 .. MaxCapacity, Rehash(n) PROVE UNCHANGED Dictionary!vars
  BY <1>3, <1>4, MapAssumption
<1>5. ASSUME NEW n \in 0 .. MaxCapacity, (4 * n + 2) \div 3 <= MaxCapacity, Reserve(n)
      PROVE  UNCHANGED Dictionary!vars
  BY <1>3, <1>5, ReserveRehashes
<1>6. CASE Clear
  BY <1>6, ClearEntries, DeleteAllRefines DEF Dictionary!Next
<1>7. CASE Destroy
  BY <1>7, DestroyEntries, DeleteAllRefines DEF Dictionary!Next
<1>8. ASSUME NEW k \in Key, NEW x \in Item, map # NoMap, Tidy(k), Set(k, x) PROVE Dictionary!Next
  BY <1>8, SetRefines DEF Dictionary!Next
<1>9. CASE UNCHANGED vars
  BY <1>9, ContentsAre DEF vars, Dictionary!vars
<1> QED
  BY <1>1, <1>2, <1>4, <1>5, <1>6, <1>7, <1>8, <1>9 DEF TidyNext, Maintain

-----------------------------------------------------------------------------
\* IInv holds in every state of a tidy client's map.
THEOREM Inductive == TidySpec => []IInv
<1>1. IInv /\ [TidyNext]_vars => IInv'
  BY NextIInv
<1> QED
  BY <1>1, InitIInv, PTL DEF TidySpec

\* length and tombs are the numbers of FULL and of TOMB buckets, through every
\* growth, deletion and clear (map.h:93, 110-112, 246-249).
THEOREM CountersStayExact == TidySpec => []CountersExact
<1>1. ASSUME IInv PROVE CountersExact
  <2>1. CASE map = NoMap
    <3>1. NoMap.length = 0 /\ NoMap.tombs = 0
      BY DEF NoMap
    <3> QED
      BY <2>1, <3>1, NoMapEmpty, FS_EmptySet DEF CountersExact, Full, Tombs
  <2>2. CASE map # NoMap
    BY <1>1, <2>2, MapHealthy DEF Healthy, Counted, CountersExact, Full, Tombs
  <2> QED
    BY <2>1, <2>2
<1> QED
  BY <1>1, Inductive, PTL

\* The loop of _map_findbucket ends, for a key that is there and one that is
\* not, whatever was put in and deleted before (map.h:225).
THEOREM ProbesEnd == TidySpec => []EveryProbeEnds
<1>1. ASSUME IInv PROVE EveryProbeEnds
  BY <1>1, MapHealthy, Finds DEF EveryProbeEnds, Healthy
<1> QED
  BY <1>1, Inductive, PTL

\* Every key that is in a bucket is found there.
THEOREM EntriesStayFound == TidySpec => []EntriesAreFound
<1>1. ASSUME IInv PROVE EntriesAreFound
  <2>1. CASE map = NoMap
    BY <2>1, NoMapEmpty DEF EntriesAreFound, Full
  <2>2. CASE map # NoMap
    BY <1>1, <2>2, MapHealthy, FindsEntry DEF EntriesAreFound, Full
  <2> QED
    BY <2>1, <2>2
<1> QED
  BY <1>1, Inductive, PTL

\* map_clear walks to the last entry and the last tomb: the assertions at its
\* end hold (map.h:194-195).
THEOREM ClearEmpties == TidySpec => ClearEndsAtZero
<1>1. IInv /\ [TidyNext]_vars => [Clear => map'.length = 0 /\ map'.tombs = 0]_vars
  BY ClearEntries
<1> QED
  BY <1>1, Inductive, PTL DEF TidySpec, ClearEndsAtZero

\* The map answers with the item that was set last, and releases each item
\* once, through replacements, deletions, rehashes and clears.
THEOREM Refinement == TidySpec => ImplementsOwningMap
<1>1. IInv /\ [TidyNext]_vars => [Dictionary!Next]_(Dictionary!vars)
  BY StepRefines
<1> QED
  BY <1>1, Inductive, InitRefines, PTL DEF TidySpec, ImplementsOwningMap, Dictionary!Spec
=============================================================================
