--------------------------------- MODULE Map ---------------------------------
(***************************************************************************)
(* The open-addressing map of C/map.h, with an item destructor set by      *)
(* map_setitemdel.  An item is what the destructor releases; the model     *)
(* keeps the set of items the map was given and did not release.  The      *)
(* _map_get, _map_set and _map_del functions are those MapItem generates.  *)
(***************************************************************************)
EXTENDS Integers, FiniteSets, FiniteSetsExt

CONSTANTS Key,
          Hash,          \* Key -> hdr->hash(key)
          ZeroKey,       \* the key field of a zero-filled bucket, maybe a Key
          Item,
          ZeroItem,      \* the value field of a zero-filled bucket
          Nothing,       \* _map_get returned NULL
          InitCapacity,  \* the n of map_create_n
          Word,          \* the number of values of a uintptr_t
          MaxCapacity    \* bound: no map grows beyond this capacity

\* With three buckets or fewer, 3/4 of the capacity is not reached before the
\* map is full, and a lookup of an absent key then never ends.
ASSUME CapacityAssumption == InitCapacity \in Nat /\ InitCapacity >= 4
ASSUME MapAssumption == /\ Hash \in [Key -> Nat]
                        /\ ZeroItem \notin Item /\ Nothing \notin Item
                        /\ InitCapacity <= MaxCapacity /\ MaxCapacity \in Nat
                        /\ Word > 2 * MaxCapacity /\ Word \in Nat

VARIABLES map,    \* the MapHeader with its buckets, or NoMap
          held    \* the items put in and not released

vars == <<map, held>>

NoMap == [capacity |-> 0, length |-> 0, tombs |-> 0, buckets |-> <<>>]

ZeroBucket == [state |-> "NULL", hash |-> 0, key |-> ZeroKey, item |-> ZeroItem]

\* _map_alloc_n, with the allocator that zero-fills.
Allocated(n) == [capacity |-> n, length |-> 0, tombs |-> 0,
                 buckets |-> [i \in 0 .. n - 1 |-> ZeroBucket]]

Slots(m) == 0 .. m.capacity - 1
InState(m, st) == {i \in Slots(m) : m.buckets[i].state = st}

\* --n of a uintptr_t
Dec(n) == (n - 1) % Word

-----------------------------------------------------------------------------
\* _map_findbucket.  h is hdr->hash(key), which a bucket keeps.

\* The bucket d steps along: idx starts at h % capacity and _map_defaultprobe
\* steps to (idx + 1) % capacity.
Probe(m, h, d) == LET i == (h % m.capacity) + d
                  IN  IF i < m.capacity THEN i ELSE i - m.capacity

Matches(m, k, h, i) == /\ m.buckets[i].state = "FULL"
                       /\ m.buckets[i].hash = h
                       /\ m.buckets[i].key = k

\* Reading or writing, the loop ends at a match or at a NULL bucket.
StopDistances(m, k, h) ==
  {d \in Slots(m) : LET i == Probe(m, h, d)
                    IN  Matches(m, k, h, i) \/ m.buckets[i].state = "NULL"}
StopDistance(m, k, h) == Min(StopDistances(m, k, h))
FindBucket(m, k, h) == Probe(m, h, StopDistance(m, k, h))

\* The distances of the tombs that a write passes.
TombsPassed(m, k, h) == {d \in 0 .. StopDistance(m, k, h) - 1 :
                           m.buckets[Probe(m, h, d)].state = "TOMB"}

\* In write mode it destroys the item that is about to be replaced.
DestroyedBy(m, k, h) == LET b == m.buckets[FindBucket(m, k, h)]
                        IN  IF b.state = "FULL" THEN {b.item} ELSE {}

\* The bucket that a write returns, and the map it returns it in: the NULL
\* bucket becomes FULL even when a tomb is the one returned.
Writable(m, k, h) == LET T == TombsPassed(m, k, h)
                     IN  IF DestroyedBy(m, k, h) = {} /\ T # {}
                         THEN Probe(m, h, Min(T)) ELSE FindBucket(m, k, h)
ClaimedUncounted(m, k, h) == [m EXCEPT !.buckets[FindBucket(m, k, h)].state = "FULL",
                                       !.buckets[FindBucket(m, k, h)].hash = h]
Claimed(m, k, h) ==
  LET i == FindBucket(m, k, h)
  IN  IF m.buckets[i].state = "FULL" THEN m
      ELSE [m EXCEPT !.tombs = IF TombsPassed(m, k, h) # {} THEN Dec(@) ELSE @,
                     !.length = IF TombsPassed(m, k, h) = {} THEN @ + 1 ELSE @,
                     !.buckets[i].hash = h,
                     !.buckets[i].state = "FULL"]

\* _map_set after its check for a rehash: the item goes into the bucket.
Stored(m, k, x) == LET i == Writable(m, k, Hash[k])
                   IN  [Claimed(m, k, Hash[k]) EXCEPT !.buckets[i].key = k,
                                                      !.buckets[i].item = x]

\* _map_getbucket and _map_get
Get(m, k) == LET b == m.buckets[FindBucket(m, k, Hash[k])]
             IN  IF b.state = "FULL" THEN b.item ELSE Nothing

-----------------------------------------------------------------------------
\* _map_rehash: the first `length' FULL buckets, in slot order, are written
\* into a zero-filled map.  Their hashes are computed again.  CopiedTo(m, n)[i]
\* is the new map when the loop has passed i buckets.
CopyStep(m, new, i) ==
  LET b == m.buckets[i]
      j == Writable(new, b.key, Hash[b.key])
  IN  [Claimed(new, b.key, Hash[b.key]) EXCEPT !.buckets[j] = b]
IsCopied(m, i) == /\ m.buckets[i].state = "FULL"
                  /\ Cardinality({j \in InState(m, "FULL") : j < i}) < m.length
CopiedTo(m, n) ==
  LET new[i \in 0 .. m.capacity] ==
        IF i = 0 THEN Allocated(n)
        ELSE IF IsCopied(m, i - 1) THEN CopyStep(m, new[i - 1], i - 1) ELSE new[i - 1]
  IN  new
RehashedInPlace(m, n) ==
  [Allocated(n) EXCEPT !.length = m.length,
     !.buckets = [j \in 0 .. n - 1 |->
                    IF j \in InState(m, "FULL") THEN m.buckets[j] ELSE ZeroBucket]]
Rehashed(m, n) == CopiedTo(m, n)[m.capacity]

\* The buckets are found in write mode: a key that was copied before loses the
\* item it had in the new map.
DestroyedByRehash(m, n) ==
  UNION {DestroyedBy(CopiedTo(m, n)[i], m.buckets[i].key, Hash[m.buckets[i].key]) :
           i \in {j \in Slots(m) : IsCopied(m, j)}}

\* The loop counts FULL buckets down from length.  With fewer of them than
\* that it runs off the map.  A key of no client has no hash here.
RehashStaysInside(m) == /\ m.length <= Cardinality(InState(m, "FULL"))
                        /\ \A i \in InState(m, "FULL") : m.buckets[i].key \in Key

\* map_loadfactor >= map_max_loadfactor (0.75)
NeedsRehashWhenFull(m) == m.length = m.capacity
NeedsRehash(m) == 4 * ((m.length + m.tombs) % Word) >= 3 * m.capacity
Checked(m) == IF NeedsRehash(m) THEN Rehashed(m, 2 * m.capacity) ELSE m
DestroyedByCheck(m) == IF NeedsRehash(m) THEN DestroyedByRehash(m, 2 * m.capacity) ELSE {}

\* map_clear walks the buckets until both counters are 0: Clearing(m)[i] is the
\* map when it has passed i of them.
ClearStepUntilEmpty(m, i) ==
  LET st == m.buckets[i].state
  IN  IF m.length = 0 THEN m
      ELSE [m EXCEPT !.length = IF st = "FULL" THEN Dec(@) ELSE @,
                     !.tombs = IF st = "TOMB" THEN Dec(@) ELSE @,
                     !.buckets[i].state = "NULL"]
ClearStep(m, i) ==
  LET st == m.buckets[i].state
  IN  IF m.length = 0 /\ m.tombs = 0 THEN m
      ELSE [m EXCEPT !.length = IF st = "FULL" THEN Dec(@) ELSE @,
                     !.tombs = IF st = "TOMB" THEN Dec(@) ELSE @,
                     !.buckets[i].state = "NULL"]
Clearing(m) ==
  LET after[i \in 0 .. m.capacity] ==
        IF i = 0 THEN m ELSE ClearStep(after[i - 1], i - 1)
  IN  after
Cleared(m) == Clearing(m)[m.capacity]
DestroyedByClear(m) == {m.buckets[i].item : i \in InState(m, "FULL") \ InState(Cleared(m), "FULL")}

-----------------------------------------------------------------------------
Init == map = NoMap /\ held = {}

Create == /\ map = NoMap
          /\ map' = Allocated(InitCapacity)
          /\ UNCHANGED held

\* map_set with a fresh item.
Set(k, x) == /\ map # NoMap
             /\ x \notin held
             /\ NeedsRehash(map) => RehashStaysInside(map)
             /\ LET m == Checked(map)
                IN  /\ m.capacity <= MaxCapacity
                    /\ StopDistances(m, k, Hash[k]) # {}
                    /\ map' = Stored(m, k, x)
                    /\ held' = (held \ (DestroyedByCheck(map) \cup DestroyedBy(m, k, Hash[k])))
                                \cup {x}

\* _map_del of a key that is there.
DelKeepingItem(k) == /\ map # NoMap
                     /\ StopDistances(map, k, Hash[k]) # {}
                     /\ LET i == FindBucket(map, k, Hash[k])
                        IN  /\ map.buckets[i].state = "FULL"
                            /\ map' = [map EXCEPT !.buckets[i].state = "TOMB",
                                                  !.length = Dec(@), !.tombs = @ + 1]
                            /\ UNCHANGED held
Del(k) == /\ map # NoMap
          /\ StopDistances(map, k, Hash[k]) # {}
          /\ LET i == FindBucket(map, k, Hash[k])
             IN  /\ map.buckets[i].state = "FULL"
                 /\ map' = [map EXCEPT !.buckets[i].state = "TOMB",
                                       !.length = Dec(@), !.tombs = @ + 1]
                 /\ held' = held \ {map.buckets[i].item}

\* map_rehash to n buckets; 0 stands for the capacity the map has.
Rehash(n) == /\ map # NoMap
             /\ n = 0 \/ n > map.capacity
             /\ RehashStaysInside(map)
             /\ LET c == IF n = 0 THEN map.capacity ELSE n
                IN  /\ map' = Rehashed(map, c)
                    /\ held' = held \ DestroyedByRehash(map, c)

\* map_reserve for n items: ceil(n / 0.75) buckets.
Reserve(n) == Rehash((4 * n + 2) \div 3)

Clear == /\ map # NoMap
         /\ map' = Cleared(map)
         /\ held' = held \ DestroyedByClear(map)

\* map_destroy clears the map first, for its destructor.
Destroy == /\ map # NoMap
           /\ map' = NoMap
           /\ held' = held \ DestroyedByClear(map)

Maintain == \/ Create
            \/ \E k \in Key : Del(k)
            \/ \E n \in 0 .. MaxCapacity : Rehash(n)
            \/ \E n \in 0 .. MaxCapacity : (4 * n + 2) \div 3 <= MaxCapacity /\ Reserve(n)
            \/ Clear
            \/ Destroy

Next == Maintain \/ \E k \in Key, x \in Item : Set(k, x)

Spec == Init /\ [][Next]_vars

\* The client that adds no key while the map has tombs: it rehashes or clears
\* the map first, unless map_set is going to.
Tidy(k) == map.tombs = 0 \/ NeedsRehash(map) \/ Get(map, k) # Nothing

TidyNext == Maintain \/ \E k \in Key, x \in Item : map # NoMap /\ Tidy(k) /\ Set(k, x)

TidySpec == Init /\ [][TidyNext]_vars

-----------------------------------------------------------------------------
\* Properties of TidySpec.

\* length and tombs are the numbers of FULL and of TOMB buckets (map.h:93,
\* 110-112, 246-249), which map_loadfactor, the loop of _map_rehash and that
\* of map_clear rely on.
CountersExact == /\ map.length = Cardinality(InState(map, "FULL"))
                 /\ map.tombs = Cardinality(InState(map, "TOMB"))

\* The endless loop of _map_findbucket (map.h:225) ends for every key: there
\* is a NULL bucket.
EveryProbeEnds == map # NoMap => \A k \in Key : StopDistances(map, k, Hash[k]) # {}

\* A lookup of a key that is in a bucket ends there: no key is in two buckets
\* and no tomb or NULL bucket hides one, whatever order they came in.
EntriesAreFound == \A i \in InState(map, "FULL") :
                      LET k == map.buckets[i].key
                      IN  k \in Key /\ FindBucket(map, k, Hash[k]) = i

\* The map is a dictionary that owns its items: set, del, rehash, clear and
\* destroy change what get answers as they should, and the destructor runs
\* once for every item, when it leaves.
Contents == IF map = NoMap THEN [k \in Key |-> Nothing] ELSE [k \in Key |-> Get(map, k)]
Dictionary == INSTANCE OwningMap WITH entry <- Contents, owned <- held
ImplementsOwningMap == Dictionary!Spec

\* map.h:194-195, the assertions of map_clear: both counters end at 0.
ClearEndsAtZero == [][Clear => map'.length = 0 /\ map'.tombs = 0]_vars

\* map.h:243, "Use tomb if available": a new key goes into a FULL bucket that
\* was a tomb, if its probe passed one.
TombsAreUsed ==
  [][\A k \in Key, x \in Item :
        map # NoMap /\ ~NeedsRehash(map) /\ Get(map, k) = Nothing
          /\ TombsPassed(map, k, Hash[k]) # {} /\ Set(k, x)
        => LET i == Probe(map, Hash[k], Min(TombsPassed(map, k, Hash[k])))
           IN  map'.buckets[i].state = "FULL" /\ map'.buckets[i].key = k]_vars
=============================================================================
