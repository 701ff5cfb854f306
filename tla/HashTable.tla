------------------------------ MODULE HashTable ------------------------------
(***************************************************************************)
(* The open-addressing table that class HashDB keeps in its mapped hash    *)
(* file: a header (capacity, size, fill) followed by `capacity' kv_pairs.  *)
(* A table is a record; every member function that looks at or edits the   *)
(* mapping is an operator from tables to tables.  What a kv_pair stores as *)
(* its value is left open: HashDB stores the value itself, HashDBSplit the *)
(* region of the value file that holds it.                                 *)
(***************************************************************************)
EXTENDS Naturals, FiniteSets, FiniteSetsExt

CONSTANTS Key,
          Hash,           \* Key -> Nat, HashDB::hash
          NoKey,          \* the key field of a zero-filled kv_pair
          InitCapacity    \* DEFAULT_ITEMS_COUNT, 4096 in the code

\* With five slots or more, a table that is at most 3/4 full can take one
\* further entry and still have an empty slot; the code has 4096.
ASSUME HashAssumption == Hash \in [Key -> Nat]
ASSUME CapacityAssumption == InitCapacity \in Nat /\ InitCapacity >= 5

State == {"EMPTY", "TOMBSTONE", "FULL"}

Slots(t) == 0 .. t.capacity - 1

InState(t, st) == {i \in Slots(t) : t.pairs[i].state = st}
Live(t) == InState(t, "FULL")
Tombs(t) == InState(t, "TOMBSTONE")

\* A zero-filled kv_pair: STATE_EMPTY is 0.
ZeroPair(zero) == [state |-> "EMPTY", key |-> NoKey, value |-> zero]

\* A zero-filled file with the header that open() writes.
FreshTable(zero) == [capacity |-> InitCapacity, size |-> 0, fill |-> 0,
                     pairs |-> [i \in 0 .. InitCapacity - 1 |-> ZeroPair(zero)]]

-----------------------------------------------------------------------------
\* Lookup.

\* The slot d steps along the probe of k: get_entry starts at hash % capacity
\* and steps to (index + 1) % capacity.
Home(t, k) == Hash[k] % t.capacity
Probe(t, k, d) == LET i == Home(t, k) + d
                  IN  IF i < t.capacity THEN i ELSE i - t.capacity

\* get_entry returns at the first slot that is not FULL (a tombstone is not
\* stepped over) or that holds k.
StopsAtHome(t, k, i) == TRUE
Stops(t, k, i) == t.pairs[i].state # "FULL" \/ t.pairs[i].key = k

\* The distances at which it would return.  Empty iff the loop never ends.
StopDistances(t, k) == {d \in Slots(t) : Stops(t, k, Probe(t, k, d))}

GetEntry(t, k) == LET D == StopDistances(t, k)
                  IN  Probe(t, k, Min(D))

Contains(t, k) == t.pairs[GetEntry(t, k)].state = "FULL"

-----------------------------------------------------------------------------
\* Updates.

\* check_rehash: load_factor() > MAX_FILL_CAPACITY (0.75)
NeedsRehash(t) == 4 * t.fill > 3 * t.capacity

\* The counters and the state of the slot that a set of k fills.
StoredCountingFullOnly(t, k, val) ==
  LET i == GetEntry(t, k)
  IN  [t EXCEPT !.size = IF t.pairs[i].state = "FULL" THEN @ ELSE @ + 1,
                !.fill = IF t.pairs[i].state = "FULL" THEN @ ELSE @ + 1,
                !.pairs[i] = [state |-> "FULL", key |-> k, value |-> val]]
StoredKeepingKey(t, k, val) ==
  LET i == GetEntry(t, k)
  IN  [t EXCEPT !.size = IF t.pairs[i].state = "FULL" THEN @ ELSE @ + 1,
                !.fill = IF t.pairs[i].state = "EMPTY" THEN @ + 1 ELSE @,
                !.pairs[i] = [state |-> "FULL", value |-> val,
                              key |-> IF t.pairs[i].state = "TOMBSTONE"
                                      THEN t.pairs[i].key ELSE k]]
Stored(t, k, val) ==
  LET i == GetEntry(t, k)
  IN  [t EXCEPT !.size = IF t.pairs[i].state = "FULL" THEN @ ELSE @ + 1,
                !.fill = IF t.pairs[i].state = "EMPTY" THEN @ + 1 ELSE @,
                !.pairs[i] = [state |-> "FULL", key |-> k, value |-> val]]

Erased(t, k) == [t EXCEPT !.size = @ - 1,
                          !.pairs[GetEntry(t, k)].state = "TOMBSTONE"]

\* clear() zero-fills `capacity * sizeof(kv_pair)' bytes from the first pair.
ClearedCountersOnly(t, zero) == [t EXCEPT !.size = 0, !.fill = 0]
Cleared(t, zero) == [t EXCEPT !.size = 0, !.fill = 0,
                              !.pairs = [i \in Slots(t) |-> ZeroPair(zero)]]

\* rehash copies every FULL pair, in slot order, to the home slot its key has
\* in a zero-filled table twice as large.  It does not probe, so of the pairs
\* with one home the last one copied stays; size is taken over and fill is
\* set to it.
NewHome(t, i) == Hash[t.pairs[i].key] % (2 * t.capacity)
CopiedTo(t, j) == {i \in Live(t) : NewHome(t, i) = j}
RehashedBackwards(t, zero) ==
  [capacity |-> 2 * t.capacity, size |-> t.size, fill |-> t.size,
   pairs |-> [j \in 0 .. 2 * t.capacity - 1 |->
                IF j \notin Live(t) THEN ZeroPair(zero)
                                    ELSE t.pairs[t.capacity - 1 - j]]]
Rehashed(t, zero) ==
  [capacity |-> 2 * t.capacity, size |-> t.size, fill |-> t.size,
   pairs |-> [j \in 0 .. 2 * t.capacity - 1 |->
                IF CopiedTo(t, j) = {} THEN ZeroPair(zero)
                                       ELSE t.pairs[Max(CopiedTo(t, j))]]]

-----------------------------------------------------------------------------
\* Facts about a table.

Pair(Val) == [state : State, key : Key \cup {NoKey}, value : Val]

TableType(t, Val) ==
  /\ t \in [capacity : Nat, size : Nat, fill : Nat, pairs : [Slots(t) -> Pair(Val)]]
  /\ t.capacity >= InitCapacity
  /\ \A i \in Slots(t) : t.pairs[i].state # "EMPTY" => t.pairs[i].key \in Key

\* The counters: fill counts the tombstones on top of size, and size is at
\* least the number of entries (it exceeds it once a rehash dropped some), so
\* that erase never takes size below zero.
CountersAgree(t) == /\ t.fill = t.size + Cardinality(Tombs(t))
                    /\ Cardinality(Live(t)) <= t.size

\* check_rehash before every insertion keeps the table from filling up.
RoomLeft(t) == 4 * t.fill <= 3 * t.capacity + 4

\* What every operation keeps of a table.
Healthy(t, Val) == TableType(t, Val) /\ CountersAgree(t) /\ RoomLeft(t)

\* Keys that hash below DEFAULT_ITEMS_COUNT, each to a slot of its own.
OwnSlots == /\ \A k \in Key : Hash[k] < InitCapacity
            /\ \A j, k \in Key : Hash[j] = Hash[k] => j = k

\* Every entry is at the slot its key hashes to.
AtHome(t) == \A i \in Live(t) : Hash[t.pairs[i].key] = i

\* get_entry returns for every key: the "unreachable" after its loop is.
ProbesEnd(t) == \A k \in Key : StopDistances(t, k) # {}
=============================================================================
