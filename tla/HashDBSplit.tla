----------------------------- MODULE HashDBSplit -----------------------------
(***************************************************************************)
(* Class HashDB of C++/hashdb.h with SPLIT_VALUE: a kv_pair holds the      *)
(* offset and the capacity of a region of the value file, and the header   *)
(* counts the bytes handed out (valuesize) and those the file is sized for *)
(* (valuecapacity).  One database, opened once; HashDB models the hash     *)
(* files and their paths.                                                  *)
(*                                                                         *)
(* A serialized value v is the bytes <<v, 1>> .. <<v, Len[v]>>, of which   *)
(* the first tells a reader how many follow.                               *)
(***************************************************************************)
EXTENDS HashTable

CONSTANTS Value,
          Len,                 \* Value -> bytes of the serialized value
          Missing,             \* get() returned nullopt
          Garbage,             \* get() returned bytes that are no value
          Zero,                \* a byte nothing was written to
          InitValueCapacity,   \* DEFAULT_ITEMS_COUNT * sizeof(V)
          MaxCapacity, MaxFill, MaxValueSize   \* bounds

ASSUME LenAssumption == Len \in [Value -> Nat \ {0}]
ASSUME ValueCapacityAssumption == InitValueCapacity \in Nat \ {0}
\* No value takes more than a quarter of the file that open() sizes: then the
\* one doubling of extend_value() always makes room for it.
ASSUME SmallValues == \A v \in Value : 4 * Len[v] <= InitValueCapacity

\* The keys hash to slots of their own, so that what HashDB gets wrong about
\* colliding keys does not hide what happens to the values.
ASSUME DirectKeys == OwnSlots

VARIABLES db,      \* the mapped hash file
          vcap,    \* m_hash->valuecapacity
          vsize,   \* m_hash->valuesize
          vfile    \* the bytes of the value file

vars == <<db, vcap, vsize, vfile>>

NoRegion == [capacity |-> 0, offset |-> 0]

FileSize == Cardinality(DOMAIN vfile)

\* ftruncate: cuts the file, or extends it with zeros.
Resized(f, n) == [b \in 0 .. n - 1 |-> IF b \in DOMAIN f THEN f[b] ELSE Zero]

\* lseek and write: the file grows to hold the bytes, over a hole if need be.
Written(f, offset, v) ==
  LET end == Max({Cardinality(DOMAIN f), offset + Len[v]})
  IN  [b \in 0 .. end - 1 |->
         IF b \in offset .. offset + Len[v] - 1 THEN <<v, b - offset + 1>>
         ELSE IF b \in DOMAIN f THEN f[b] ELSE Zero]

Bytes(r) == r.offset .. r.offset + r.capacity - 1

\* Serializer::deserialize from an offset.
ReadAt(f, offset) ==
  LET ok(v) == \A i \in 1 .. Len[v] : /\ offset + i - 1 \in DOMAIN f
                                      /\ f[offset + i - 1] = <<v, i>>
  IN  IF \E v \in Value : ok(v) THEN CHOOSE v \in Value : ok(v) ELSE Garbage

\* get()
Get(t, f, k) == LET e == t.pairs[GetEntry(t, k)]
                IN  IF t.size # 0 /\ e.state = "FULL" THEN ReadAt(f, e.value.offset)
                    ELSE Missing

Checked == IF NeedsRehash(db) THEN Rehashed(db, NoRegion) ELSE db

-----------------------------------------------------------------------------
\* open()
Init == /\ db = FreshTable(NoRegion)
        /\ vcap = InitValueCapacity
        /\ vsize = 0
        /\ vfile = [b \in 0 .. InitValueCapacity - 1 |-> Zero]

\* open() again: the hash file is wiped, the value file cut to its first size.
Open == /\ db' = FreshTable(NoRegion)
        /\ vcap' = InitValueCapacity
        /\ vsize' = 0
        /\ vfile' = Resized(vfile, InitValueCapacity)

\* clear() keeps the value file and its capacity.
ClearKeepingPairs == /\ db' = ClearedCountersOnly(db, NoRegion)
                     /\ vsize' = 0
                     /\ UNCHANGED <<vcap, vfile>>
Clear == /\ db' = Cleared(db, NoRegion)
         /\ vsize' = 0
         /\ UNCHANGED <<vcap, vfile>>

Erase(k) == /\ StopDistances(db, k) # {}
            /\ db.pairs[GetEntry(db, k)].state = "FULL"
            /\ db' = Erased(db, k)
            /\ UNCHANGED <<vcap, vsize, vfile>>

\* A region is used again when the slot has one that is large enough, even
\* the one a tombstone kept.
NewRegionOnlyFirst(e, v) == e.state = "EMPTY"
NewRegion(e, v) == e.state = "EMPTY" \/ Len[v] > e.value.capacity

\* extend_value(), when more than 3/4 of the value file are handed out.
ExtendNever == FALSE
Extends == 4 * vsize > 3 * vcap

\* m_hash->valuesize += n
SizeUnmoved(v) == vsize
SizeAfter(v) == vsize + Len[v]

\* A set() that takes a new region at the end of what was handed out.
SetNew(k, v) ==
  /\ StopDistances(Checked, k) # {}
  /\ NewRegion(Checked.pairs[GetEntry(Checked, k)], v)
  /\ SizeAfter(v) <= MaxValueSize
  /\ db' = Stored(Checked, k, [capacity |-> Len[v], offset |-> vsize])
  /\ vsize' = SizeAfter(v)
  /\ vcap' = IF Extends THEN 2 * vcap ELSE vcap
  /\ vfile' = Written(IF Extends THEN Resized(vfile, 2 * vcap) ELSE vfile, vsize, v)

\* A set() that overwrites the region its slot has, which keeps its capacity.
SetInPlace(k, v) ==
  /\ StopDistances(Checked, k) # {}
  /\ LET e == Checked.pairs[GetEntry(Checked, k)]
     IN  /\ ~NewRegion(e, v)
         /\ db' = Stored(Checked, k, e.value)
         /\ vfile' = Written(vfile, e.value.offset, v)
  /\ UNCHANGED <<vcap, vsize>>

Set(k, v) == /\ SetNew(k, v) \/ SetInPlace(k, v)
             /\ db'.capacity <= MaxCapacity /\ db'.fill <= MaxFill

Rehash == /\ 2 * db.capacity <= MaxCapacity
          /\ db' = Rehashed(db, NoRegion)
          /\ UNCHANGED <<vcap, vsize, vfile>>

\* collect_garbage() copies the regions of the FULL slots, in slot order, to
\* the start of a new file: a region goes behind the bytes copied before it.  A
\* tombstone keeps the region it had.
CopiedBefore(t, i) ==
  UNION {{j} \X Bytes(t.pairs[j].value) : j \in {l \in Live(t) : l < i}}
CompactOffset(t, i) == Cardinality(CopiedBefore(t, i))
Compacted(t) ==
  [t EXCEPT !.pairs = [i \in Slots(t) |->
                         IF i \in Live(t) THEN [t.pairs[i] EXCEPT !.value.offset = CompactOffset(t, i)]
                         ELSE t.pairs[i]]]
CompactSize(t) == CompactOffset(t, t.capacity)

CompactFile(t) ==
  LET u == Compacted(t)
      owner(b) == {i \in Live(u) : b \in Bytes(u.pairs[i].value)}
      source(b, i) == b - u.pairs[i].value.offset + t.pairs[i].value.offset
      copied == [b \in 0 .. CompactSize(t) - 1 |->
                   LET i == CHOOSE i \in owner(b) : TRUE IN vfile[source(b, i)]]
  IN  Resized(copied, vcap)

\* Every region that collect_garbage() reads is in the value file; else the
\* read falls short and its assume() ends the process.
LiveInFile(t, f) == \A i \in Live(t) : Bytes(t.pairs[i].value) \subseteq DOMAIN f

CollectGarbage ==
  /\ db.size # 0
  /\ Checked.capacity <= MaxCapacity
  /\ LiveInFile(Checked, vfile)
  /\ db' = Compacted(Checked)
  /\ vsize' = CompactSize(Checked)
  /\ vfile' = CompactFile(Checked)
  /\ UNCHANGED vcap

\* collect_garbage() by a client that has erased nothing since the last rehash.
CollectWithoutTombs == Tombs(Checked) = {} /\ CollectGarbage

Next == \/ Open
        \/ Clear
        \/ \E k \in Key : Erase(k)
        \/ \E k \in Key, v \in Value : Set(k, v)
        \/ Rehash
        \/ CollectGarbage

\* The client that collects garbage only while there is no tombstone.
TidyNext == \/ Open
            \/ Clear
            \/ \E k \in Key : Erase(k)
            \/ \E k \in Key, v \in Value : Set(k, v)
            \/ Rehash
            \/ CollectWithoutTombs

Spec == Init /\ [][Next]_vars
TidySpec == Init /\ [][TidyNext]_vars

-----------------------------------------------------------------------------
\* Properties.  They are those of a tidy client with small values: for any
\* other, collect_garbage() hands the bytes of a tombstone's old region to
\* another entry while the tombstone still claims them, and extend_value()
\* cuts the file below what was handed out.

\* No two entries share a byte of the value file (hashdb.h:407-414).
LiveRegionsDisjoint ==
  \A i, j \in Live(db) : i # j =>
     Bytes(db.pairs[i].value) \cap Bytes(db.pairs[j].value) = {}

\* Every region, a tombstone's too, was handed out by valuesize: a set() that
\* reuses one never reaches into bytes that the next set() will be given.
RegionsHandedOut ==
  \A i \in Live(db) \cup Tombs(db) :
     db.pairs[i].value.offset + db.pairs[i].value.capacity <= vsize

\* What was handed out fits in the file, so that neither extend_value() nor
\* the reinit_valuefile() of collect_garbage() truncates a value, and every
\* read of collect_garbage() is whole.
ValuesFit == vsize <= vcap /\ vcap <= FileSize

\* Each call does to what get() answers what it does to a dictionary: set()
\* and erase() change their key and no other, although they write into a file
\* that all values share, and moving the values changes none.
Contents(t, f) == [k \in Key |-> Get(t, f, k)]
CallsActOnTheirKey ==
  [][LET old == Contents(db, vfile)
         new == Contents(db', vfile')
     IN  /\ \A k \in Key, v \in Value : Set(k, v) => new = [old EXCEPT ![k] = v]
         /\ \A k \in Key : Erase(k) => new = [old EXCEPT ![k] = Missing]
         /\ Clear \/ Open => new = [k \in Key |-> Missing]
         /\ Rehash \/ CollectGarbage => new = old]_vars
=============================================================================
