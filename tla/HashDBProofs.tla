----------------------------- MODULE HashDBProofs -----------------------------
(***************************************************************************)
(* The safety of HashDB for every set of keys, hash function, number of    *)
(* databases and bound: types and counters are right, every lookup ends,   *)
(* and what it answers was set under its key.  For the clients of          *)
(* HashDBDirect, whose keys hash to slots of their own, HashDB implements  *)
(* KVStore.                                                                *)
(***************************************************************************)
EXTENDS HashDBDirect, HashTableProofs

Val == Value \cup {NoValue}

\* The inductive invariant: every table in a file is healthy.
AllHealthy == \A p \in Path : TableAt(p) => Healthy(files[p], Val)

IInv == /\ files \in [Path -> {files[p] : p \in Path}]
        /\ at \in Path \cup {None}
        /\ hpath \in Path \cup {None}
        /\ at # None => hpath # None
        /\ wrote \in [Path -> SUBSET (Key \X Value)]
        /\ AllHealthy

LEMMA InitIInv == Init => IInv
BY HashDBAssumption DEF Init, IInv, AllHealthy, TableAt, Path

\* Putting a healthy table into a file and mapping one that has one.
LEMMA ReplaceKeeps ==
  ASSUME IInv, NEW p \in Path, NEW t, Healthy(t, Val), Replace(p, t),
         at' \in {p, None} \/ (at' = at)
  PROVE  /\ files' \in [Path -> {files'[r] : r \in Path}]
         /\ AllHealthy'
<1>1. files' = [files EXCEPT ![p] = t]
  BY DEF Replace
<1>2. files \in [Path -> {files[r] : r \in Path}]
  BY DEF IInv
<1>3. \A r \in Path : files'[r] = IF r = p THEN t ELSE files[r]
  BY <1>1, <1>2
<1>4. files' \in [Path -> {files'[r] : r \in Path}]
  BY <1>1, <1>2, <1>3
<1>5. ASSUME NEW r \in Path, TableAt(r)' PROVE Healthy(files'[r], Val)
  BY <1>3, <1>5, HashDBAssumption DEF IInv, AllHealthy, TableAt, Path
<1> QED
  BY <1>4, <1>5 DEF AllHealthy

\* What check_rehash leaves is healthy, has room, and is in a file.
LEMMA CheckedHealthy ==
  ASSUME IInv, at # None
  PROVE  /\ Healthy(db, Val) /\ Healthy(Checked, Val) /\ ~NeedsRehash(Checked)
         /\ at \in Path /\ hpath \in Path /\ CheckedAt \in Path
<1>1. at \in Path /\ hpath \in Path /\ Healthy(db, Val)
  BY DEF IInv, AllHealthy, TableAt, db
<1>2. Healthy(Rehashed(db, NoValue), Val) /\ ~NeedsRehash(Rehashed(db, NoValue))
  BY <1>1, RehashedHealthy DEF Val
<1> QED
  BY <1>1, <1>2 DEF Checked, CheckedAt

LEMMA NextIInv == IInv /\ [Next]_vars => IInv'
<1> SUFFICES ASSUME IInv, [Next]_vars PROVE IInv'
  OBVIOUS
<1>0. NoValue \in Val
  BY DEF Val
<1>1. ASSUME NEW n \in Name, Open(n) PROVE IInv'
  <2>1. Healthy(FreshTable(NoValue), Val)
    BY <1>0, FreshHealthy
  <2>2. n \in Path /\ Replace(n, FreshTable(NoValue))
    BY <1>1 DEF Path, Open, Replace
  <2>3. files' \in [Path -> {files'[r] : r \in Path}] /\ AllHealthy'
    BY <1>1, <2>1, <2>2, ReplaceKeeps DEF Open
  <2> QED
    BY <1>1, <2>2, <2>3 DEF IInv, Open
<1>2. ASSUME NEW n \in Name, Load(n) PROVE IInv'
  BY <1>2, HashDBAssumption DEF IInv, Load, Path, AllHealthy, TableAt
<1>3. CASE Close
  BY <1>3, HashDBAssumption DEF IInv, Close, Path, AllHealthy, TableAt
<1>4. CASE Clear
  <2>1. at \in Path /\ Healthy(db, Val)
    BY <1>4, CheckedHealthy DEF Clear
  <2>2. Healthy(Cleared(db, NoValue), Val)
    BY <1>0, <2>1, ClearedHealthy
  <2>3. Replace(at, Cleared(db, NoValue)) /\ at' = at /\ hpath' = hpath
    BY <1>4 DEF Clear, Replace
  <2>4. files' \in [Path -> {files'[r] : r \in Path}] /\ AllHealthy'
    BY <2>1, <2>2, <2>3, ReplaceKeeps
  <2> QED
    BY <1>4, <2>3, <2>4 DEF IInv, Clear
<1>5. ASSUME NEW k \in Key, Erase(k) PROVE IInv'
  <2>1. at \in Path /\ Healthy(db, Val)
    BY <1>5, CheckedHealthy DEF Erase
  <2>2. Healthy(Erased(db, k), Val)
    BY <1>5, <2>1, ErasedHealthy DEF Erase
  <2>3. Replace(at, Erased(db, k)) /\ at' = at /\ hpath' = hpath
    BY <1>5 DEF Erase, Replace
  <2>4. files' \in [Path -> {files'[r] : r \in Path}] /\ AllHealthy'
    BY <2>1, <2>2, <2>3, ReplaceKeeps
  <2> QED
    BY <1>5, <2>3, <2>4 DEF IInv, Erase
<1>6. ASSUME NEW k \in Key, NEW v \in Value, Set(k, v) PROVE IInv'
  <2>1. /\ at \in Path /\ hpath \in Path /\ CheckedAt \in Path
        /\ Healthy(Checked, Val) /\ ~NeedsRehash(Checked)
    BY <1>6, CheckedHealthy DEF Set
  <2>2. Healthy(Stored(Checked, k, v), Val)
    BY <1>6, <2>1, StoredHealthy DEF Set, Val
  <2>3. /\ Replace(CheckedAt, Stored(Checked, k, v)) /\ at' = CheckedAt /\ hpath' = hpath
        /\ wrote' = [wrote EXCEPT ![CheckedAt] = wrote[at] \cup {<<k, v>>}]
    BY <1>6 DEF Set
  <2>4. files' \in [Path -> {files'[r] : r \in Path}] /\ AllHealthy'
    BY <2>1, <2>2, <2>3, ReplaceKeeps
  <2>5. wrote' \in [Path -> SUBSET (Key \X Value)]
    BY <2>1, <2>3 DEF IInv
  <2> QED
    BY <2>1, <2>3, <2>4, <2>5, HashDBAssumption DEF IInv, Path
<1>7. CASE RehashNow
  <2>1. at \in Path /\ hpath \in Path /\ Healthy(db, Val)
    BY <1>7, CheckedHealthy DEF RehashNow
  <2>2. Healthy(Rehashed(db, NoValue), Val)
    BY <1>0, <2>1, RehashedHealthy
  <2>3. /\ Replace(hpath, Rehashed(db, NoValue)) /\ at' = hpath /\ hpath' = hpath
        /\ wrote' = [wrote EXCEPT ![hpath] = wrote[at]]
    BY <1>7 DEF RehashNow
  <2>4. files' \in [Path -> {files'[r] : r \in Path}] /\ AllHealthy'
    BY <2>1, <2>2, <2>3, ReplaceKeeps
  <2>5. wrote' \in [Path -> SUBSET (Key \X Value)]
    BY <2>1, <2>3 DEF IInv
  <2> QED
    BY <2>1, <2>3, <2>4, <2>5, HashDBAssumption DEF IInv, Path
<1>8. CASE UNCHANGED vars
  BY <1>8 DEF vars, IInv, AllHealthy, TableAt
<1> QED
  BY <1>1, <1>2, <1>3, <1>4, <1>5, <1>6, <1>7, <1>8 DEF Next, CollectGarbage

THEOREM Inductive == Spec => []IInv
BY InitIInv, NextIInv, PTL DEF Spec

\* The hash files always hold well-formed tables, the mapped one included.
THEOREM TypeCorrect == Spec => []TypeOK
<1>1. IInv => TypeOK
  BY DEF IInv, TypeOK, AllHealthy, Healthy, Val
<1> QED
  BY <1>1, Inductive, PTL

\* size never underflows and fill accounts for every tombstone.
THEOREM CountersCorrect == Spec => []Counters
<1>1. IInv => Counters
  BY DEF IInv, Counters, AllHealthy, Healthy
<1> QED
  BY <1>1, Inductive, PTL

\* get_entry always returns, whatever the hash function and the keys.
THEOREM LookupsEnd == Spec => []EveryProbeEnds
<1>1. ASSUME IInv, at # None PROVE ProbesEnd(db)
  BY <1>1, CheckedHealthy, ProbeEnds DEF Healthy
<1>2. IInv => EveryProbeEnds
  BY <1>1 DEF EveryProbeEnds
<1> QED
  BY <1>2, Inductive, PTL

-----------------------------------------------------------------------------
(***************************************************************************)
(* What a get() may answer, although a tombstone ends a probe and a rehash *)
(* does not probe: a value that was set under that key, after a set() the  *)
(* new one, and nothing after an erase().                                  *)
(***************************************************************************)

\* A key that a table answers is in it, with that answer.
LEMMA GetIsLive ==
  ASSUME NEW t, NEW V, Healthy(t, V), NEW k \in Key, Get(t, k) # Missing
  PROVE  \E i \in Live(t) : t.pairs[i].key = k /\ t.pairs[i].value = Get(t, k)
<1>1. t.capacity \in Nat /\ t.capacity > 0 /\ StopDistances(t, k) # {}
  BY ProbeEnds, CapacityAssumption DEF Healthy, TableType, ProbesEnd
<1>2. GetEntry(t, k) \in Slots(t) /\ Stops(t, k, GetEntry(t, k))
  BY <1>1, GetEntryStops
<1>3. t.pairs[GetEntry(t, k)].state = "FULL" /\ Get(t, k) = t.pairs[GetEntry(t, k)].value
  BY DEF Get
<1> QED
  BY <1>2, <1>3 DEF Live, InState, Stops

-----------------------------------------------------------------------------
\* The entries that the updates of a table leave.

\* The pairs of the entries.
Entries(t) == {<<t.pairs[i].key, t.pairs[i].value>> : i \in Live(t)}

LEMMA NoEntries ==
  ASSUME NEW zero, NEW t
  PROVE  Entries(FreshTable(zero)) = {} /\ Entries(Cleared(t, zero)) = {}
<1>1. Live(FreshTable(zero)) = {}
  BY DEF Live, InState, Slots, FreshTable, ZeroPair
<1>2. Live(Cleared(t, zero)) = {}
  BY DEF Live, InState, Slots, Cleared, ZeroPair
<1> QED
  BY <1>1, <1>2 DEF Entries

LEMMA ErasedEntries ==
  ASSUME NEW t, NEW V, Healthy(t, V), NEW k \in Key
  PROVE  Entries(Erased(t, k)) \subseteq Entries(t)
BY ErasedTable DEF Entries, Live, InState, Slots

LEMMA StoredEntries ==
  ASSUME NEW t, NEW V, Healthy(t, V), NEW k \in Key, NEW v
  PROVE  Entries(Stored(t, k, v)) \subseteq Entries(t) \cup {<<k, v>>}
<1> DEFINE i == GetEntry(t, k)
           u == Stored(t, k, v)
<1>1. /\ i \in Slots(t) /\ u.capacity = t.capacity
      /\ u.pairs[i] = [state |-> "FULL", key |-> k, value |-> v]
      /\ \A j \in Slots(t) : j # i => u.pairs[j] = t.pairs[j]
  BY StoredTable
<1> HIDE DEF i, u
<1>2. ASSUME NEW j \in Live(u)
      PROVE  <<u.pairs[j].key, u.pairs[j].value>> \in Entries(t) \cup {<<k, v>>}
  <2>1. j \in Slots(t) /\ u.pairs[j].state = "FULL"
    BY <1>1 DEF Live, InState, Slots
  <2>2. CASE j = i
    BY <1>1, <2>2
  <2>3. CASE j # i
    BY <1>1, <2>1, <2>3 DEF Entries, Live, InState
  <2> QED
    BY <2>2, <2>3
<1> QED
  BY <1>2 DEF Entries, u

\* A rehash drops pairs and makes none.
LEMMA RehashedEntries ==
  ASSUME NEW t, NEW V, Healthy(t, V), NEW zero
  PROVE  Entries(Rehashed(t, zero)) \subseteq Entries(t)
<1> DEFINE u == Rehashed(t, zero)
<1>1. ASSUME NEW j \in Live(u)
      PROVE  \E i \in Live(t) : u.pairs[j] = t.pairs[i]
  <2>1. j \in 0 .. 2 * t.capacity - 1 /\ u.pairs[j].state = "FULL"
    BY <1>1 DEF Live, InState, Slots, Rehashed
  <2>2. u.pairs[j] = IF CopiedTo(t, j) = {} THEN ZeroPair(zero)
                                            ELSE t.pairs[Max(CopiedTo(t, j))]
    BY <2>1 DEF Rehashed
  <2>3. CopiedTo(t, j) # {}
    BY <2>1, <2>2 DEF ZeroPair
  <2>4. t.capacity \in Nat /\ CopiedTo(t, j) \in SUBSET (0 .. t.capacity - 1)
    BY DEF CopiedTo, Live, InState, Slots, Healthy, TableType
  <2>5. Max(CopiedTo(t, j)) \in CopiedTo(t, j)
    BY <2>3, <2>4, MaxOfSlots
  <2> QED
    BY <2>2, <2>3, <2>5 DEF CopiedTo
<1> QED
  BY <1>1 DEF Entries

-----------------------------------------------------------------------------
\* The entries of every file were written to it.
AllWritten == \A p \in Path : TableAt(p) => Entries(files[p]) \subseteq wrote[p]

WInv == IInv /\ AllWritten

LEMMA InitWInv == Init => WInv
BY InitIInv, HashDBAssumption DEF Init, WInv, AllWritten, TableAt, Path

\* Putting a table into a file, with the record of what was written.
LEMMA ReplaceWritten ==
  ASSUME WInv, NEW p \in Path, NEW t, NEW w, Replace(p, t), Entries(t) \subseteq w,
         wrote' = [wrote EXCEPT ![p] = w], at' = p
  PROVE  AllWritten'
<1>1. \A r \in Path : files'[r] = IF r = p THEN t ELSE files[r]
  BY DEF Replace, WInv, IInv
<1>2. \A r \in Path : wrote'[r] = IF r = p THEN w ELSE wrote[r]
  BY DEF WInv, IInv
<1>3. ASSUME NEW r \in Path, r # p, TableAt(r)' PROVE Entries(files'[r]) \subseteq wrote'[r]
  BY <1>1, <1>2, <1>3 DEF WInv, AllWritten, TableAt
<1>4. Entries(files'[p]) \subseteq wrote'[p]
  BY <1>1, <1>2
<1>5. \A r \in Path : TableAt(r)' => Entries(files'[r]) \subseteq wrote'[r]
  BY <1>3, <1>4
<1> QED
  BY <1>5 DEF AllWritten, Entries, Live, InState, Slots

\* What check_rehash leaves has no entry that the mapped table had not.
LEMMA CheckedEntries ==
  ASSUME WInv, at # None
  PROVE  /\ at \in Path /\ hpath \in Path /\ CheckedAt \in Path
         /\ Healthy(db, Val) /\ Healthy(Checked, Val)
         /\ Entries(db) \subseteq wrote[at] /\ Entries(Checked) \subseteq Entries(db)
         /\ Entries(Rehashed(db, NoValue)) \subseteq Entries(db)
<1>1. /\ at \in Path /\ hpath \in Path /\ CheckedAt \in Path
      /\ Healthy(db, Val) /\ Healthy(Checked, Val)
  BY CheckedHealthy DEF WInv
<1>2. Entries(db) \subseteq wrote[at]
  BY <1>1 DEF WInv, AllWritten, TableAt, db
<1>3. Entries(Rehashed(db, NoValue)) \subseteq Entries(db)
  BY <1>1, RehashedEntries
<1> QED
  BY <1>1, <1>2, <1>3 DEF Checked

LEMMA NextWInv == WInv /\ [Next]_vars => WInv'
<1> SUFFICES ASSUME WInv, [Next]_vars PROVE AllWritten'
  BY NextIInv DEF WInv
<1>1. ASSUME NEW n \in Name, Open(n) PROVE AllWritten'
  <2>1. n \in Path /\ Replace(n, FreshTable(NoValue)) /\ wrote' = [wrote EXCEPT ![n] = {}] /\ at' = n
    BY <1>1 DEF Path, Open, Replace
  <2> QED
    BY <2>1, NoEntries, ReplaceWritten
<1>2. ASSUME UNCHANGED <<files, wrote>>, at' \in Path => TableAt(at')
      PROVE  AllWritten'
  <2>1. \A p \in Path : TableAt(p)' => TableAt(p)
    BY <1>2 DEF TableAt
  <2> QED
    BY <1>2, <2>1 DEF WInv, AllWritten
<1>3. ASSUME NEW n \in Name, Load(n) PROVE AllWritten'
  BY <1>2, <1>3 DEF Load, TableAt
<1>4. CASE Close
  <2>1. ASSUME NEW p \in Path, TableAt(p)' PROVE TableAt(p) /\ files'[p] = files[p]
    BY <1>4, <2>1, HashDBAssumption DEF Close, TableAt, WInv, IInv, Path
  <2>2. wrote' = wrote
    BY <1>4 DEF Close
  <2>3. \A p \in Path : TableAt(p)' => Entries(files'[p]) \subseteq wrote'[p]
    BY <2>1, <2>2 DEF WInv, AllWritten
  <2> QED
    BY <2>3 DEF AllWritten, Entries, Live, InState, Slots
<1>5. CASE Clear
  <2>1. at \in Path /\ Replace(at, Cleared(db, NoValue)) /\ wrote' = [wrote EXCEPT ![at] = {}] /\ at' = at
    BY <1>5, CheckedEntries DEF Clear, Replace
  <2> QED
    BY <2>1, NoEntries, ReplaceWritten
<1>6. ASSUME NEW k \in Key, Erase(k) PROVE AllWritten'
  <2>1. at \in Path /\ Healthy(db, Val) /\ Entries(db) \subseteq wrote[at]
    BY <1>6, CheckedEntries DEF Erase
  <2>2. Replace(at, Erased(db, k)) /\ wrote' = [wrote EXCEPT ![at] = wrote[at]] /\ at' = at
    BY <1>6 DEF Erase, Replace, WInv, IInv
  <2>3. Entries(Erased(db, k)) \subseteq wrote[at]
    BY <2>1, ErasedEntries
  <2> QED
    BY <2>1, <2>2, <2>3, ReplaceWritten
<1>7. ASSUME NEW k \in Key, NEW v \in Value, Set(k, v) PROVE AllWritten'
  <2>1. /\ CheckedAt \in Path /\ Healthy(Checked, Val)
        /\ Entries(Checked) \subseteq wrote[at]
    BY <1>7, CheckedEntries DEF Set
  <2>2. /\ Replace(CheckedAt, Stored(Checked, k, v)) /\ at' = CheckedAt
        /\ wrote' = [wrote EXCEPT ![CheckedAt] = wrote[at] \cup {<<k, v>>}]
    BY <1>7 DEF Set
  <2>3. Entries(Stored(Checked, k, v)) \subseteq wrote[at] \cup {<<k, v>>}
    BY <2>1, StoredEntries
  <2> QED
    BY <2>1, <2>2, <2>3, ReplaceWritten
<1>8. CASE RehashNow
  <2>1. hpath \in Path /\ Entries(Rehashed(db, NoValue)) \subseteq wrote[at]
    BY <1>8, CheckedEntries DEF RehashNow
  <2>2. /\ Replace(hpath, Rehashed(db, NoValue)) /\ at' = hpath
        /\ wrote' = [wrote EXCEPT ![hpath] = wrote[at]]
    BY <1>8 DEF RehashNow
  <2> QED
    BY <2>1, <2>2, ReplaceWritten
<1>9. CASE UNCHANGED vars
  BY <1>2, <1>9 DEF vars, TableAt
<1> QED
  BY <1>1, <1>3, <1>4, <1>5, <1>6, <1>7, <1>8, <1>9 DEF Next, CollectGarbage

THEOREM WrittenInductive == Spec => []WInv
BY InitWInv, NextWInv, PTL DEF Spec

\* get() answers with nothing but a value set under that key since the file
\* was opened or cleared.
THEOREM ReadsAreWritten == Spec => []ReadsWereWritten
<1>1. ASSUME WInv, at # None, NEW k \in Key, Get(db, k) # Missing
      PROVE  <<k, Get(db, k)>> \in wrote[at]
  <2>1. Healthy(db, Val) /\ Entries(db) \subseteq wrote[at]
    BY <1>1, CheckedEntries
  <2> QED
    BY <1>1, <2>1, GetIsLive DEF Entries
<1>2. WInv => ReadsWereWritten
  BY <1>1 DEF ReadsWereWritten
<1> QED
  BY <1>2, WrittenInductive, PTL

\* After a set() the key reads as the value, wherever the table lives now.
THEOREM SetsAreRead == Spec => SetIsRead
<1>1. ASSUME IInv, NEW k \in Key, NEW v \in Value, Set(k, v)
      PROVE  Get(db', k) = v
  <2> DEFINE t == Checked
             i == GetEntry(t, k)
             u == Stored(t, k, v)
  <2>1. Healthy(t, Val) /\ Healthy(u, Val) /\ StopDistances(t, k) # {} /\ CheckedAt \in Path
    BY <1>1, CheckedHealthy, StoredHealthy DEF Set, Val
  <2>2. t.capacity \in Nat /\ t.capacity > 0
    BY <2>1, CapacityAssumption DEF Healthy, TableType
  <2>3. /\ i \in Slots(t) /\ u.capacity = t.capacity
        /\ u.pairs[i] = [state |-> "FULL", key |-> k, value |-> v]
        /\ \A j \in Slots(t) : j # i => u.pairs[j] = t.pairs[j]
    BY <2>1, StoredTable
  <2>4. db' = u
    BY <1>1, <2>1 DEF Set, Replace, db, IInv
  <2> HIDE DEF t, i, u
  <2>5. GetEntry(u, k) = i
    BY <2>1, <2>2, <2>3, SamePlace DEF Stops, i
  <2>6. i \in Live(u)
    BY <2>3 DEF Live, InState, Slots
  <2>7. u.size # 0
    <3>1. u.capacity \in Nat /\ Cardinality(Live(u)) <= u.size
      BY <2>1 DEF Healthy, TableType, CountersAgree
    <3>2. IsFiniteSet(Live(u)) /\ Cardinality(Live(u)) \in Nat
      BY <3>1, StatesFinite
    <3>3. Cardinality(Live(u)) # 0
      BY <2>6, <3>2, FS_EmptySet
    <3> QED
      BY <3>1, <3>2, <3>3
  <2>8. Get(u, k) = v
    BY <2>3, <2>5, <2>7 DEF Get
  <2> QED
    BY <2>4, <2>8
<1>2. ASSUME IInv, [Next]_vars, NEW k \in Key, NEW v \in Value, Set(k, v)
      PROVE  Get(db', k) = v
  BY <1>1, <1>2
<1>3. IInv => (\A k \in Key, v \in Value :
                 at' # None /\ <<k, v>> \in wrote'[at'] /\ Get(db', k) # v => ~Set(k, v))
  BY <1>1
<1> QED
  BY <1>3, Inductive, PTL DEF SetIsRead

\* A set() that does not rehash leaves what every other key reads: the probe of
\* such a key stops at its own entry, and the slot that the set() fills, which
\* did not stop it before, does not stop it now.
THEOREM SetsKeepOthers == Spec => SetKeepsOthers
<1>1. ASSUME IInv, at # None, NEW j \in Key, Get(db, j) # Missing,
             NEW k \in Key \ {j}, NEW v \in Value, ~NeedsRehash(db), Set(k, v)
      PROVE  Get(db', j) = Get(db, j)
  <2> DEFINE i == GetEntry(db, k)
             s == GetEntry(db, j)
             u == Stored(db, k, v)
  <2>1. Healthy(db, Val) /\ at \in Path /\ Checked = db /\ CheckedAt = at
    BY <1>1, CheckedHealthy DEF Checked, CheckedAt
  <2>2. db.capacity \in Nat /\ db.capacity > 0 /\ db.size \in Nat
    BY <2>1, CapacityAssumption DEF Healthy, TableType
  <2>3. StopDistances(db, j) # {} /\ StopDistances(db, k) # {}
    BY <2>1, ProbeEnds DEF Healthy, ProbesEnd
  <2>4. /\ i \in Slots(db) /\ u.capacity = db.capacity
        /\ u.pairs[i] = [state |-> "FULL", key |-> k, value |-> v]
        /\ \A x \in Slots(db) : x # i => u.pairs[x] = db.pairs[x]
    BY <2>1, <2>3, StoredTable
  <2>5. u.size \in Nat /\ u.size # 0
    <3>1. u.size = IF db.pairs[i].state = "FULL" THEN db.size ELSE db.size + 1
      BY <2>1 DEF Stored, Healthy, TableType
    <3>2. db.size # 0
      BY <1>1 DEF Get
    <3> QED
      BY <2>2, <3>1, <3>2
  <2>6. db' = u
    BY <1>1, <2>1 DEF Set, Replace, db, IInv
  <2>7. s \in Slots(db) /\ Stops(db, j, s) /\ Stops(db, k, i)
    BY <2>2, <2>3, GetEntryStops
  <2>8. db.pairs[s].state = "FULL" /\ db.pairs[s].key = j /\ Get(db, j) = db.pairs[s].value
    BY <1>1, <2>7 DEF Get, Stops
  <2> HIDE DEF i, s, u
  <2>9. s # i /\ u.pairs[s] = db.pairs[s]
    BY <2>4, <2>7, <2>8 DEF Stops
  <2>10. ASSUME NEW x \in Slots(db), Stops(u, j, x) PROVE Stops(db, j, x)
    <3>1. x # i
      BY <2>4, <2>10 DEF Stops
    <3> QED
      BY <2>4, <2>10, <3>1 DEF Stops
  <2>11. GetEntry(u, j) = s
    BY <2>2, <2>3, <2>4, <2>8, <2>9, <2>10, SameStop DEF s, Stops
  <2> QED
    BY <2>5, <2>6, <2>8, <2>9, <2>11 DEF Get
<1>2. IInv => (\A j \in Key :
                 /\ at # None /\ at' # None
                 /\ Get(db, j) # Missing /\ Get(db', j) # Get(db, j)
                 => \A k \in Key \ {j}, v \in Value : NeedsRehash(db) \/ ~Set(k, v))
  BY <1>1
<1> QED
  BY <1>2, Inductive, PTL DEF SetKeepsOthers

\* After an erase() the key reads as missing, even if the table holds another
\* pair with it: the probe stops at the tombstone.
THEOREM ErasesAreRead == Spec => EraseIsRead
<1>1. ASSUME IInv, NEW k \in Key, Erase(k)
      PROVE  Get(db', k) = Missing
  <2> DEFINE i == GetEntry(db, k)
             u == Erased(db, k)
  <2>1. Healthy(db, Val) /\ at \in Path /\ StopDistances(db, k) # {}
    BY <1>1, CheckedHealthy DEF Erase
  <2>2. db.capacity \in Nat /\ db.capacity > 0
    BY <2>1, CapacityAssumption DEF Healthy, TableType
  <2>3. /\ i \in Slots(db) /\ u.capacity = db.capacity
        /\ u.pairs[i].state = "TOMBSTONE"
        /\ \A j \in Slots(db) : j # i => u.pairs[j] = db.pairs[j]
    BY <2>1, ErasedTable
  <2>4. db' = u
    BY <1>1, <2>1 DEF Erase, db, IInv
  <2> HIDE DEF i, u
  <2>5. GetEntry(u, k) = i
    BY <2>1, <2>2, <2>3, SamePlace DEF Stops, i
  <2>6. Get(u, k) = Missing
    BY <2>3, <2>5 DEF Get
  <2> QED
    BY <2>4, <2>6
<1>2. IInv => (\A k \in Key : Erase(k) => Get(db', k) = Missing)
  BY <1>1
<1> QED
  BY <1>2, Inductive, PTL DEF EraseIsRead

-----------------------------------------------------------------------------
\* Tables whose entries are at home.

LEMMA DirectEntry ==
  ASSUME NEW t, Healthy(t, Val), AtHome(t), NEW k \in Key
  PROVE  /\ Hash[k] \in Slots(t)
         /\ StopDistances(t, k) # {}
         /\ GetEntry(t, k) = Hash[k]
         /\ t.pairs[Hash[k]].state = "FULL" => t.pairs[Hash[k]].key = k
         /\ Get(t, k) = IF t.pairs[Hash[k]].state = "FULL"
                        THEN t.pairs[Hash[k]].value ELSE Missing
BY OwnSlot, DirectAssumption DEF Get

NoContents == [k \in Key |-> Missing]

LEMMA FreshContents ==
  /\ AtHome(FreshTable(NoValue))
  /\ Contents(FreshTable(NoValue)) = NoContents
BY DEF AtHome, Live, InState, FreshTable, ZeroPair, Slots, Contents, NoContents, Get

LEMMA ClearedContents ==
  ASSUME NEW t, Healthy(t, Val)
  PROVE  /\ AtHome(Cleared(t, NoValue))
         /\ Contents(Cleared(t, NoValue)) = NoContents
<1> DEFINE u == Cleared(t, NoValue)
<1>1. u.size = 0 /\ Slots(u) = Slots(t) /\ u.pairs = [i \in Slots(t) |-> ZeroPair(NoValue)]
  BY DEF Healthy, TableType, Cleared, Slots
<1> HIDE DEF u
<1>2. AtHome(u) /\ Contents(u) = NoContents
  BY <1>1 DEF AtHome, Live, InState, ZeroPair, Contents, NoContents, Get
<1> QED
  BY <1>2 DEF u

LEMMA ErasedContents ==
  ASSUME NEW t, Healthy(t, Val), AtHome(t), NEW k \in Key,
         t.pairs[GetEntry(t, k)].state = "FULL"
  PROVE  /\ AtHome(Erased(t, k))
         /\ Contents(Erased(t, k)) = [Contents(t) EXCEPT ![k] = Missing]
<1> DEFINE u == Erased(t, k)
           h == Hash[k]
<1>1. /\ h \in Slots(t) /\ StopDistances(t, k) # {} /\ GetEntry(t, k) = h
  BY DirectEntry
<1>2. Healthy(u, Val)
  BY <1>1, ErasedHealthy
<1>3. /\ Slots(u) = Slots(t)
      /\ \A i \in Slots(t) \ {h} : u.pairs[i] = t.pairs[i]
      /\ u.pairs[h].state = "TOMBSTONE"
  BY <1>1 DEF Healthy, TableType, Erased, Slots, Pair
<1> HIDE DEF u
<1>4. AtHome(u)
  BY <1>1, <1>3 DEF AtHome, Live, InState
<1>5. \A j \in Key : Get(u, j) = IF j = k THEN Missing ELSE Get(t, j)
  BY <1>1, <1>2, <1>3, <1>4, DirectEntry, DirectAssumption DEF OwnSlots
<1> QED
  BY <1>4, <1>5 DEF u, Contents

LEMMA StoredContents ==
  ASSUME NEW t, Healthy(t, Val), ~NeedsRehash(t), AtHome(t), NEW k \in Key, NEW v \in Value
  PROVE  /\ AtHome(Stored(t, k, v))
         /\ Contents(Stored(t, k, v)) = [Contents(t) EXCEPT ![k] = v]
<1> DEFINE u == Stored(t, k, v)
           h == Hash[k]
<1>1. /\ h \in Slots(t) /\ StopDistances(t, k) # {} /\ GetEntry(t, k) = h
  BY DirectEntry
<1>2. Healthy(u, Val)
  BY <1>1, StoredHealthy DEF Val
<1>3. /\ Slots(u) = Slots(t)
      /\ \A i \in Slots(t) \ {h} : u.pairs[i] = t.pairs[i]
      /\ u.pairs[h] = [state |-> "FULL", key |-> k, value |-> v]
  BY <1>1 DEF Healthy, TableType, Stored, Slots
<1> HIDE DEF u
<1>4. AtHome(u)
  BY <1>1, <1>3 DEF AtHome, Live, InState
<1>5. \A j \in Key : Get(u, j) = IF j = k THEN v ELSE Get(t, j)
  BY <1>1, <1>2, <1>3, <1>4, DirectEntry, DirectAssumption DEF OwnSlots
<1> QED
  BY <1>4, <1>5 DEF u, Contents

\* With every key at a home of its own no two entries are copied to one slot.
LEMMA RehashedContents ==
  ASSUME NEW t, Healthy(t, Val), AtHome(t)
  PROVE  /\ AtHome(Rehashed(t, NoValue))
         /\ Contents(Rehashed(t, NoValue)) = Contents(t)
<1> DEFINE u == Rehashed(t, NoValue)
<1>1. TableType(t, Val) /\ t.capacity \in Nat
  BY DEF Healthy, TableType
<1>2. Healthy(u, Val)
  BY RehashedHealthy DEF Val
<1>3. /\ Live(u) = Live(t) /\ AtHome(u)
      /\ \A i \in Live(t) : u.pairs[i] = t.pairs[i]
  BY <1>1, RehashedInPlace
<1> HIDE DEF u
<1>4. \A k \in Key : Get(u, k) = Get(t, k)
  <2> SUFFICES ASSUME NEW k \in Key PROVE Get(u, k) = Get(t, k)
    OBVIOUS
  <2>1. Hash[k] \in Slots(t) /\ Hash[k] \in Slots(u)
    BY <1>2, <1>3, DirectEntry
  <2>2. /\ t.pairs[Hash[k]].state = "FULL" <=> Hash[k] \in Live(t)
        /\ u.pairs[Hash[k]].state = "FULL" <=> Hash[k] \in Live(u)
    BY <2>1 DEF Live, InState
  <2> QED
    BY <1>2, <1>3, <2>2, DirectEntry
<1> QED
  BY <1>3, <1>4 DEF u, Contents

-----------------------------------------------------------------------------
\* The refinement.

DInv == IInv /\ EntriesAtHome

LEMMA InitDInv == Init => DInv
BY InitIInv, HashDBAssumption DEF Init, DInv, EntriesAtHome, TableAt, Path

\* A direct step is a step of HashDB.
LEMMA DirectIsNext == [DirectNext]_vars => [Next]_vars
BY DEF DirectNext, Next, InPlace

\* A direct client's file is the one at m_fhashpath whenever it is replaced.
LEMMA CheckedDirect ==
  ASSUME DInv, at # None, NeedsRehash(db) => hpath = at
  PROVE  /\ CheckedAt = at /\ at \in Name /\ at \in Path
         /\ Healthy(db, Val) /\ AtHome(db)
         /\ Healthy(Checked, Val) /\ AtHome(Checked) /\ ~NeedsRehash(Checked)
         /\ Contents(Checked) = Contents(db)
<1>1. at \in Path /\ Healthy(db, Val) /\ Healthy(Checked, Val) /\ ~NeedsRehash(Checked)
  BY CheckedHealthy DEF DInv
<1>2. at \in Name /\ AtHome(db)
  BY <1>1 DEF DInv, EntriesAtHome, TableAt, db
<1>3. AtHome(Rehashed(db, NoValue)) /\ Contents(Rehashed(db, NoValue)) = Contents(db)
  BY <1>1, <1>2, RehashedContents
<1> QED
  BY <1>1, <1>2, <1>3 DEF Checked, CheckedAt

\* A healthy table is not NoFile.
LEMMA HealthyIsTable ==
  ASSUME NEW t, Healthy(t, Val)
  PROVE  t # NoFile
BY CapacityAssumption DEF Healthy, TableType, NoFile

\* What replacing the table of a named file by a table at home does to the
\* invariant and to the abstract stores.
LEMMA ReplaceDirect ==
  ASSUME DInv, NEW n \in Name, NEW t, Healthy(t, Val), AtHome(t), Replace(n, t), at' = n
  PROVE  /\ EntriesAtHome'
         /\ Stores' = [Stores EXCEPT ![n] = Contents(t)]
<1>1. n \in Path /\ files' = [files EXCEPT ![n] = t]
      /\ \A r \in Path : files'[r] = IF r = n THEN t ELSE files[r]
  BY DEF Replace, Path, DInv, IInv
<1>2. EntriesAtHome'
  BY <1>1, HashDBAssumption DEF DInv, EntriesAtHome, TableAt, Path
<1>3. \A m \in Name : m \in Path
  BY DEF Path
<1>4. t # NoFile
  BY HealthyIsTable
<1>5. Stores' = [Stores EXCEPT ![n] = Contents(t)]
  <2>1. Stores' = [m \in Name |-> IF files'[m] = NoFile THEN Absent ELSE Contents(files'[m])]
    BY DEF Stores
  <2>2. \A m \in Name : (IF files'[m] = NoFile THEN Absent ELSE Contents(files'[m]))
                           = IF m = n THEN Contents(t) ELSE Stores[m]
    BY <1>1, <1>3, <1>4 DEF Stores
  <2>3. Stores = [m \in Name |-> Stores[m]]
    BY DEF Stores
  <2> QED
    BY <2>1, <2>2, <2>3
<1> QED
  BY <1>2, <1>5

LEMMA StoresOfCurrent ==
  ASSUME DInv, at # None
  PROVE  at \in Name /\ Stores[at] = Contents(db)
<1>1. at \in Name /\ at \in Path /\ Healthy(files[at], Val)
  BY DEF DInv, IInv, AllHealthy, EntriesAtHome, TableAt, Path
<1> QED
  BY <1>1, HealthyIsTable DEF Stores, db

LEMMA InitRefines == Init => KV!Init
BY DEF Init, KV!Init, Stores, Path

LEMMA StepRefines ==
  ASSUME DInv, [DirectNext]_vars
  PROVE  EntriesAtHome' /\ [KV!Next]_(KV!vars)
<1>1. ASSUME NEW n \in Name, Open(n) PROVE EntriesAtHome' /\ KV!Create(n)
  <2>1. Healthy(FreshTable(NoValue), Val)
    BY FreshHealthy DEF Val
  <2>2. Replace(n, FreshTable(NoValue)) /\ at' = n
    BY <1>1 DEF Open, Replace
  <2>3. EntriesAtHome' /\ Stores' = [Stores EXCEPT ![n] = NoContents]
    BY <2>1, <2>2, FreshContents, ReplaceDirect
  <2> QED
    BY <2>2, <2>3 DEF KV!Create, NoContents
<1>2. ASSUME NEW n \in Name, Load(n) PROVE EntriesAtHome' /\ KV!Load(n)
  <2>1. /\ at = None /\ at' = n /\ files' = files /\ files[n] # NoFile /\ n \in Path
    BY <1>2 DEF Load, Path
  <2>2. EntriesAtHome'
    BY <2>1 DEF DInv, EntriesAtHome, TableAt
  <2>3. Stores[n] # Absent
    <3>1. \A k \in Key : Get(files[n], k) \in Val \cup {Missing}
      <4>1. Healthy(files[n], Val) /\ AtHome(files[n])
        BY <2>1 DEF DInv, IInv, AllHealthy, EntriesAtHome, TableAt
      <4>2. files[n].pairs \in [Slots(files[n]) -> Pair(Val)]
        BY <4>1 DEF Healthy, TableType
      <4> QED
        BY <4>1, <4>2, DirectEntry DEF Pair
    <3> QED
      BY <2>1, <3>1, AbsentAssumption DEF Stores, Contents, Val
  <2>4. Stores' = Stores
    BY <2>1 DEF Stores
  <2> QED
    BY <2>1, <2>2, <2>3, <2>4 DEF KV!Load
<1>3. CASE Close
  <2>1. at # None /\ at' = None /\ files' = files
    BY <1>3, DirectAssumption DEF Close
  <2>2. EntriesAtHome'
    BY <2>1, HashDBAssumption DEF DInv, EntriesAtHome, TableAt, Path
  <2>3. Stores' = Stores
    BY <2>1 DEF Stores
  <2> QED
    BY <2>1, <2>2, <2>3 DEF KV!Close, KV!Next
<1>4. CASE Clear
  <2>1. at # None /\ at' = at /\ Replace(at, Cleared(db, NoValue))
    BY <1>4 DEF Clear, Replace
  <2>2. at \in Name /\ Healthy(db, Val)
    BY <2>1, StoresOfCurrent, CheckedHealthy DEF DInv
  <2>3. EntriesAtHome' /\ Stores' = [Stores EXCEPT ![at] = NoContents]
    BY <2>1, <2>2, ClearedHealthy, ClearedContents, ReplaceDirect DEF Val
  <2> QED
    BY <2>1, <2>3 DEF KV!DeleteAll, KV!Next, NoContents
<1>5. ASSUME NEW k \in Key, Erase(k) PROVE EntriesAtHome' /\ KV!Delete(k)
  <2>1. /\ at # None /\ at' = at /\ Replace(at, Erased(db, k))
        /\ StopDistances(db, k) # {} /\ db.pairs[GetEntry(db, k)].state = "FULL"
    BY <1>5 DEF Erase, Replace
  <2>2. at \in Name /\ Healthy(db, Val) /\ AtHome(db) /\ Stores[at] = Contents(db)
    BY <2>1, StoresOfCurrent, CheckedHealthy DEF DInv, EntriesAtHome, TableAt, db
  <2>3. EntriesAtHome' /\ Stores' = [Stores EXCEPT ![at] = [Contents(db) EXCEPT ![k] = Missing]]
    BY <2>1, <2>2, ErasedHealthy, ErasedContents, ReplaceDirect
  <2> QED
    BY <2>1, <2>2, <2>3 DEF KV!Delete, KV!Put
<1>6. ASSUME NEW k \in Key, NEW v \in Value, at # None, NeedsRehash(db) => InPlace, Set(k, v)
      PROVE  EntriesAtHome' /\ KV!Put(k, v)
  <2>1. /\ at \in Name /\ CheckedAt = at /\ Healthy(Checked, Val) /\ ~NeedsRehash(Checked)
        /\ AtHome(Checked) /\ Contents(Checked) = Stores[at]
    BY <1>6, StoresOfCurrent, CheckedDirect DEF InPlace
  <2>2. at' = at /\ Replace(at, Stored(Checked, k, v)) /\ StopDistances(Checked, k) # {}
    BY <1>6, <2>1 DEF Set
  <2>3. Healthy(Stored(Checked, k, v), Val)
    BY <2>1, <2>2, StoredHealthy DEF Val
  <2>4. /\ AtHome(Stored(Checked, k, v))
        /\ Contents(Stored(Checked, k, v)) = [Contents(Checked) EXCEPT ![k] = v]
    BY <2>1, StoredContents
  <2>5. EntriesAtHome' /\ Stores' = [Stores EXCEPT ![at] = Contents(Stored(Checked, k, v))]
    BY <2>1, <2>2, <2>3, <2>4, ReplaceDirect
  <2> QED
    BY <1>6, <2>1, <2>2, <2>4, <2>5 DEF KV!Put
<1>7. CASE InPlace /\ RehashNow
  <2>1. at # None /\ hpath = at /\ at' = at /\ Replace(at, Rehashed(db, NoValue))
    BY <1>7 DEF InPlace, RehashNow
  <2>2. at \in Name /\ Healthy(db, Val) /\ AtHome(db) /\ Stores[at] = Contents(db)
    BY <2>1, StoresOfCurrent, CheckedHealthy DEF DInv, EntriesAtHome, TableAt, db
  <2>3. EntriesAtHome' /\ Stores' = [Stores EXCEPT ![at] = Stores[at]]
    BY <2>1, <2>2, RehashedHealthy, RehashedContents, ReplaceDirect DEF Val
  <2>4. Stores' = Stores
    BY <2>3 DEF Stores
  <2> QED
    BY <2>1, <2>3, <2>4 DEF KV!vars
<1>8. CASE UNCHANGED vars
  BY <1>8 DEF vars, DInv, EntriesAtHome, TableAt, KV!vars, Stores
<1> QED
  BY <1>1, <1>2, <1>3, <1>4, <1>5, <1>6, <1>7, <1>8 DEF DirectNext, CollectGarbage, KV!Next

\* HashDB implements KVStore for the clients of HashDBDirect: what they put
\* is what they get, over rehashes, erasures and reloads.
THEOREM Refinement == DirectSpec => ImplementsKVStore
<1>1. DInv /\ [DirectNext]_vars => DInv'
  BY NextIInv, DirectIsNext, StepRefines DEF DInv
<1>2. DInv /\ [DirectNext]_vars => [KV!Next]_(KV!vars)
  BY StepRefines
<1> QED
  BY <1>1, <1>2, InitDInv, InitRefines, PTL DEF DirectSpec, ImplementsKVStore, KV!Spec

\* Every entry stays at the slot its key hashes to.
THEOREM AllAtHome == DirectSpec => []EntriesAtHome
<1>1. DInv /\ [DirectNext]_vars => DInv'
  BY NextIInv, DirectIsNext, StepRefines DEF DInv
<1>2. DInv => EntriesAtHome
  BY DEF DInv
<1> QED
  BY <1>1, <1>2, InitDInv, PTL DEF DirectSpec
=============================================================================
