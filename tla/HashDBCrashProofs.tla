-------------------------- MODULE HashDBCrashProofs --------------------------
(***************************************************************************)
(* What a killed process leaves, for every set of keys with any hashes,    *)
(* every number of kills and calls, any left-over .tmp file: what counts   *)
(* as an entry of a hash file has the key and the value of some set(),     *)
(* until a rehash takes over a pair that a kill left half copied.          *)
(***************************************************************************)
EXTENDS HashDBCrash, HashTableProofs

Val == (UNION {Values[k] : k \in Key}) \cup {NoValue}

\* A table with the slots it claims, each entry of which is whole.
TableOf(c) == [capacity : Nat, size : Nat, fill : Nat, pairs : [0 .. c - 1 -> Pair(Val)]]
Shaped(t) == t \in TableOf(t.capacity) /\ t.capacity > 0
Sound(t) == /\ t \in TableOf(t.capacity) /\ t.capacity > 0
            /\ \A i \in Slots(t) : t.pairs[i].state = "FULL" => IsOwn(t.pairs[i])

\* Of a .tmp file that is not in use only the shape is known: a rehash that was
\* killed left part of the pairs in it, and part of one pair.
FilesSound == /\ DOMAIN files = Path /\ DOMAIN temps = Path
              /\ \A p \in Path : files[p] = NoFile \/ Sound(files[p])
              /\ \A p \in Path : temps[p] = NoFile \/ Shaped(temps[p])

Mapped == /\ at # None => at \in Path /\ hpath \in Path /\ Sound(files[at])
          /\ pc \in {"copy", "rename"} => hpath \in Path /\ Sound(temps[hpath])
          /\ pc \notin {"idle", "rename"} => at # None

SetJob == job \in [key : Key, value : Val, slot : Nat] /\ job.value \in Values[job.key]

\* How far a set() has got with the slot that it fills.
JobDone == /\ pc = "clear" => next \in Nat
           /\ pc \in {"idle", "clear"} => job = NoJob
           /\ pc \in {"copy", "rename"} => job = NoJob \/ SetJob
           /\ pc \in {"key", "size", "fill", "value", "state"} => SetJob
           /\ pc \in {"size", "fill", "value", "state"} =>
                job.slot \in Slots(db) /\ Entry.key = job.key
           /\ pc = "state" => Entry.value = job.value

\* The inductive invariant, for as long as no pair was taken over half copied.
IInv == FilesSound /\ Mapped /\ JobDone

-----------------------------------------------------------------------------
\* Tables.

\* One pair of a table edited, or none, and the counters.
LEMMA EditedSound ==
  ASSUME NEW t, Sound(t), NEW i, NEW u \in TableOf(t.capacity), u.capacity = t.capacity,
         \A j \in Slots(t) : j # i => u.pairs[j] = t.pairs[j],
         i \in Slots(t) /\ u.pairs[i].state = "FULL" => IsOwn(u.pairs[i])
  PROVE  Sound(u)
BY DEF Sound, Slots

LEMMA CountedSound ==
  ASSUME NEW t, Sound(t), NEW n \in Nat
  PROVE  /\ Sound([t EXCEPT !.size = n]) /\ [t EXCEPT !.size = n].pairs = t.pairs
         /\ [t EXCEPT !.size = n].capacity = t.capacity
         /\ Sound([t EXCEPT !.fill = n]) /\ [t EXCEPT !.fill = n].pairs = t.pairs
         /\ [t EXCEPT !.fill = n].capacity = t.capacity
BY DEF Sound, TableOf, Slots

LEMMA PairEdited ==
  ASSUME NEW t, Sound(t), NEW i \in Slots(t), NEW q \in Pair(Val),
         q.state = "FULL" => IsOwn(q)
  PROVE  LET u == [t EXCEPT !.pairs[i] = q]
         IN  Sound(u) /\ u.capacity = t.capacity /\ u.pairs[i] = q
<1> DEFINE u == [t EXCEPT !.pairs[i] = q]
<1>1. t \in TableOf(t.capacity)
  BY DEF Sound
<1>2. /\ u \in TableOf(t.capacity) /\ u.capacity = t.capacity /\ u.pairs[i] = q
      /\ \A j \in Slots(t) : j # i => u.pairs[j] = t.pairs[j]
  BY <1>1 DEF TableOf, Slots
<1> HIDE DEF u
<1>3. Sound(u)
  BY <1>2, EditedSound
<1> QED
  BY <1>2, <1>3 DEF u

LEMMA EmptySound ==
  ASSUME NEW t, t \in TableOf(t.capacity), t.capacity > 0,
         \A i \in Slots(t) : t.pairs[i].state = "EMPTY"
  PROVE  Sound(t)
BY DEF Sound

LEMMA ZeroPairs == ZeroPair(NoValue) \in Pair(Val) /\ ZeroPair(NoValue).state = "EMPTY"
BY DEF ZeroPair, Pair, State, Val

LEMMA FreshSound == Sound(FreshTable(NoValue))
<1> DEFINE t == FreshTable(NoValue)
<1>1. /\ t \in TableOf(t.capacity) /\ t.capacity > 0
      /\ \A i \in Slots(t) : t.pairs[i].state = "EMPTY"
  BY ZeroPairs, CapacityAssumption DEF FreshTable, TableOf, Slots
<1> HIDE DEF t
<1>2. Sound(t)
  BY <1>1, EmptySound
<1> QED
  BY <1>2 DEF t

\* Counters stay in the range of a size_t.
LEMMA Wraps ==
  ASSUME NEW n \in Nat
  PROVE  (n + 1) % Word \in Nat /\ (n - 1) % Word \in Nat
BY CrashAssumption

\* The mapped table.
LEMMA MappedTable ==
  ASSUME IInv, at # None
  PROVE  /\ at \in Path /\ hpath \in Path /\ Sound(db) /\ db = files[at]
         /\ db.capacity \in Nat /\ db.capacity > 0 /\ db.size \in Nat /\ db.fill \in Nat
         /\ db \in TableOf(db.capacity) /\ db.pairs \in [Slots(db) -> Pair(Val)]
BY DEF IInv, Mapped, db, Sound, TableOf, Slots

\* A store that leaves a sound table leaves sound files.
LEMMA StoreInLoopKeeps ==
  ASSUME IInv, at # None, NEW u, Sound(u), NEW then, then \notin {"copy", "rename"},
         StoreInLoop(u, then)
  PROVE  /\ FilesSound' /\ Mapped' /\ db' = u
         /\ pc' = then
<1>1. at \in Path /\ hpath \in Path /\ at' = at /\ hpath' = hpath /\ temps' = temps /\ pc' = then
  BY MappedTable DEF Store, StoreInLoop
<1>2. DOMAIN files' = Path /\ \A p \in Path : files'[p] = IF p = at THEN u ELSE files[p]
  BY <1>1 DEF Store, StoreInLoop, IInv, FilesSound
<1>3. FilesSound'
  BY <1>1, <1>2 DEF IInv, FilesSound, Sound, Shaped, Slots, IsOwn
<1>4. files'[at'] = u
  BY <1>1, <1>2
<1>5. Mapped'
  BY <1>1, <1>4 DEF Mapped, Sound, Slots, IsOwn
<1> QED
  BY <1>1, <1>3, <1>4, <1>5 DEF db

LEMMA StoreKeeps ==
  ASSUME IInv, at # None, NEW u, Sound(u), NEW then, then \notin {"copy", "rename"}, Store(u, then)
  PROVE  /\ FilesSound' /\ Mapped' /\ db' = u
         /\ pc' = then
BY StoreInLoopKeeps DEF Store

-----------------------------------------------------------------------------
\* The invariant.

LEMMA InitIInv == Init => IInv
BY DEF Init, IInv, FilesSound, Mapped, JobDone

LEMMA OpenKeeps == ASSUME IInv, Open PROVE IInv'
<1>1. \A p \in Path : files'[p] = IF p = Named THEN FreshTable(NoValue) ELSE files[p]
  BY DEF Open, IInv, FilesSound, Path
<1>2. DOMAIN files' = Path /\ temps' = temps /\ at' = Named /\ hpath' = Named /\ Named \in Path
      /\ pc' = "idle" /\ job' = job /\ job = NoJob
  BY DEF Open, IInv, FilesSound, JobDone, Path, calls
<1>3. \A p \in Path : files'[p] = NoFile \/ Sound(files'[p])
  BY <1>1, FreshSound DEF IInv, FilesSound
<1>4. Sound(files'[Named])
  BY <1>1, <1>2, FreshSound
<1>5. FilesSound'
  BY <1>2, <1>3 DEF IInv, FilesSound, Sound, Shaped, Slots, IsOwn
<1>6. Mapped'
  BY <1>2, <1>4 DEF Mapped, Sound, Slots, IsOwn
<1>7. JobDone'
  BY <1>2 DEF JobDone
<1> QED
  BY <1>5, <1>6, <1>7 DEF IInv

\* load(), close() and a kill change no file.
LEMMA LoadKeeps == ASSUME IInv, Load PROVE IInv'
<1>1. /\ files' = files /\ temps' = temps /\ at' = Named /\ hpath' = Unnamed
      /\ pc' = "idle" /\ job' = NoJob /\ Named \in Path /\ Unnamed \in Path
      /\ Sound(files[Named])
  BY DEF Load, IInv, FilesSound, JobDone, Path, calls
<1>2. FilesSound'
  BY <1>1 DEF IInv, FilesSound
<1>3. Mapped' /\ JobDone'
  BY <1>1 DEF Mapped, JobDone
<1> QED
  BY <1>2, <1>3 DEF IInv

LEMMA UnmapKeeps == ASSUME IInv, Close \/ Kill PROVE IInv'
<1>1. /\ files' = files /\ temps' = temps /\ at' = None /\ pc' = "idle" /\ job' = NoJob
  BY DEF Close, Kill, Killed, Idle, IInv, JobDone, calls
<1>2. FilesSound'
  BY <1>1 DEF IInv, FilesSound
<1>3. Mapped' /\ JobDone'
  BY <1>1 DEF Mapped, JobDone
<1> QED
  BY <1>2, <1>3 DEF IInv

\* A kill in the copy of a pair leaves the fields of two.
LEMMA KillInCopyKeeps == ASSUME IInv, KillInCopy PROVE IInv'
<1> DEFINE i == Min(ToCopy)
           t == temps[hpath]
           h == NewHome(db, i)
<1>1. /\ files' = files /\ at' = None /\ pc' = "idle" /\ job' = NoJob
      /\ pc = "copy" /\ hpath \in Path /\ Sound(t) /\ at # None /\ Sound(db)
  BY MappedTable DEF KillInCopy, Killed, IInv, Mapped
<1>2. i \in Slots(db)
  <2>1. ToCopy \in SUBSET Nat /\ ToCopy # {}
    BY MappedTable, <1>1 DEF KillInCopy, ToCopy, Live, InState, Slots
  <2>2. i \in ToCopy
    BY <2>1, MinOfNats
  <2> QED
    BY <2>2 DEF ToCopy, Live, InState
<1>3. db.pairs[i] \in Pair(Val)
  BY <1>1, <1>2 DEF Sound, TableOf, Slots
<1>4. PICK F : temps' = [temps EXCEPT ![hpath].pairs[h] = HalfCopied(@, db.pairs[i], F)]
  BY Zenon DEF KillInCopy
<1> DEFINE q == HalfCopied(t.pairs[h], db.pairs[i], F)
           u == [t EXCEPT !.pairs[h] = q]
<1>5. temps' = [temps EXCEPT ![hpath] = u]
  BY <1>4
<1>6. t.pairs[h] \in Pair(Val) => q \in Pair(Val)
  BY <1>3 DEF HalfCopied, Pair
<1> HIDE DEF q, h
<1>7. Shaped(u)
  BY <1>1, <1>6 DEF Sound, Shaped, TableOf
<1> HIDE DEF u, t
<1>8. DOMAIN temps' = Path /\ \A p \in Path : temps'[p] = IF p = hpath THEN u ELSE temps[p]
  BY <1>1, <1>5 DEF IInv, FilesSound
<1>9. FilesSound'
  BY <1>1, <1>7, <1>8 DEF IInv, FilesSound, Sound, Shaped, Slots, IsOwn
<1>10. Mapped' /\ JobDone'
  BY <1>1 DEF Mapped, JobDone
<1> QED
  BY <1>9, <1>10 DEF IInv

\* The .tmp file has the pairs that were left in it, and none is of two pairs.
LEMMA StartRehashKeeps ==
  ASSUME IInv, at # None, StartRehash, job' = NoJob \/ SetJob', ~mixed'
  PROVE  IInv'
<1> DEFINE left == temps[hpath].pairs
           u == [capacity |-> 2 * db.capacity, size |-> db.size, fill |-> db.size,
                 pairs |-> [i \in 0 .. 2 * db.capacity - 1 |->
                              IF i \in DOMAIN left THEN left[i] ELSE ZeroPair(NoValue)]]
<1>1. /\ files' = files /\ at' = at /\ hpath' = hpath /\ pc' = "copy"
      /\ at \in Path /\ hpath \in Path /\ Sound(files[at])
  BY MappedTable DEF StartRehash
<1>2. temps' = [temps EXCEPT ![hpath] = u]
  BY DEF StartRehash
<1>3. \A i \in DOMAIN left : left[i] \in Pair(Val) /\ (left[i].state = "FULL" => IsOwn(left[i]))
  <2>1. CASE temps[hpath] = NoFile
    BY <2>1 DEF NoFile
  <2>2. CASE Shaped(temps[hpath])
    <3>1. \A i \in DOMAIN left : left[i] \in Pair(Val)
      BY <2>2 DEF Shaped, TableOf
    <3>2. \A i \in DOMAIN left : left[i].state = "FULL" => IsOwn(left[i])
      BY DEF StartRehash
    <3> QED
      BY <3>1, <3>2
  <2> QED
    BY <1>1, <2>1, <2>2 DEF IInv, FilesSound
<1>4. Sound(u)
  <2> HIDE DEF left
  <2>1. db.capacity \in Nat /\ db.capacity > 0 /\ db.size \in Nat
    BY MappedTable
  <2>2. \A i \in 0 .. 2 * db.capacity - 1 :
          u.pairs[i] \in Pair(Val) /\ (u.pairs[i].state = "FULL" => IsOwn(u.pairs[i]))
    BY <1>3, ZeroPairs
  <2>3. /\ u.capacity = 2 * db.capacity /\ u.capacity > 0 /\ u.capacity \in Nat
        /\ u.pairs \in [0 .. 2 * db.capacity - 1 -> Pair(Val)]
    <3>1. 2 * db.capacity > 0 /\ 2 * db.capacity \in Nat
      BY <2>1
    <3> DEFINE q == [i \in 0 .. 2 * db.capacity - 1 |->
                       IF i \in DOMAIN left THEN left[i] ELSE ZeroPair(NoValue)]
    <3>2. q \in [0 .. 2 * db.capacity - 1 -> Pair(Val)]
      BY <1>3, ZeroPairs
    <3>3. u.pairs = q /\ u.capacity = 2 * db.capacity
      OBVIOUS
    <3> QED
      BY <3>1, <3>2, <3>3
  <2>4. u \in TableOf(u.capacity)
    BY <2>1, <2>3 DEF TableOf
  <2> HIDE DEF u
  <2> QED
    BY <2>2, <2>3, <2>4 DEF Sound, Slots
<1> HIDE DEF u, left
<1>5. DOMAIN temps' = Path /\ \A p \in Path : temps'[p] = IF p = hpath THEN u ELSE temps[p]
  BY <1>1, <1>2 DEF IInv, FilesSound
<1>6. FilesSound'
  BY <1>1, <1>4, <1>5 DEF IInv, FilesSound, Sound, Shaped, Slots, IsOwn
<1>7. Mapped'
  BY <1>1, <1>4, <1>5 DEF IInv, Mapped, Sound, Slots, IsOwn
<1>8. JobDone'
  BY <1>1 DEF JobDone
<1> QED
  BY <1>6, <1>7, <1>8 DEF IInv

LEMMA CopyPairKeeps == ASSUME IInv, CopyPair PROVE IInv'
<1> DEFINE i == Min(ToCopy)
           t == temps[hpath]
           u == [t EXCEPT !.pairs[NewHome(db, i)] = db.pairs[i]]
<1>1. /\ files' = files /\ at' = at /\ hpath' = hpath /\ pc' = "copy" /\ pc = "copy" /\ job' = job
      /\ at \in Path /\ hpath \in Path /\ Sound(db) /\ Sound(files[at]) /\ Sound(t)
  BY MappedTable DEF CopyPair, IInv, Mapped
<1>2. i \in Slots(db) /\ db.pairs[i].state = "FULL"
  <2>1. ToCopy \in SUBSET Nat /\ ToCopy # {}
    BY MappedTable, <1>1 DEF CopyPair, ToCopy, Live, InState, Slots, IInv, Mapped
  <2>2. i \in ToCopy
    BY <2>1, MinOfNats
  <2> QED
    BY <2>2 DEF ToCopy, Live, InState
<1>3. db.pairs[i] \in Pair(Val) /\ IsOwn(db.pairs[i])
  BY <1>1, <1>2 DEF Sound, TableOf, Slots
<1>4. temps' = [temps EXCEPT ![hpath] = u]
  BY DEF CopyPair
<1> HIDE DEF i
<1>5. Sound(u)
  <2>1. t \in TableOf(t.capacity)
    BY <1>1 DEF Sound
  <2> HIDE DEF t
  <2>2. u \in TableOf(t.capacity) /\ u.capacity = t.capacity
    BY <1>3, <2>1 DEF TableOf
  <2>3. \A j \in Slots(t) : u.pairs[j] = IF j = NewHome(db, i) THEN db.pairs[i] ELSE t.pairs[j]
    BY <2>1 DEF TableOf, Slots
  <2> HIDE DEF u
  <2> QED
    BY <1>1, <1>3, <2>2, <2>3, EditedSound
<1> HIDE DEF u, t
<1>6. DOMAIN temps' = Path /\ \A p \in Path : temps'[p] = IF p = hpath THEN u ELSE temps[p]
  BY <1>1, <1>4 DEF IInv, FilesSound
<1>7. FilesSound'
  BY <1>1, <1>5, <1>6 DEF IInv, FilesSound, Sound, Shaped, Slots, IsOwn
<1>8. Mapped'
  BY <1>1, <1>5, <1>6 DEF IInv, Mapped, Sound, Slots, IsOwn
<1>9. JobDone'
  BY <1>1 DEF IInv, JobDone, SetJob
<1> QED
  BY <1>7, <1>8, <1>9 DEF IInv

LEMMA RemoveOldKeeps == ASSUME IInv, RemoveOld PROVE IInv'
<1>1. /\ temps' = temps /\ at' = None /\ hpath' = hpath /\ pc' = "rename" /\ job' = job
      /\ pc = "copy" /\ hpath \in Path /\ Sound(temps[hpath])
  BY DEF RemoveOld, IInv, Mapped
<1>2. DOMAIN files' = Path /\ \A p \in Path : files'[p] = IF p = hpath THEN NoFile ELSE files[p]
  BY <1>1 DEF RemoveOld, IInv, FilesSound
<1>3. FilesSound'
  BY <1>1, <1>2 DEF IInv, FilesSound, Sound, Shaped, Slots, IsOwn
<1>4. Mapped' /\ JobDone'
  BY <1>1 DEF IInv, Mapped, JobDone, SetJob
<1> QED
  BY <1>3, <1>4 DEF IInv

LEMMA RenameNewKeeps == ASSUME IInv, RenameNew PROVE IInv'
<1>1. /\ at' = hpath /\ hpath' = hpath /\ pc' = IF job = NoJob THEN "idle" ELSE "key"
      /\ job' = job /\ pc = "rename" /\ hpath \in Path /\ Sound(temps[hpath])
  BY DEF RenameNew, IInv, Mapped
<1>2. /\ DOMAIN files' = Path /\ DOMAIN temps' = Path
      /\ \A p \in Path : files'[p] = IF p = hpath THEN temps[hpath] ELSE files[p]
      /\ \A p \in Path : temps'[p] = IF p = hpath THEN NoFile ELSE temps[p]
  BY <1>1 DEF RenameNew, IInv, FilesSound
<1>3. FilesSound'
  BY <1>1, <1>2 DEF IInv, FilesSound, Sound, Shaped, Slots, IsOwn
<1>4. hpath # None
  BY <1>1, CrashAssumption DEF Path
<1>5. Mapped'
  BY <1>1, <1>2, <1>4 DEF Mapped, Sound, Slots, IsOwn
<1>6. JobDone'
  BY <1>1 DEF IInv, JobDone, SetJob
<1> QED
  BY <1>3, <1>5, <1>6 DEF IInv

-----------------------------------------------------------------------------
\* The stores of a set().

LEMMA WriteKeyKeeps == ASSUME IInv, WriteKey PROVE IInv'
<1> DEFINE i == GetEntry(db, job.key)
           q == [db.pairs[i] EXCEPT !.key = job.key]
           u == [db EXCEPT !.pairs[i] = q]
<1>1. at # None /\ SetJob /\ job.key \in Key /\ job' = [job EXCEPT !.slot = i]
  BY DEF WriteKey, IInv, Mapped, JobDone, SetJob
<1>2. i \in Slots(db) /\ Stops(db, job.key, i)
  BY <1>1, MappedTable, GetEntryStops DEF WriteKey
<1>3. db.pairs[i] \in Pair(Val) /\ db.pairs \in [Slots(db) -> Pair(Val)]
      /\ (db.pairs[i].state = "FULL" => IsOwn(db.pairs[i])) /\ Sound(db)
  BY <1>1, <1>2, MappedTable DEF Sound
<1>4. q \in Pair(Val) /\ q.key = job.key /\ (q.state = "FULL" => IsOwn(q))
  BY <1>1, <1>2, <1>3 DEF Pair, Stops, IsOwn
<1>5. [db EXCEPT !.pairs[i].key = job.key] = u
  BY <1>3, <1>2
<1>6. Store(u, "size")
  BY <1>5 DEF WriteKey
<1> HIDE DEF q, i
<1>7. Sound(u) /\ u.capacity = db.capacity /\ u.pairs[i] = q
  BY <1>2, <1>3, <1>4, PairEdited
<1> HIDE DEF u
<1>8. FilesSound' /\ Mapped' /\ db' = u /\ pc' = "size"
  BY <1>1, <1>6, <1>7, StoreKeeps
<1>9. SetJob' /\ job'.slot = i /\ job'.key = job.key
  BY <1>1, <1>2, MappedTable DEF SetJob, Slots
<1>10. JobDone'
  BY <1>2, <1>4, <1>7, <1>8, <1>9 DEF JobDone, Entry, Slots
<1> QED
  BY <1>8, <1>10 DEF IInv

\* The counters.
LEMMA CountKeeps == ASSUME IInv, CountEntry \/ CountSlot PROVE IInv'
<1>1. at # None /\ SetJob /\ job.slot \in Slots(db) /\ Entry.key = job.key /\ job' = job
  BY DEF CountEntry, CountSlot, IInv, Mapped, JobDone
<1>2. PICK u, then : /\ Store(u, then) /\ then \in {"fill", "value"} /\ Sound(u)
                     /\ u.pairs = db.pairs /\ u.capacity = db.capacity
  <2>1. /\ db.size \in Nat /\ (db.size + 1) % Word \in Nat
        /\ db.fill \in Nat /\ (db.fill + 1) % Word \in Nat /\ Sound(db)
    BY <1>1, MappedTable, Wraps
  <2>2. CASE CountEntry
    <3> DEFINE n == IF Entry.state # "FULL" THEN (db.size + 1) % Word ELSE db.size
               w == [db EXCEPT !.size = n]
    <3>1. Store(w, "fill")
      BY <2>2 DEF CountEntry
    <3>2. n \in Nat
      BY <2>1
    <3> HIDE DEF n
    <3>3. Sound(w) /\ w.pairs = db.pairs /\ w.capacity = db.capacity
      BY <2>1, <3>2, CountedSound
    <3> HIDE DEF w
    <3> QED
      BY <3>1, <3>3
  <2>3. CASE CountSlot
    <3> DEFINE n == IF Entry.state = "EMPTY" THEN (db.fill + 1) % Word ELSE db.fill
               w == [db EXCEPT !.fill = n]
    <3>1. Store(w, "value")
      BY <2>3 DEF CountSlot
    <3>2. n \in Nat
      BY <2>1
    <3> HIDE DEF n
    <3>3. Sound(w) /\ w.pairs = db.pairs /\ w.capacity = db.capacity
      BY <2>1, <3>2, CountedSound
    <3> HIDE DEF w
    <3> QED
      BY <3>1, <3>3
  <2> QED
    BY <2>2, <2>3
<1>3. FilesSound' /\ Mapped' /\ db' = u /\ pc' = then
  BY <1>1, <1>2, StoreKeeps
<1>4. JobDone'
  BY <1>1, <1>2, <1>3 DEF JobDone, Entry, Slots, SetJob
<1> QED
  BY <1>3, <1>4 DEF IInv

\* The value and the state: what becomes an entry is the key and value of the call.
LEMMA WriteValueKeeps == ASSUME IInv, WriteValue PROVE IInv'
<1> DEFINE i == job.slot
           q == [db.pairs[i] EXCEPT !.value = job.value]
           u == [db EXCEPT !.pairs[i] = q]
<1>1. at # None /\ SetJob /\ i \in Slots(db) /\ Entry.key = job.key /\ job' = job
  BY DEF WriteValue, IInv, Mapped, JobDone
<1>2. db.pairs[i] \in Pair(Val) /\ db.pairs \in [Slots(db) -> Pair(Val)] /\ Sound(db)
  BY <1>1, MappedTable
<1>3. q \in Pair(Val) /\ q.key = job.key /\ q.value = job.value /\ IsOwn(q)
  BY <1>1, <1>2 DEF Pair, IsOwn, SetJob, Entry
<1>4. [db EXCEPT !.pairs[i].value = job.value] = u
  BY <1>1, <1>2
<1>5. Store(u, "state")
  BY <1>4 DEF WriteValue
<1> HIDE DEF q
<1>6. Sound(u) /\ u.capacity = db.capacity /\ u.pairs[i] = q
  BY <1>1, <1>2, <1>3, PairEdited
<1> HIDE DEF u
<1>7. FilesSound' /\ Mapped' /\ db' = u /\ pc' = "state"
  BY <1>1, <1>5, <1>6, StoreKeeps
<1>8. JobDone'
  BY <1>1, <1>3, <1>6, <1>7 DEF JobDone, Entry, Slots, SetJob
<1> QED
  BY <1>7, <1>8 DEF IInv

LEMMA MarkFullKeeps == ASSUME IInv, MarkFull PROVE IInv'
<1> DEFINE i == job.slot
           q == [db.pairs[i] EXCEPT !.state = "FULL"]
           u == [db EXCEPT !.pairs[i] = q]
<1>1. /\ at # None /\ SetJob /\ i \in Slots(db) /\ Entry.key = job.key
      /\ Entry.value = job.value /\ job' = NoJob
  BY DEF MarkFull, IInv, Mapped, JobDone
<1>2. db.pairs[i] \in Pair(Val) /\ db.pairs \in [Slots(db) -> Pair(Val)] /\ Sound(db)
  BY <1>1, MappedTable
<1>3. q \in Pair(Val) /\ IsOwn(q)
  BY <1>1, <1>2 DEF Pair, State, IsOwn, SetJob, Entry
<1>4. [db EXCEPT !.pairs[i].state = "FULL"] = u
  BY <1>1, <1>2
<1>5. Store(u, "idle")
  BY <1>4 DEF MarkFull
<1> HIDE DEF q
<1>6. Sound(u)
  BY <1>1, <1>2, <1>3, PairEdited
<1> HIDE DEF u
<1>7. FilesSound' /\ Mapped' /\ pc' = "idle"
  BY <1>1, <1>5, <1>6, StoreKeeps
<1>8. JobDone'
  BY <1>1, <1>7 DEF JobDone
<1> QED
  BY <1>7, <1>8 DEF IInv

-----------------------------------------------------------------------------
\* erase() and clear().

LEMMA EraseCalledKeeps == ASSUME IInv, NEW k \in Key, EraseCalled(k) PROVE IInv'
<1> DEFINE n == (db.size - 1) % Word
           u == [db EXCEPT !.size = n]
<1>1. at # None /\ Sound(db) /\ n \in Nat
  BY MappedTable, Wraps DEF EraseCalled, Begin, Idle
<1>2. Store(u, "tombstone")
  BY DEF EraseCalled
<1> HIDE DEF n
<1>3. Sound(u)
  BY <1>1, CountedSound
<1> HIDE DEF u
<1>4. FilesSound' /\ Mapped' /\ pc' = "tombstone"
  BY <1>1, <1>2, <1>3, StoreKeeps
<1>5. JobDone'
  BY <1>4 DEF JobDone
<1> QED
  BY <1>4, <1>5 DEF IInv

LEMMA MarkTombstoneKeeps == ASSUME IInv, MarkTombstone PROVE IInv'
<1> DEFINE i == job.slot
           u == [db EXCEPT !.pairs[i].state = "TOMBSTONE"]
<1>1. at # None /\ Store(u, "idle") /\ job' = NoJob
  BY DEF MarkTombstone, IInv, Mapped
<1>2. Sound(db) /\ db \in TableOf(db.capacity)
  BY <1>1, MappedTable
<1> DEFINE ps == [db.pairs EXCEPT ![i].state = "TOMBSTONE"]
<1>8. u = [db EXCEPT !.pairs = ps] /\ db.pairs \in [Slots(db) -> Pair(Val)]
  BY <1>2 DEF TableOf, Slots
<1>9. ASSUME i \in Slots(db)
      PROVE  [db.pairs[i] EXCEPT !.state = "TOMBSTONE"] \in Pair(Val) /\ ps[i].state = "TOMBSTONE"
  BY <1>8, <1>9 DEF Pair, State
<1>10. ps \in [Slots(db) -> Pair(Val)] /\ \A j \in Slots(db) : j # i => ps[j] = db.pairs[j]
  BY <1>8, <1>9
<1> HIDE DEF ps
<1>3. u \in TableOf(db.capacity) /\ u.capacity = db.capacity /\ u.pairs = ps
  BY <1>2, <1>8, <1>10 DEF TableOf, Slots
<1>4. i \in Slots(db) => u.pairs[i].state # "FULL"
  BY <1>3, <1>9
<1> HIDE DEF u
<1>5. Sound(u)
  BY <1>2, <1>3, <1>4, <1>10, EditedSound
<1>6. FilesSound' /\ Mapped' /\ pc' = "idle"
  BY <1>1, <1>5, StoreKeeps
<1>7. JobDone'
  BY <1>1, <1>6 DEF JobDone
<1> QED
  BY <1>6, <1>7 DEF IInv

LEMMA ClearCalledKeeps == ASSUME IInv, ClearCalled PROVE IInv'
<1>1. /\ files' = files /\ temps' = temps /\ at' = at /\ hpath' = hpath /\ job' = job
      /\ pc' = "clear" /\ at # None /\ job = NoJob /\ next' = 0
  BY DEF ClearCalled, Begin, Idle, IInv, JobDone
<1>2. FilesSound' /\ Mapped' /\ JobDone'
  BY <1>1 DEF IInv, FilesSound, Mapped, JobDone
<1> QED
  BY <1>2 DEF IInv

LEMMA ClearPairKeeps == ASSUME IInv, ClearPair PROVE IInv'
<1> DEFINE q == ZeroPair(NoValue)
           u == [db EXCEPT !.pairs[next] = q]
<1>1. at # None /\ StoreInLoop(u, "clear") /\ job' = job /\ job = NoJob /\ next < db.capacity
      /\ next \in Nat /\ next' = next + 1
  BY DEF ClearPair, IInv, Mapped, JobDone
<1>2. Sound(db) /\ next \in Slots(db)
  BY <1>1, MappedTable DEF Slots
<1>3. q \in Pair(Val) /\ q.state # "FULL"
  BY ZeroPairs
<1> HIDE DEF q
<1>4. Sound(u)
  BY <1>2, <1>3, PairEdited
<1> HIDE DEF u
<1>5. FilesSound' /\ Mapped' /\ pc' = "clear"
  BY <1>1, <1>4, StoreInLoopKeeps
<1>6. JobDone'
  BY <1>1, <1>5 DEF JobDone
<1> QED
  BY <1>5, <1>6 DEF IInv

LEMMA ClearSizeKeeps == ASSUME IInv, ClearSize PROVE IInv'
<1> DEFINE u == [db EXCEPT !.size = 0]
<1>1. /\ at # None /\ job' = job /\ job = NoJob /\ StoreInLoop(u, "clear")
      /\ next' = next + 1 /\ next \in Nat
  BY DEF ClearSize, IInv, Mapped, JobDone
<1>2. Sound(u)
  BY <1>1, MappedTable, CountedSound
<1> HIDE DEF u
<1>3. FilesSound' /\ Mapped' /\ pc' = "clear"
  BY <1>1, <1>2, StoreInLoopKeeps
<1>4. JobDone'
  BY <1>1, <1>3 DEF JobDone
<1> QED
  BY <1>3, <1>4 DEF IInv

LEMMA ClearFillKeeps == ASSUME IInv, ClearFill PROVE IInv'
<1> DEFINE u == [db EXCEPT !.fill = 0]
<1>1. at # None /\ job' = job /\ job = NoJob /\ StoreInLoop(u, "idle")
  BY DEF ClearFill, IInv, Mapped, JobDone
<1>2. Sound(u)
  BY <1>1, MappedTable, CountedSound
<1> HIDE DEF u
<1>3. FilesSound' /\ Mapped' /\ pc' = "idle"
  BY <1>1, <1>2, StoreInLoopKeeps
<1>4. JobDone'
  BY <1>1, <1>3 DEF JobDone
<1> QED
  BY <1>3, <1>4 DEF IInv

-----------------------------------------------------------------------------
LEMMA SetCalledKeeps ==
  ASSUME IInv, NEW k \in Key, NEW v \in Values[k], SetCalled(k, v), ~mixed' PROVE IInv'
<1>1. at # None /\ v \in Val /\ job' = [key |-> k, value |-> v, slot |-> 0]
  BY DEF SetCalled, Begin, Idle, Val
<1>2. SetJob'
  BY <1>1 DEF SetJob
<1>3. CASE StartRehash
  BY <1>1, <1>2, <1>3, StartRehashKeeps
<1>4. CASE pc' = "key" /\ UNCHANGED <<files, temps, at, hpath, next, reused, mixed>>
  <2>1. FilesSound'
    BY <1>4 DEF IInv, FilesSound
  <2>2. Mapped' /\ JobDone'
    BY <1>1, <1>2, <1>4 DEF IInv, Mapped, JobDone
  <2> QED
    BY <2>1, <2>2 DEF IInv
<1> QED
  BY <1>3, <1>4 DEF SetCalled

LEMMA NextIInv == IInv /\ ~mixed' /\ [Next]_vars => IInv'
<1> SUFFICES ASSUME IInv, ~mixed', [Next]_vars PROVE IInv'
  OBVIOUS
<1>1. CASE RehashNow
  <2>1. at # None /\ StartRehash /\ job' = NoJob
    BY <1>1 DEF RehashNow, Begin, Idle, IInv, JobDone
  <2> QED
    BY <2>1, StartRehashKeeps
<1>2. CASE UNCHANGED vars
  <2>1. FilesSound' /\ Mapped' /\ JobDone'
    BY <1>2 DEF vars, calls, IInv, FilesSound, Mapped, JobDone, SetJob, Entry, db
  <2> QED
    BY <2>1 DEF IInv
<1>3. CASE Open \/ Load \/ Close \/ Kill \/ KillInCopy
  BY <1>3, OpenKeeps, LoadKeeps, UnmapKeeps, KillInCopyKeeps
<1>4. CASE CopyPair \/ RemoveOld \/ RenameNew
  BY <1>4, CopyPairKeeps, RemoveOldKeeps, RenameNewKeeps
<1>5. CASE WriteKey \/ CountEntry \/ CountSlot \/ WriteValue \/ MarkFull
  BY <1>5, WriteKeyKeeps, CountKeeps, WriteValueKeeps, MarkFullKeeps
<1>6. CASE MarkTombstone \/ ClearCalled \/ ClearPair \/ ClearSize \/ ClearFill
  BY <1>6, MarkTombstoneKeeps, ClearCalledKeeps, ClearPairKeeps, ClearSizeKeeps,
           ClearFillKeeps
<1> QED
  BY <1>1, <1>2, <1>3, <1>4, <1>5, <1>6, SetCalledKeeps, EraseCalledKeeps DEF Next

\* What a history says stays said; a pair is taken over with a .tmp file.
LEMMA HistoryStays == [Next]_vars => (mixed => mixed') /\ ((mixed => reused) => (mixed' => reused'))
<1> SUFFICES ASSUME [Next]_vars PROVE (mixed => mixed') /\ ((mixed => reused) => (mixed' => reused'))
  OBVIOUS
<1>1. CASE StartRehash
  <2> DEFINE left == temps[hpath].pairs
  <2>1. /\ reused' = (reused \/ temps[hpath] # NoFile)
        /\ mixed' = (mixed \/ \E i \in DOMAIN left : left[i].state = "FULL" /\ ~IsOwn(left[i]))
    BY <1>1 DEF StartRehash
  <2>2. temps[hpath] = NoFile => DOMAIN left = {}
    BY DEF NoFile
  <2> QED
    BY <2>1, <2>2
<1>2. CASE UNCHANGED <<reused, mixed>>
  BY <1>2
<1>3. CASE UNCHANGED vars
  BY <1>2, <1>3 DEF vars, history
<1>4. CASE Open \/ Load \/ Close \/ CopyPair \/ RemoveOld \/ RenameNew
  BY <1>2, <1>4 DEF Open, Load, Close, CopyPair, RemoveOld, RenameNew, history
<1>5. CASE RehashNow \/ \E k \in Key : \E v \in Values[k] : SetCalled(k, v)
  BY <1>1, <1>2, <1>5 DEF RehashNow, SetCalled
<1>6. CASE WriteKey \/ CountEntry \/ CountSlot \/ WriteValue \/ MarkFull \/ MarkTombstone
  BY <1>2, <1>6 DEF WriteKey, CountEntry, CountSlot, WriteValue, MarkFull, MarkTombstone,
                    Store, StoreInLoop
<1>7. CASE (\E k \in Key : EraseCalled(k)) \/ ClearCalled \/ ClearPair \/ ClearSize \/ ClearFill
  BY <1>2, <1>7 DEF EraseCalled, ClearCalled, ClearPair, ClearSize, ClearFill, Store, StoreInLoop
<1>8. CASE Kill \/ KillInCopy
  BY <1>2, <1>8 DEF Kill, KillInCopy, Killed
<1> QED
  BY <1>3, <1>4, <1>5, <1>6, <1>7, <1>8 DEF Next

LEMMA MixedReused == Spec => [](mixed => reused)
<1>1. Init => (mixed => reused)
  BY DEF Init
<1>2. (mixed => reused) /\ [Next]_vars => (mixed => reused)'
  BY HistoryStays
<1> QED
  BY <1>1, <1>2, PTL DEF Spec

THEOREM Inductive == Spec => [](~mixed => IInv)
<1>1. Init => (~mixed => IInv)
  BY InitIInv
<1>2. (~mixed => IInv) /\ [Next]_vars => (~mixed => IInv)'
  BY NextIInv, HistoryStays
<1> QED
  BY <1>1, <1>2, PTL DEF Spec

\* However often the process was killed, and wherever, inside the copy of a pair
\* too: a get() that ends answers with a value that some set() was called with for
\* that key, unless a rehash has taken over a .tmp file with a half-copied pair.
THEOREM KilledReadsAreOwn == Spec => []ReadsAreOwn
<1>1. ASSUME IInv, at # None, NEW k \in Key, StopDistances(db, k) # {}
      PROVE  Get(db, k) \in Values[k] \cup {Missing}
  <2> DEFINE i == GetEntry(db, k)
  <2>1. Sound(db) /\ i \in Slots(db) /\ Stops(db, k, i)
    BY <1>1, MappedTable, GetEntryStops
  <2> QED
    BY <2>1 DEF Get, Stops, Sound, IsOwn
<1>2. (~mixed => IInv) => ReadsAreOwn
  BY <1>1 DEF ReadsAreOwn
<1> QED
  BY <1>2, Inductive, PTL

-----------------------------------------------------------------------------
(***************************************************************************)
(* What the counters are worth after kills, for the files of no left-over  *)
(* .tmp file.  The invariant is as much about the middle of a call as      *)
(* about its ends: a counter is raised before the entry it counts, and     *)
(* lowered before the entry goes.                                          *)
(***************************************************************************)

\* size and fill as the numbers they stand for: erase() may take size below 0.
Signed(n) == IF n <= MaxCalls THEN n ELSE n - Word
Used(t) == Cardinality(Live(t)) + Cardinality(Tombs(t))

\* The counters of a table are at most bs and bf; size is at most hs short of the
\* entries, and fill at most hf short of the entries and tombstones.
Counted(t, bs, bf, hs, hf) ==
  /\ t.capacity >= InitCapacity
  /\ t.size \in 0 .. Word - 1 /\ Signed(t.size) <= bs /\ Cardinality(Live(t)) <= Signed(t.size) + hs
  /\ t.fill \in 0 .. Word - 1 /\ Signed(t.fill) <= bf /\ Used(t) <= Signed(t.fill) + hf

\* A call raises a counter once: until it has, one more call has begun.
SizeBound == IF pc \in {"copy", "rename", "key", "size"} THEN begun - 1 ELSE begun
FillBound == IF pc \in {"copy", "rename", "key", "size", "fill"} THEN begun - 1 ELSE begun

\* A set() counts its entry before it makes it one, an erase() too.
SizeShort(p) == CASE p = at /\ pc = "tombstone" -> halfErased + 1
                  [] p = at /\ pc \in {"fill", "value", "state"} /\ Entry.state # "FULL" -> halfErased - 1
                  [] OTHER -> halfErased
FillShort(p) == IF p = at /\ pc \in {"value", "state"} /\ Entry.state = "EMPTY"
                THEN halfErased - 1 ELSE halfErased

FilesCounted ==
  \A p \in Path : files[p] # NoFile =>
    Counted(files[p], SizeBound, FillBound, SizeShort(p), FillShort(p))

\* The table rehash() has copied the pairs before slot n to.
CopiedBefore(t, j, n) == {i \in CopiedTo(t, j) : i < n}
PartCopied(t, n) ==
  [capacity |-> 2 * t.capacity, size |-> t.size, fill |-> t.size,
   pairs |-> [j \in 0 .. 2 * t.capacity - 1 |->
                IF CopiedBefore(t, j, n) = {} THEN ZeroPair(NoValue)
                                              ELSE t.pairs[Max(CopiedBefore(t, j, n))]]]

NewTableMade ==
  /\ pc = "copy" => temps[hpath] = PartCopied(db, next)
  /\ pc = "rename" => /\ Counted(temps[hpath], SizeBound, FillBound, halfErased, halfErased)
                      /\ Used(temps[hpath]) < temps[hpath].capacity

\* A set() leaves get_entry a slot to stop at while it looks for its own.
SlotLeft == pc \in {"key", "size", "fill", "value", "state"} /\ halfErased <= 1
              => Used(db) < db.capacity

\* The slot of a call is the one get_entry returned.
SlotFound ==
  /\ pc \in {"size", "fill", "value", "state"} =>
       StopDistances(db, job.key) # {} /\ job.slot = GetEntry(db, job.key)
  /\ pc = "tombstone" => job.slot \in Slots(db) /\ Entry.state = "FULL"

\* clear() takes the pairs first, from the first on.
Emptied == pc = "clear" => \A i \in Slots(db) : i < next => db.pairs[i].state = "EMPTY"

HistoryBounds == /\ next \in Nat /\ begun \in 0 .. MaxCalls /\ kills \in 0 .. MaxKills
                 /\ halfErased \in 0 .. kills

\* Of a table that a left-over .tmp file was taken into, the counters say nothing.
CInv == /\ HistoryBounds /\ SlotFound /\ Emptied
        /\ ~reused => FilesCounted /\ NewTableMade /\ SlotLeft

-----------------------------------------------------------------------------
\* Counters.

LEMMA SignedRange ==
  ASSUME NEW n \in 0 .. Word - 1
  PROVE  Signed(n) \in Int /\ Signed(n) <= n /\ Signed(n) <= MaxCalls
BY CrashAssumption, CountAssumption DEF Signed

\* Counting up and down, without coming to the other end of a size_t.
LEMMA CountUp ==
  ASSUME NEW n \in 0 .. Word - 1, Signed(n) < MaxCalls
  PROVE  (n + 1) % Word \in 0 .. Word - 1 /\ Signed((n + 1) % Word) = Signed(n) + 1
<1>1. Word \in Nat /\ Word > 0 /\ MaxCalls \in Nat /\ MaxCalls < Word
  BY CrashAssumption, CountAssumption
<1>2. CASE n = Word - 1
  <2>1. (n + 1) % Word = 0
    BY <1>1, <1>2
  <2> QED
    BY <1>1, <1>2, <2>1 DEF Signed
<1>3. CASE n < Word - 1
  <2>1. (n + 1) % Word = n + 1
    BY <1>1, <1>3
  <2> QED
    BY <1>1, <1>3, <2>1 DEF Signed
<1> QED
  BY <1>1, <1>2, <1>3

LEMMA CountDown ==
  ASSUME NEW n \in 0 .. Word - 1, NEW h \in 0 .. MaxKills, Signed(n) + h >= 1
  PROVE  (n - 1) % Word \in 0 .. Word - 1 /\ Signed((n - 1) % Word) = Signed(n) - 1
<1>1. /\ Word \in Nat /\ Word > 0 /\ MaxCalls \in Nat /\ MaxKills \in Nat
      /\ MaxCalls + MaxKills < Word
  BY CrashAssumption, CountAssumption
<1>2. CASE n = 0
  <2>1. (n - 1) % Word = Word - 1
    BY <1>1, <1>2
  <2> QED
    BY <1>1, <1>2, <2>1 DEF Signed
<1>3. CASE n > 0
  <2>1. (n - 1) % Word = n - 1
    BY <1>1, <1>3
  <2> QED
    BY <1>1, <1>3, <2>1 DEF Signed
<1> QED
  BY <1>2, <1>3

-----------------------------------------------------------------------------
\* Counted tables.

LEMMA SoundCounts ==
  ASSUME NEW t, Sound(t)
  PROVE  /\ Cardinality(Live(t)) \in Nat /\ Cardinality(Tombs(t)) \in Nat /\ Used(t) \in Nat
         /\ t.capacity \in Nat /\ t.capacity > 0 /\ t.size \in Nat /\ t.fill \in Nat
BY StatesFinite DEF Sound, TableOf, Used

LEMMA SamePairs ==
  ASSUME NEW t, NEW u, u.capacity = t.capacity, u.pairs = t.pairs
  PROVE  /\ Live(u) = Live(t) /\ Cardinality(Live(u)) = Cardinality(Live(t)) /\ Used(u) = Used(t)
         /\ \A k : StopDistances(u, k) = StopDistances(t, k) /\ GetEntry(u, k) = GetEntry(t, k)
<1>1. Live(u) = Live(t) /\ Tombs(u) = Tombs(t)
  BY Zenon DEF Live, Tombs, InState, Slots
<1>2. \A k : \A d : Probe(u, k, d) = Probe(t, k, d)
  BY DEF Probe, Home
<1>3. \A k : StopDistances(u, k) = StopDistances(t, k)
  BY <1>2 DEF StopDistances, Stops, Slots
<1>4. \A k : GetEntry(u, k) = GetEntry(t, k)
  BY <1>2, <1>3, Zenon DEF GetEntry
<1> QED
  BY <1>1, <1>3, <1>4, Zenon DEF Used

\* One pair written.
LEMMA EditCounts ==
  ASSUME NEW t, Sound(t), NEW u, NEW i \in Slots(t), NEW q \in Pair(Val),
         u.capacity = t.capacity, u.pairs = [t.pairs EXCEPT ![i] = q]
  PROVE  LET old == t.pairs[i].state
         IN  /\ q.state = old =>
                  Cardinality(Live(u)) = Cardinality(Live(t)) /\ Used(u) = Used(t)
             /\ old = "EMPTY" /\ q.state = "FULL" =>
                  Cardinality(Live(u)) = Cardinality(Live(t)) + 1 /\ Used(u) = Used(t) + 1
             /\ old = "TOMBSTONE" /\ q.state = "FULL" =>
                  Cardinality(Live(u)) = Cardinality(Live(t)) + 1 /\ Used(u) = Used(t)
             /\ old = "FULL" /\ q.state = "TOMBSTONE" =>
                  Cardinality(Live(u)) = Cardinality(Live(t)) - 1 /\ Used(u) = Used(t)
             /\ q.state = "EMPTY" =>
                  Cardinality(Live(u)) <= Cardinality(Live(t)) /\ Used(u) <= Used(t)
<1>1. t.capacity \in Nat /\ t.pairs \in [Slots(t) -> Pair(Val)]
  BY DEF Sound, TableOf, Slots
<1>2. "FULL" \in State /\ "TOMBSTONE" \in State
  BY DEF State
<1>3. /\ Cardinality(Live(t)) \in Nat
      /\ t.pairs[i].state = "FULL" /\ q.state # "FULL" =>
           Cardinality(Live(u)) = Cardinality(Live(t)) - 1
      /\ t.pairs[i].state # "FULL" /\ q.state = "FULL" =>
           Cardinality(Live(u)) = Cardinality(Live(t)) + 1
      /\ (t.pairs[i].state = "FULL" <=> q.state = "FULL") =>
           Cardinality(Live(u)) = Cardinality(Live(t))
  BY <1>1, <1>2, CountsAfterWrite DEF Live
<1>4. /\ Cardinality(Tombs(t)) \in Nat
      /\ t.pairs[i].state = "TOMBSTONE" /\ q.state # "TOMBSTONE" =>
           Cardinality(Tombs(u)) = Cardinality(Tombs(t)) - 1
      /\ t.pairs[i].state # "TOMBSTONE" /\ q.state = "TOMBSTONE" =>
           Cardinality(Tombs(u)) = Cardinality(Tombs(t)) + 1
      /\ (t.pairs[i].state = "TOMBSTONE" <=> q.state = "TOMBSTONE") =>
           Cardinality(Tombs(u)) = Cardinality(Tombs(t))
  BY <1>1, <1>2, CountsAfterWrite DEF Tombs
<1> QED
  BY <1>3, <1>4 DEF Used

LEMMA CountedWider ==
  ASSUME NEW t, Sound(t), NEW bs \in Int, NEW bf \in Int, NEW hs \in Int, NEW hf \in Int,
         NEW cs \in Int, NEW cf \in Int, NEW gs \in Int, NEW gf \in Int,
         Counted(t, bs, bf, hs, hf), bs <= cs, bf <= cf, hs <= gs, hf <= gf
  PROVE  Counted(t, cs, cf, gs, gf)
<1>1. Cardinality(Live(t)) \in Nat /\ Used(t) \in Nat
  BY SoundCounts
<1>2. Signed(t.size) \in Int /\ Signed(t.fill) \in Int
  BY SignedRange DEF Counted
<1> QED
  BY <1>1, <1>2 DEF Counted

\* An empty table needs no counts.
LEMMA NoneUsed ==
  ASSUME NEW t, t.capacity \in Nat, \A i \in Slots(t) : t.pairs[i].state = "EMPTY"
  PROVE  Cardinality(Live(t)) = 0 /\ Used(t) = 0
<1>1. Live(t) = {} /\ Tombs(t) = {}
  BY DEF Live, Tombs, InState
<1>2. Cardinality(Live(t)) = 0 /\ Cardinality(Tombs(t)) = 0
  BY <1>1, FS_EmptySet
<1> QED
  BY <1>2 DEF Used

LEMMA ZeroCounted ==
  ASSUME NEW t, t.capacity \in Nat, t.capacity >= InitCapacity, t.size = 0, t.fill = 0,
         \A i \in Slots(t) : t.pairs[i].state = "EMPTY",
         NEW b \in Nat, NEW h \in Nat
  PROVE  Counted(t, b, b, h, h)
<1>1. Cardinality(Live(t)) = 0 /\ Used(t) = 0
  BY NoneUsed
<1>2. Signed(0) = 0 /\ 0 \in 0 .. Word - 1
  BY CrashAssumption, CountAssumption DEF Signed
<1> QED
  BY <1>1, <1>2 DEF Counted

LEMMA StopsSomewhere ==
  ASSUME NEW t, t.capacity \in Nat, t.capacity > 0, NEW k \in Key, NEW i \in Slots(t), Stops(t, k, i)
  PROVE  StopDistances(t, k) # {}
<1>1. PICK d \in Slots(t) : Probe(t, k, d) = i
  BY ProbeCovers
<1> QED
  BY <1>1 DEF StopDistances

\* With a slot left that was never used, every probe ends.
LEMMA UnusedSlot ==
  ASSUME NEW t, Sound(t), Used(t) < t.capacity, NEW k \in Key
  PROVE  StopDistances(t, k) # {}
<1>1. t.capacity \in Nat /\ t.capacity > 0 /\ t.pairs \in [Slots(t) -> Pair(Val)]
  BY DEF Sound, TableOf, Slots
<1>2. PICK i \in Slots(t) : t.pairs[i].state = "EMPTY"
  BY <1>1, EmptySlot DEF Used, Pair
<1> QED
  BY <1>1, <1>2, StopsSomewhere DEF Stops
-----------------------------------------------------------------------------
\* The copy of a rehash.

LEMMA NothingCopied ==
  ASSUME NEW t, NEW left, left = <<>>
  PROVE  PartCopied(t, 0) =
           [capacity |-> 2 * t.capacity, size |-> t.size, fill |-> t.size,
            pairs |-> [i \in 0 .. 2 * t.capacity - 1 |->
                         IF i \in DOMAIN left THEN left[i] ELSE ZeroPair(NoValue)]]
<1>1. \A j : CopiedBefore(t, j, 0) = {}
  BY DEF CopiedBefore, CopiedTo, Live, InState, Slots
<1>2. DOMAIN left = {}
  OBVIOUS
<1> DEFINE z == ZeroPair(NoValue)
<1>3. [i \in 0 .. 2 * t.capacity - 1 |-> IF i \in DOMAIN left THEN left[i] ELSE z]
        = [j \in 0 .. 2 * t.capacity - 1 |->
             IF CopiedBefore(t, j, 0) = {} THEN z ELSE t.pairs[Max(CopiedBefore(t, j, 0))]]
  BY <1>1, <1>2
<1> QED
  BY <1>3 DEF PartCopied

\* The pairs of the table that rehash() has so far.
CopiedPair(t, j, n) == IF CopiedBefore(t, j, n) = {} THEN ZeroPair(NoValue)
                                                     ELSE t.pairs[Max(CopiedBefore(t, j, n))]

LEMMA OneCopied ==
  ASSUME NEW t, Sound(t), NEW n \in Nat, NEW i \in Live(t), i >= n,
         \A j \in Live(t) : j >= n => i <= j
  PROVE  PartCopied(t, i + 1) = [PartCopied(t, n) EXCEPT !.pairs[NewHome(t, i)] = t.pairs[i]]
<1> DEFINE h == NewHome(t, i)
           S == 0 .. 2 * t.capacity - 1
<1>1. /\ t.capacity \in Nat /\ t.capacity > 0 /\ i \in 0 .. t.capacity - 1
      /\ Live(t) \in SUBSET (0 .. t.capacity - 1)
  BY DEF Sound, TableOf, Live, InState, Slots
<1>2. \A j \in Live(t) : j < i + 1 <=> j < n \/ j = i
  BY <1>1
<1>3. i \in CopiedTo(t, h)
  BY DEF CopiedTo
<1>4. CopiedBefore(t, h, i + 1) # {} /\ Max(CopiedBefore(t, h, i + 1)) = i
  <2> DEFINE C == CopiedBefore(t, h, i + 1)
  <2>1. C \in SUBSET (0 .. t.capacity - 1) /\ i \in C /\ \A x \in C : x < i + 1
    BY <1>1, <1>3 DEF CopiedBefore, CopiedTo
  <2> HIDE DEF C
  <2>2. Max(C) \in C /\ Max(C) >= i
    BY <1>1, <2>1, MaxOfSlots
  <2>3. Max(C) < i + 1 /\ Max(C) \in 0 .. t.capacity - 1
    BY <2>1, <2>2, Zenon
  <2> QED
    BY <1>1, <2>1, <2>2, <2>3 DEF C
<1>5. \A j : j # h => CopiedBefore(t, j, i + 1) = CopiedBefore(t, j, n)
  BY <1>2 DEF CopiedBefore, CopiedTo
<1> HIDE DEF h
<1>6. CopiedPair(t, h, i + 1) = t.pairs[i] /\ \A j : j # h => CopiedPair(t, j, i + 1) = CopiedPair(t, j, n)
  BY <1>4, <1>5 DEF CopiedPair
<1> DEFINE P(m) == [j \in S |-> CopiedPair(t, j, m)]
<1>7. \A m : PartCopied(t, m) = [capacity |-> 2 * t.capacity, size |-> t.size, fill |-> t.size, pairs |-> P(m)]
  BY DEF PartCopied, CopiedPair
<1>8. P(i + 1) = [P(n) EXCEPT ![h] = t.pairs[i]]
  BY <1>6
<1> HIDE DEF P
<1>9. [PartCopied(t, n) EXCEPT !.pairs[h] = t.pairs[i]]
        = [capacity |-> 2 * t.capacity, size |-> t.size, fill |-> t.size,
           pairs |-> [P(n) EXCEPT ![h] = t.pairs[i]]]
  BY <1>7
<1> QED
  BY <1>7, <1>8, <1>9 DEF h

LEMMA AllCopied ==
  ASSUME NEW t, NEW n, {i \in Live(t) : i >= n} = {}, t.capacity \in Nat, n \in Nat
  PROVE  PartCopied(t, n) = Rehashed(t, NoValue)
<1>1. \A i \in Live(t) : i < n
  BY DEF Live, InState, Slots
<1>2. \A j : CopiedBefore(t, j, n) = CopiedTo(t, j)
  BY <1>1 DEF CopiedBefore, CopiedTo
<1>3. [j \in 0 .. 2 * t.capacity - 1 |->
         IF CopiedBefore(t, j, n) = {} THEN ZeroPair(NoValue) ELSE t.pairs[Max(CopiedBefore(t, j, n))]]
        = [j \in 0 .. 2 * t.capacity - 1 |->
             IF CopiedTo(t, j) = {} THEN ZeroPair(NoValue) ELSE t.pairs[Max(CopiedTo(t, j))]]
  BY <1>2
<1> QED
  BY <1>3 DEF PartCopied, Rehashed

\* The new table is worth as much as the old: no entry of it is new.
LEMMA RehashedCounted ==
  ASSUME NEW t, Sound(t), NEW u, Sound(u), u = Rehashed(t, NoValue),
         NEW bs \in Int, NEW bf \in Int, NEW h \in Int, Counted(t, bs, bf, h, h)
  PROVE  Counted(u, bs, bs, h, h) /\ Used(u) < u.capacity
<1>1. /\ Cardinality(Live(t)) \in Nat /\ t.capacity \in Nat /\ t.capacity > 0
      /\ t.capacity >= InitCapacity /\ InitCapacity \in Nat
      /\ u.capacity = 2 * t.capacity /\ u.size = t.size /\ u.fill = t.size
  BY SoundCounts, CapacityAssumption DEF Rehashed, Counted
<1>2. Tombs(u) = {} /\ Cardinality(Live(u)) <= Cardinality(Live(t))
  BY <1>1, RehashedCounts
<1>3. Cardinality(Live(u)) \in Nat /\ Used(u) = Cardinality(Live(u))
  BY <1>2, SoundCounts, FS_EmptySet DEF Used
<1>4. Signed(t.size) \in Int
  BY SignedRange DEF Counted
<1>5. Cardinality(Live(t)) <= t.capacity
  <2>1. IsFiniteSet(Slots(t)) /\ Cardinality(Slots(t)) = t.capacity
    BY <1>1, SlotsCounted
  <2>2. Live(t) \in SUBSET Slots(t)
    BY DEF Live, InState
  <2> QED
    BY <2>1, <2>2, FS_Subset
<1> QED
  BY <1>1, <1>2, <1>3, <1>4, <1>5 DEF Counted
-----------------------------------------------------------------------------
\* The second inductive invariant, action by action.

LEMMA Numbers ==
  ASSUME NEW p
  PROVE  /\ HistoryBounds =>
              /\ SizeBound \in Int /\ FillBound \in Int /\ SizeShort(p) \in Int /\ FillShort(p) \in Int
              /\ begun \in Nat /\ begun <= MaxCalls /\ halfErased \in 0 .. MaxKills
         /\ HistoryBounds' =>
              /\ SizeBound' \in Int /\ FillBound' \in Int /\ SizeShort(p)' \in Int /\ FillShort(p)' \in Int
              /\ begun' \in Nat /\ begun' <= MaxCalls /\ halfErased' \in 0 .. MaxKills
BY CountAssumption DEF HistoryBounds, SizeBound, FillBound, SizeShort, FillShort

LEMMA HistoryKeeps == IInv /\ HistoryBounds /\ [Next]_vars => HistoryBounds'
<1> SUFFICES ASSUME IInv, HistoryBounds, [Next]_vars PROVE HistoryBounds'
  OBVIOUS
<1> USE CountAssumption DEF HistoryBounds
<1>1. CASE UNCHANGED vars
  BY <1>1 DEF vars, calls, history
<1>2. CASE Open \/ Load \/ Close \/ RemoveOld \/ RenameNew
  BY <1>2 DEF Open, Load, Close, RemoveOld, RenameNew, calls, history
<1>3. CASE RehashNow
  BY <1>3 DEF RehashNow, StartRehash, Begin
<1>4. CASE CopyPair
  <2>1. at # None /\ pc = "copy" /\ ToCopy # {}
    BY <1>4 DEF CopyPair, IInv, Mapped
  <2>2. ToCopy \in SUBSET Nat
    BY <2>1, MappedTable DEF ToCopy, Live, InState, Slots
  <2>3. Min(ToCopy) \in Nat
    BY <2>1, <2>2, MinOfNats
  <2> QED
    BY <1>4, <2>3 DEF CopyPair, history
<1>5. CASE \E k \in Key : \E v \in Values[k] : SetCalled(k, v)
  BY <1>5 DEF SetCalled, StartRehash, Begin
<1>6. CASE WriteKey \/ CountEntry \/ CountSlot \/ WriteValue \/ MarkFull \/ MarkTombstone
           \/ ClearPair \/ ClearSize \/ ClearFill
  BY <1>6 DEF WriteKey, CountEntry, CountSlot, WriteValue, MarkFull, MarkTombstone,
              ClearPair, ClearSize, ClearFill, Store, StoreInLoop
<1>7. CASE (\E k \in Key : EraseCalled(k)) \/ ClearCalled
  BY <1>7 DEF EraseCalled, ClearCalled, Store, StoreInLoop, Begin
<1>8. CASE Kill \/ KillInCopy
  BY <1>8 DEF Kill, KillInCopy, Killed
<1> QED
  BY <1>1, <1>2, <1>3, <1>4, <1>5, <1>6, <1>7, <1>8 DEF Next

\* A step that stores nothing in the files, and leaves the bounds no narrower.
LEMMA FilesStayCounted ==
  ASSUME IInv, HistoryBounds, HistoryBounds', FilesCounted,
         files' = files, SizeBound <= SizeBound', FillBound <= FillBound',
         \A p \in Path : SizeShort(p) <= SizeShort(p)' /\ FillShort(p) <= FillShort(p)'
  PROVE  FilesCounted'
<1>1. ASSUME NEW p \in Path, files'[p] # NoFile
      PROVE  Counted(files'[p], SizeBound', FillBound', SizeShort(p)', FillShort(p)')
  <2>1. Sound(files[p]) /\ Counted(files[p], SizeBound, FillBound, SizeShort(p), FillShort(p))
    BY <1>1 DEF IInv, FilesSound, FilesCounted
  <2>2. Counted(files[p], SizeBound', FillBound', SizeShort(p)', FillShort(p)')
    BY <2>1, Numbers, CountedWider
  <2> QED
    BY <2>2
<1> QED
  BY <1>1 DEF FilesCounted

\* A store into the mapped file.
LEMMA StoreCounted ==
  ASSUME IInv, HistoryBounds, HistoryBounds', FilesCounted, at # None, NEW u, NEW then,
         StoreInLoop(u, then), then # "copy", then # "rename",
         SizeBound <= SizeBound', FillBound <= FillBound',
         Counted(u, SizeBound', FillBound', SizeShort(at)', FillShort(at)')
  PROVE  FilesCounted'
<1>1. /\ at \in Path /\ at' = at /\ halfErased' = halfErased
      /\ \A p \in Path : files'[p] = IF p = at THEN u ELSE files[p]
  BY MappedTable DEF Store, StoreInLoop, IInv, FilesSound
<1>2. ASSUME NEW p \in Path, files'[p] # NoFile, p # at
      PROVE  Counted(files'[p], SizeBound', FillBound', SizeShort(p)', FillShort(p)')
  <2>1. files'[p] = files[p] /\ Sound(files[p])
        /\ Counted(files[p], SizeBound, FillBound, SizeShort(p), FillShort(p))
    BY <1>1, <1>2 DEF IInv, FilesSound, FilesCounted
  <2>2. SizeShort(p)' = SizeShort(p) /\ FillShort(p)' = FillShort(p)
    BY <1>1, <1>2 DEF SizeShort, FillShort
  <2>3. SizeShort(p) <= SizeShort(p)' /\ FillShort(p) <= FillShort(p)'
    BY <2>2, Numbers
  <2> QED
    BY <2>1, <2>3, Numbers, CountedWider
<1> QED
  BY <1>1, <1>2 DEF FilesCounted

\* The parts of the invariant that a step at these places leaves to say nothing.
LEMMA Elsewhere ==
  /\ pc' \notin {"size", "fill", "value", "state", "tombstone"} => SlotFound'
  /\ pc' \notin {"copy", "rename"} => NewTableMade'
  /\ pc' \notin {"key", "size", "fill", "value", "state"} => SlotLeft'
  /\ pc' # "clear" => Emptied'
BY DEF SlotFound, NewTableMade, SlotLeft, Emptied

LEMMA OpenCounts == ASSUME IInv, CInv, HistoryBounds', Open PROVE CInv'
<1>1. /\ pc = "idle" /\ pc' = "idle" /\ at = None /\ begun' = begun /\ halfErased' = halfErased
      /\ reused' = reused
      /\ \A p \in Path : files'[p] = IF p = Named THEN FreshTable(NoValue) ELSE files[p]
  BY DEF Open, IInv, FilesSound, Path, calls, history
<1>2. ASSUME FilesCounted PROVE FilesCounted'
  <2>1. /\ SizeBound = begun /\ FillBound = begun /\ SizeBound' = begun /\ FillBound' = begun
        /\ \A p : SizeShort(p) = halfErased /\ FillShort(p) = halfErased
        /\ \A p : SizeShort(p)' = halfErased /\ FillShort(p)' = halfErased
    BY <1>1 DEF SizeBound, FillBound, SizeShort, FillShort
  <2>2. Counted(FreshTable(NoValue), begun, begun, halfErased, halfErased)
    <3> DEFINE t == FreshTable(NoValue)
    <3>1. /\ t.capacity \in Nat /\ t.capacity >= InitCapacity /\ t.size = 0 /\ t.fill = 0
          /\ \A i \in Slots(t) : t.pairs[i].state = "EMPTY"
      BY CapacityAssumption DEF FreshTable, ZeroPair, Slots
    <3>2. begun \in Nat /\ halfErased \in Nat
      BY CountAssumption DEF CInv, HistoryBounds
    <3> HIDE DEF t
    <3>3. Counted(t, begun, begun, halfErased, halfErased)
      BY <3>1, <3>2, ZeroCounted
    <3> QED
      BY <3>3 DEF t
  <2> QED
    BY <1>1, <1>2, <2>1, <2>2 DEF FilesCounted
<1> QED
  BY <1>1, <1>2, Elsewhere DEF CInv

LEMMA UnmapCounts ==
  ASSUME IInv, CInv, HistoryBounds', Load \/ Close \/ Kill \/ KillInCopy PROVE CInv'
<1>1. /\ files' = files /\ pc' = "idle" /\ begun' = begun /\ reused' = reused
      /\ halfErased' = IF pc = "tombstone" THEN halfErased + 1 ELSE halfErased
  BY DEF Load, Close, Idle, Kill, KillInCopy, Killed, calls, history
<1>2. begun \in Nat /\ halfErased \in Nat
  BY CountAssumption DEF CInv, HistoryBounds
<1>3. /\ SizeBound <= SizeBound' /\ FillBound <= FillBound'
      /\ \A p : SizeShort(p) <= SizeShort(p)' /\ FillShort(p) <= FillShort(p)'
  BY <1>1, <1>2 DEF SizeBound, FillBound, SizeShort, FillShort
<1>4. FilesCounted => FilesCounted'
  BY <1>1, <1>3, FilesStayCounted DEF CInv
<1> QED
  BY <1>1, <1>4, Elsewhere DEF CInv

-----------------------------------------------------------------------------
\* A rehash.

LEMMA StartRehashCounts ==
  ASSUME IInv, CInv, HistoryBounds', Begin, StartRehash, halfErased' = halfErased PROVE CInv'
<1>1. /\ at # None /\ pc = "idle" /\ pc' = "copy" /\ begun' = begun + 1 /\ next' = 0
      /\ files' = files /\ at' = at /\ hpath' = hpath /\ db' = db /\ hpath \in Path
  BY MappedTable DEF Begin, Idle, StartRehash, db
<1>2. begun \in Nat /\ halfErased \in Nat
  BY CountAssumption DEF CInv, HistoryBounds
<1>3. FilesCounted => FilesCounted'
  <2>1. /\ SizeBound <= SizeBound' /\ FillBound <= FillBound'
        /\ \A p : SizeShort(p) <= SizeShort(p)' /\ FillShort(p) <= FillShort(p)'
    BY <1>1, <1>2 DEF SizeBound, FillBound, SizeShort, FillShort
  <2> QED
    BY <1>1, <2>1, FilesStayCounted DEF CInv
<1>4. ASSUME ~reused' PROVE ~reused /\ NewTableMade'
  <2> DEFINE left == temps[hpath].pairs
             u == [capacity |-> 2 * db.capacity, size |-> db.size, fill |-> db.size,
                   pairs |-> [i \in 0 .. 2 * db.capacity - 1 |->
                                IF i \in DOMAIN left THEN left[i] ELSE ZeroPair(NoValue)]]
  <2>1. ~reused /\ temps[hpath] = NoFile
    BY <1>4 DEF StartRehash
  <2>2. temps' = [temps EXCEPT ![hpath] = u]
    BY DEF StartRehash
  <2>3. left = <<>>
    BY <2>1 DEF NoFile
  <2> HIDE DEF left
  <2>4. PartCopied(db, 0) = u
    BY <2>3, NothingCopied
  <2> HIDE DEF u
  <2>5. temps'[hpath'] = PartCopied(db', next')
    BY <1>1, <2>2, <2>4 DEF IInv, FilesSound
  <2> QED
    BY <1>1, <2>1, <2>5 DEF NewTableMade
<1> QED
  BY <1>1, <1>3, <1>4, Elsewhere DEF CInv

LEMMA CopyPairCounts == ASSUME IInv, CInv, HistoryBounds', CopyPair PROVE CInv'
<1> DEFINE i == Min(ToCopy)
<1>1. /\ pc = "copy" /\ pc' = "copy" /\ files' = files /\ at' = at /\ hpath' = hpath /\ db' = db
      /\ begun' = begun /\ halfErased' = halfErased /\ reused' = reused /\ ToCopy # {}
      /\ next' = i + 1 /\ next \in Nat
      /\ temps' = [temps EXCEPT ![hpath].pairs[NewHome(db, i)] = db.pairs[i]]
  BY DEF CopyPair, history, db, CInv, HistoryBounds
<1>2. at # None /\ hpath \in Path /\ Sound(db) /\ begun \in Nat /\ halfErased \in Nat
  BY <1>1, MappedTable, CountAssumption DEF IInv, Mapped, CInv, HistoryBounds
<1>3. FilesCounted => FilesCounted'
  <2>1. /\ SizeBound <= SizeBound' /\ FillBound <= FillBound'
        /\ \A p : SizeShort(p) <= SizeShort(p)' /\ FillShort(p) <= FillShort(p)'
    BY <1>1, <1>2 DEF SizeBound, FillBound, SizeShort, FillShort
  <2> QED
    BY <1>1, <2>1, FilesStayCounted DEF CInv
<1>4. i \in Live(db) /\ i >= next /\ \A j \in Live(db) : j >= next => i <= j
  <2>1. ToCopy \in SUBSET Nat
    BY <1>2, MappedTable DEF ToCopy, Live, InState, Slots
  <2>2. i \in ToCopy /\ \A j \in ToCopy : i <= j
    BY <1>1, <2>1, MinOfNats
  <2> QED
    BY <2>2 DEF ToCopy
<1> HIDE DEF i
<1>5. ASSUME NewTableMade PROVE NewTableMade'
  <2>1. temps[hpath] = PartCopied(db, next)
    BY <1>1, <1>5 DEF NewTableMade
  <2>2. PartCopied(db, i + 1) = [PartCopied(db, next) EXCEPT !.pairs[NewHome(db, i)] = db.pairs[i]]
    BY <1>1, <1>2, <1>4, OneCopied
  <2>3. temps'[hpath] = [temps[hpath] EXCEPT !.pairs[NewHome(db, i)] = db.pairs[i]]
    BY <1>1, <1>2 DEF IInv, FilesSound
  <2>4. temps'[hpath'] = PartCopied(db', next')
    BY <1>1, <2>1, <2>2, <2>3
  <2> QED
    BY <1>1, <2>4 DEF NewTableMade
<1> QED
  BY <1>1, <1>3, <1>5, Elsewhere DEF CInv

\* When the old file goes, the .tmp file holds what the one-step rehash makes.
LEMMA CopyComplete ==
  ASSUME IInv, CInv, RemoveOld, ~reused
  PROVE  temps[hpath] = Rehashed(db, NoValue)
<1>1. at # None /\ db.capacity \in Nat /\ next \in Nat /\ pc = "copy"
  BY MappedTable DEF RemoveOld, IInv, Mapped, CInv, HistoryBounds
<1>2. {i \in Live(db) : i >= next} = {}
  BY DEF RemoveOld, ToCopy
<1>3. PartCopied(db, next) = Rehashed(db, NoValue)
  BY <1>1, <1>2, AllCopied
<1> QED
  BY <1>1, <1>3 DEF CInv, NewTableMade

LEMMA RemoveOldCounts == ASSUME IInv, CInv, HistoryBounds', RemoveOld PROVE CInv'
<1>1. /\ pc = "copy" /\ pc' = "rename" /\ temps' = temps /\ at' = None /\ hpath' = hpath
      /\ begun' = begun /\ halfErased' = halfErased /\ reused' = reused
      /\ hpath \in Path /\ Sound(temps[hpath]) /\ at \in Path /\ Sound(files[at]) /\ db = files[at]
  BY DEF RemoveOld, history, IInv, Mapped, db
<1>2. \A p \in Path : files'[p] = IF p = hpath THEN NoFile ELSE files[p]
  BY DEF RemoveOld, IInv, FilesSound
<1>3. /\ SizeBound = begun - 1 /\ FillBound = begun - 1 /\ SizeBound' = begun - 1 /\ FillBound' = begun - 1
      /\ \A p : SizeShort(p) = halfErased /\ FillShort(p) = halfErased
      /\ \A p : SizeShort(p)' = halfErased /\ FillShort(p)' = halfErased
      /\ begun \in Int /\ halfErased \in Int
  BY <1>1, CountAssumption DEF SizeBound, FillBound, SizeShort, FillShort, CInv, HistoryBounds
<1>4. FilesCounted => FilesCounted'
  BY <1>2, <1>3 DEF FilesCounted
<1>5. ASSUME ~reused, FilesCounted PROVE NewTableMade'
  <2>1. files[at] # NoFile
    BY <1>1, SoundCounts DEF NoFile
  <2>2. Counted(db, begun - 1, begun - 1, halfErased, halfErased)
    BY <1>1, <1>3, <1>5, <2>1 DEF FilesCounted
  <2> DEFINE u == temps[hpath]
  <2>3. u = Rehashed(db, NoValue) /\ Sound(u) /\ Sound(db)
    BY <1>1, <1>5, CopyComplete
  <2> HIDE DEF u
  <2>4. Counted(u, begun - 1, begun - 1, halfErased, halfErased) /\ Used(u) < u.capacity
    BY <1>3, <2>2, <2>3, RehashedCounted
  <2> QED
    BY <1>1, <1>3, <2>4 DEF NewTableMade, u
<1> QED
  BY <1>1, <1>4, <1>5, Elsewhere DEF CInv

LEMMA RenameNewCounts == ASSUME IInv, CInv, HistoryBounds', RenameNew PROVE CInv'
<1>1. /\ pc = "rename" /\ pc' \in {"idle", "key"} /\ at' = hpath
      /\ begun' = begun /\ halfErased' = halfErased /\ reused' = reused
      /\ hpath \in Path /\ Sound(temps[hpath])
  BY DEF RenameNew, history, IInv, Mapped
<1>2. /\ \A p \in Path : files'[p] = IF p = hpath THEN temps[hpath] ELSE files[p]
      /\ db' = temps[hpath]
  BY <1>1 DEF RenameNew, IInv, FilesSound, db
<1>3. begun \in Nat /\ halfErased \in Nat
  BY CountAssumption DEF CInv, HistoryBounds
<1>4. /\ SizeBound <= SizeBound' /\ FillBound <= FillBound'
      /\ \A p : SizeShort(p) <= halfErased /\ FillShort(p) <= halfErased
      /\ \A p : SizeShort(p)' = halfErased /\ FillShort(p)' = halfErased
  BY <1>1, <1>3 DEF SizeBound, FillBound, SizeShort, FillShort
<1>5. ASSUME FilesCounted, NewTableMade PROVE FilesCounted' /\ SlotLeft'
  <2>1. /\ Counted(temps[hpath], SizeBound, FillBound, halfErased, halfErased)
        /\ Used(temps[hpath]) < temps[hpath].capacity
    BY <1>1, <1>5 DEF NewTableMade
  <2>2. ASSUME NEW p \in Path, files'[p] # NoFile
        PROVE  Counted(files'[p], SizeBound', FillBound', SizeShort(p)', FillShort(p)')
    <3>1. CASE p = hpath
      <4>1. Counted(temps[hpath], SizeBound', FillBound', halfErased, halfErased)
        BY <1>1, <1>3, <1>4, <2>1, Numbers, CountedWider DEF CInv
      <4> QED
        BY <1>2, <1>4, <3>1, <4>1
    <3>2. CASE p # hpath
      <4>1. files'[p] = files[p] /\ Sound(files[p])
            /\ Counted(files[p], SizeBound, FillBound, SizeShort(p), FillShort(p))
        BY <1>2, <1>5, <2>2, <3>2 DEF IInv, FilesSound, FilesCounted
      <4>2. Counted(files[p], SizeBound', FillBound', halfErased, halfErased)
        BY <1>3, <1>4, <4>1, Numbers, CountedWider DEF CInv
      <4> QED
        BY <1>4, <4>1, <4>2
    <3> QED
      BY <3>1, <3>2
  <2> QED
    BY <1>2, <2>1, <2>2 DEF FilesCounted, SlotLeft
<1> QED
  BY <1>1, <1>5, Elsewhere DEF CInv

\* A set() that need not grow the table: at most 3/4 of the slots and one are used.
LEMMA SetCalledCounts ==
  ASSUME IInv, CInv, HistoryBounds', NEW k \in Key, NEW v \in Values[k], SetCalled(k, v)
  PROVE  CInv'
<1>1. CASE StartRehash
  BY <1>1, StartRehashCounts DEF SetCalled
<1>2. CASE ~NeedsRehash(db) /\ pc' = "key" /\ UNCHANGED <<files, temps, at, hpath, next, reused, mixed>>
  <2>1. /\ at # None /\ pc = "idle" /\ pc' = "key" /\ begun' = begun + 1 /\ halfErased' = halfErased
        /\ files' = files /\ reused' = reused /\ db' = db
    BY <1>2 DEF SetCalled, Begin, Idle, db
  <2>2. begun \in Nat /\ halfErased \in Nat
    BY CountAssumption DEF CInv, HistoryBounds
  <2>3. /\ SizeBound <= SizeBound' /\ FillBound <= FillBound'
        /\ \A p : SizeShort(p) <= SizeShort(p)' /\ FillShort(p) <= FillShort(p)'
        /\ FillShort(at) = halfErased
    BY <2>1, <2>2 DEF SizeBound, FillBound, SizeShort, FillShort
  <2>4. FilesCounted => FilesCounted'
    BY <2>1, <2>3, FilesStayCounted DEF CInv
  <2>5. ASSUME FilesCounted PROVE SlotLeft'
    <3>1. at \in Path /\ Sound(db) /\ db = files[at] /\ db # NoFile
      BY <2>1, MappedTable DEF NoFile
    <3>2. /\ db.fill \in 0 .. Word - 1 /\ Used(db) <= Signed(db.fill) + halfErased
          /\ db.capacity >= InitCapacity
      BY <2>3, <2>5, <3>1 DEF FilesCounted, Counted
    <3>3. /\ Used(db) \in Nat /\ db.capacity \in Nat /\ db.fill \in Nat
          /\ Signed(db.fill) \in Int /\ Signed(db.fill) <= db.fill
      BY <3>1, <3>2, SoundCounts, SignedRange
    <3>4. 4 * db.fill <= 3 * db.capacity /\ db.capacity >= 5
      BY <1>2, <3>2, <3>3, CapacityAssumption DEF NeedsRehash
    <3>5. halfErased <= 1 => Used(db) < db.capacity
      BY <2>2, <3>2, <3>3, <3>4
    <3> QED
      BY <2>1, <3>5 DEF SlotLeft
  <2> QED
    BY <2>1, <2>4, <2>5, Elsewhere DEF CInv
<1> QED
  BY <1>1, <1>2 DEF SetCalled

-----------------------------------------------------------------------------
\* The stores of a set().

\* One pair of a table stored.
LEMMA PairStored ==
  ASSUME NEW t, Sound(t), NEW i \in Slots(t), NEW q \in Pair(Val), NEW u, u = [t EXCEPT !.pairs[i] = q]
  PROVE  /\ u.capacity = t.capacity /\ u.size = t.size /\ u.fill = t.fill
         /\ u.pairs = [t.pairs EXCEPT ![i] = q] /\ u.pairs[i] = q
         /\ \A j \in Slots(t) : j # i => u.pairs[j] = t.pairs[j]
BY DEF Sound, TableOf, Slots

\* What every store knows of the mapped table.
LEMMA MappedCounted ==
  ASSUME IInv, CInv, at # None
  PROVE  /\ Sound(db) /\ db = files[at] /\ at \in Path
         /\ Cardinality(Live(db)) \in Nat /\ Used(db) \in Nat
         /\ db.capacity \in Nat /\ db.capacity > 0
         /\ begun \in Nat /\ begun <= MaxCalls /\ halfErased \in Nat /\ halfErased <= MaxKills
         /\ FilesCounted => /\ Counted(db, SizeBound, FillBound, SizeShort(at), FillShort(at))
                            /\ Signed(db.size) \in Int /\ Signed(db.fill) \in Int
<1>1. Sound(db) /\ db = files[at] /\ at \in Path /\ db # NoFile
  BY MappedTable DEF NoFile
<1>2. begun \in Nat /\ begun <= MaxCalls /\ halfErased \in Nat /\ halfErased <= MaxKills
  BY CountAssumption DEF CInv, HistoryBounds
<1>3. ASSUME FilesCounted
      PROVE  /\ Counted(db, SizeBound, FillBound, SizeShort(at), FillShort(at))
             /\ Signed(db.size) \in Int /\ Signed(db.fill) \in Int
  <2>1. Counted(db, SizeBound, FillBound, SizeShort(at), FillShort(at))
    BY <1>1, <1>3 DEF FilesCounted
  <2> QED
    BY <2>1, SignedRange DEF Counted
<1> QED
  BY <1>1, <1>2, <1>3, SoundCounts

LEMMA WriteKeyCounts == ASSUME IInv, CInv, HistoryBounds', WriteKey PROVE CInv'
<1> DEFINE i == GetEntry(db, job.key)
           q == [db.pairs[i] EXCEPT !.key = job.key]
           u == [db EXCEPT !.pairs[i] = q]
<1>1. /\ at # None /\ job.key \in Key /\ job' = [job EXCEPT !.slot = i] /\ pc = "key" /\ SetJob
      /\ StopDistances(db, job.key) # {} /\ begun' = begun
  BY DEF WriteKey, IInv, Mapped, JobDone, SetJob
<1>2. i \in Slots(db) /\ Stops(db, job.key, i)
  BY <1>1, MappedTable, GetEntryStops
<1>3. db.pairs[i] \in Pair(Val) /\ db.pairs \in [Slots(db) -> Pair(Val)] /\ Sound(db)
      /\ (db.pairs[i].state = "FULL" => IsOwn(db.pairs[i]))
  BY <1>1, <1>2, MappedTable DEF Sound
<1>4. q \in Pair(Val) /\ q.key = job.key /\ q.state = db.pairs[i].state
      /\ (q.state = "FULL" => IsOwn(q))
  BY <1>1, <1>2, <1>3 DEF Pair, Stops, IsOwn
<1>5. [db EXCEPT !.pairs[i].key = job.key] = u
  BY <1>3, <1>2
<1>6. Store(u, "size")
  BY <1>5 DEF WriteKey
<1>7. job'.slot = i /\ job'.key = job.key
  BY <1>1 DEF SetJob
<1> HIDE DEF q
<1>8. Sound(u) /\ u.capacity = db.capacity /\ u.size = db.size /\ u.fill = db.fill
      /\ u.pairs[i] = q /\ \A j \in Slots(db) : j # i => u.pairs[j] = db.pairs[j]
  BY <1>2, <1>3, <1>4, PairStored, PairEdited
<1>9. u.pairs = [db.pairs EXCEPT ![i] = q]
  BY <1>2, <1>3, <1>4, PairStored
<1>10. Cardinality(Live(u)) = Cardinality(Live(db)) /\ Used(u) = Used(db)
  <2> HIDE DEF u, i
  <2> QED
    BY <1>2, <1>3, <1>4, <1>8, <1>9, EditCounts
<1> HIDE DEF u
<1>11. pc' = "size" /\ db' = u /\ at' = at /\ reused' = reused /\ halfErased' = halfErased
  BY <1>1, <1>6, <1>8, StoreKeeps DEF Store, StoreInLoop
<1>12. Stops(u, job.key, i)
  BY <1>4, <1>8 DEF Stops
<1>13. SlotFound'
  <2>1. GetEntry(u, job.key) = i
    BY <1>1, <1>8, <1>12, MappedTable, SamePlace
  <2>2. StopDistances(u, job.key) # {}
    <3>1. i \in Slots(u)
      BY <1>2, <1>8 DEF Slots
    <3> HIDE DEF i
    <3> QED
      BY <1>1, <1>8, <1>12, <3>1, MappedTable, StopsSomewhere
  <2> QED
    BY <1>7, <1>11, <2>1, <2>2 DEF SlotFound
<1> HIDE DEF i
<1>14. ASSUME FilesCounted PROVE FilesCounted'
  <2>1. /\ SizeBound' = SizeBound /\ FillBound' = FillBound
        /\ SizeShort(at) = halfErased /\ FillShort(at) = halfErased
        /\ SizeShort(at)' = halfErased /\ FillShort(at)' = halfErased
    BY <1>1, <1>11 DEF SizeBound, FillBound, SizeShort, FillShort
  <2>2. Counted(db, SizeBound, FillBound, halfErased, halfErased)
    BY <1>1, <1>14, <2>1, MappedCounted
  <2>3. Counted(u, SizeBound', FillBound', SizeShort(at)', FillShort(at)')
    BY <1>8, <1>10, <2>1, <2>2 DEF Counted
  <2>4. SizeBound <= SizeBound' /\ FillBound <= FillBound'
    BY <2>1, Numbers DEF CInv
  <2> QED
    BY <1>1, <1>6, <1>14, <2>3, <2>4, StoreCounted DEF CInv, Store
<1>15. SlotLeft => SlotLeft'
  BY <1>1, <1>8, <1>10, <1>11 DEF SlotLeft
<1> QED
  BY <1>11, <1>13, <1>14, <1>15, Elsewhere DEF CInv

\* A counter that went up by one, or stayed.
CountedUp(n, more) == IF more THEN (n + 1) % Word ELSE n

LEMMA CountedUpOne ==
  ASSUME NEW n \in 0 .. Word - 1, NEW more \in BOOLEAN, Signed(n) < MaxCalls
  PROVE  /\ CountedUp(n, more) \in 0 .. Word - 1
         /\ Signed(CountedUp(n, more)) = IF more THEN Signed(n) + 1 ELSE Signed(n)
BY CountUp DEF CountedUp

\* Of the counters, neither the slots nor what they are found by.
LEMMA CounterStored ==
  ASSUME IInv, CInv, at # None, NEW u, u.capacity = db.capacity, u.pairs = db.pairs, db' = u,
         job' = job, pc \in {"size", "fill"}, pc' \in {"fill", "value"}, halfErased' = halfErased
  PROVE  SlotFound' /\ (SlotLeft => SlotLeft') /\ Entry' = Entry
<1>1. /\ StopDistances(u, job.key) = StopDistances(db, job.key)
      /\ GetEntry(u, job.key) = GetEntry(db, job.key) /\ Used(u) = Used(db)
  BY SamePairs
<1> QED
  BY <1>1 DEF SlotFound, SlotLeft, Entry, CInv

LEMMA CountEntryCounts == ASSUME IInv, CInv, HistoryBounds', CountEntry PROVE CInv'
<1> DEFINE n == CountedUp(db.size, Entry.state # "FULL")
           u == [db EXCEPT !.size = n]
<1>1. at # None /\ pc = "size" /\ job' = job /\ begun' = begun
  BY DEF CountEntry, IInv, Mapped
<1>2. Store(u, "fill")
  BY DEF CountEntry, CountedUp
<1>3. n \in Nat /\ Sound(db)
  BY <1>1, MappedTable, Wraps DEF CountedUp
<1> HIDE DEF n
<1>4. Sound(u) /\ u.pairs = db.pairs /\ u.capacity = db.capacity
  BY <1>3, CountedSound
<1>5. u.size = n /\ u.fill = db.fill
  BY <1>3 DEF Sound, TableOf
<1> HIDE DEF u
<1>6. pc' = "fill" /\ db' = u /\ at' = at /\ reused' = reused /\ halfErased' = halfErased
  BY <1>1, <1>2, <1>4, StoreKeeps DEF Store, StoreInLoop
<1>7. SlotFound' /\ (SlotLeft => SlotLeft') /\ Entry' = Entry
  BY <1>1, <1>4, <1>6, CounterStored
<1>8. ASSUME FilesCounted PROVE FilesCounted'
  <2>1. /\ SizeBound = begun - 1 /\ FillBound = begun - 1
        /\ SizeBound' = begun /\ FillBound' = begun - 1
        /\ SizeShort(at) = halfErased /\ FillShort(at) = halfErased
        /\ SizeShort(at)' = IF Entry.state # "FULL" THEN halfErased - 1 ELSE halfErased
        /\ FillShort(at)' = halfErased
    BY <1>1, <1>6, <1>7 DEF SizeBound, FillBound, SizeShort, FillShort
  <2>2. /\ Counted(db, begun - 1, begun - 1, halfErased, halfErased)
        /\ begun \in Nat /\ begun <= MaxCalls /\ halfErased \in Nat
        /\ Cardinality(Live(db)) \in Nat /\ Signed(db.size) \in Int
    BY <1>1, <1>8, <2>1, MappedCounted
  <2>3. db.size \in 0 .. Word - 1 /\ Signed(db.size) < MaxCalls
    BY <2>2, CountAssumption DEF Counted
  <2>4. /\ n \in 0 .. Word - 1
        /\ Signed(n) = IF Entry.state # "FULL" THEN Signed(db.size) + 1 ELSE Signed(db.size)
    BY <2>3, CountedUpOne DEF n
  <2>5. Cardinality(Live(u)) = Cardinality(Live(db)) /\ Used(u) = Used(db)
    BY <1>4, SamePairs
  <2>6. Counted(u, SizeBound', FillBound', SizeShort(at)', FillShort(at)')
    BY <1>4, <1>5, <2>1, <2>2, <2>4, <2>5 DEF Counted
  <2>7. SizeBound <= SizeBound' /\ FillBound <= FillBound'
    BY <2>1, <2>2
  <2> QED
    BY <1>1, <1>2, <1>8, <2>6, <2>7, StoreCounted DEF CInv, Store
<1> QED
  BY <1>6, <1>7, <1>8, Elsewhere DEF CInv

LEMMA CountSlotCounts == ASSUME IInv, CInv, HistoryBounds', CountSlot PROVE CInv'
<1> DEFINE n == CountedUp(db.fill, Entry.state = "EMPTY")
           u == [db EXCEPT !.fill = n]
<1>1. at # None /\ pc = "fill" /\ job' = job /\ begun' = begun
  BY DEF CountSlot, IInv, Mapped
<1>2. Store(u, "value")
  BY DEF CountSlot, CountedUp
<1>3. n \in Nat /\ Sound(db)
  BY <1>1, MappedTable, Wraps DEF CountedUp
<1> HIDE DEF n
<1>4. Sound(u) /\ u.pairs = db.pairs /\ u.capacity = db.capacity
  BY <1>3, CountedSound
<1>5. u.fill = n /\ u.size = db.size
  BY <1>3 DEF Sound, TableOf
<1> HIDE DEF u
<1>6. pc' = "value" /\ db' = u /\ at' = at /\ reused' = reused /\ halfErased' = halfErased
  BY <1>1, <1>2, <1>4, StoreKeeps DEF Store, StoreInLoop
<1>7. SlotFound' /\ (SlotLeft => SlotLeft') /\ Entry' = Entry
  BY <1>1, <1>4, <1>6, CounterStored
<1>8. ASSUME FilesCounted PROVE FilesCounted'
  <2>1. /\ SizeBound = begun /\ FillBound = begun - 1
        /\ SizeBound' = begun /\ FillBound' = begun
        /\ SizeShort(at)' = SizeShort(at) /\ FillShort(at) = halfErased
        /\ FillShort(at)' = IF Entry.state = "EMPTY" THEN halfErased - 1 ELSE halfErased
    BY <1>1, <1>6, <1>7 DEF SizeBound, FillBound, SizeShort, FillShort
  <2>2. /\ Counted(db, begun, begun - 1, SizeShort(at), halfErased)
        /\ begun \in Nat /\ begun <= MaxCalls /\ halfErased \in Nat
        /\ Used(db) \in Nat /\ Signed(db.fill) \in Int
    BY <1>1, <1>8, <2>1, MappedCounted
  <2>3. db.fill \in 0 .. Word - 1 /\ Signed(db.fill) < MaxCalls
    BY <2>2, CountAssumption DEF Counted
  <2>4. /\ n \in 0 .. Word - 1
        /\ Signed(n) = IF Entry.state = "EMPTY" THEN Signed(db.fill) + 1 ELSE Signed(db.fill)
    BY <2>3, CountedUpOne DEF n
  <2>5. Cardinality(Live(u)) = Cardinality(Live(db)) /\ Used(u) = Used(db)
    BY <1>4, SamePairs
  <2>6. Counted(u, SizeBound', FillBound', SizeShort(at)', FillShort(at)')
    BY <1>4, <1>5, <2>1, <2>2, <2>4, <2>5 DEF Counted
  <2>7. SizeBound <= SizeBound' /\ FillBound <= FillBound'
    BY <2>1, <2>2
  <2> QED
    BY <1>1, <1>2, <1>8, <2>6, <2>7, StoreCounted DEF CInv, Store
<1> QED
  BY <1>6, <1>7, <1>8, Elsewhere DEF CInv

LEMMA WriteValueCounts == ASSUME IInv, CInv, HistoryBounds', WriteValue PROVE CInv'
<1> DEFINE i == job.slot
           q == [db.pairs[i] EXCEPT !.value = job.value]
           u == [db EXCEPT !.pairs[i] = q]
<1>1. /\ at # None /\ SetJob /\ i \in Slots(db) /\ Entry.key = job.key /\ job' = job
      /\ pc = "value" /\ begun' = begun
      /\ StopDistances(db, job.key) # {} /\ i = GetEntry(db, job.key)
  BY DEF WriteValue, IInv, Mapped, JobDone, CInv, SlotFound
<1>2. db.pairs[i] \in Pair(Val) /\ db.pairs \in [Slots(db) -> Pair(Val)] /\ Sound(db)
      /\ job.key \in Key
  BY <1>1, MappedTable DEF SetJob
<1>3. /\ q \in Pair(Val) /\ q.key = db.pairs[i].key /\ q.state = db.pairs[i].state /\ IsOwn(q)
  BY <1>1, <1>2 DEF Pair, IsOwn, SetJob, Entry
<1>4. [db EXCEPT !.pairs[i].value = job.value] = u
  BY <1>1, <1>2
<1>5. Store(u, "state")
  BY <1>4 DEF WriteValue
<1>6. Stops(db, job.key, i)
  BY <1>1, <1>2, MappedTable, GetEntryStops
<1> HIDE DEF q, i
<1>7. Sound(u) /\ u.capacity = db.capacity /\ u.size = db.size /\ u.fill = db.fill
      /\ u.pairs[i] = q /\ (\A j \in Slots(db) : j # i => u.pairs[j] = db.pairs[j])
      /\ u.pairs = [db.pairs EXCEPT ![i] = q]
  BY <1>1, <1>2, <1>3, PairStored, PairEdited
<1> HIDE DEF u
<1>8. Cardinality(Live(u)) = Cardinality(Live(db)) /\ Used(u) = Used(db)
  BY <1>1, <1>2, <1>3, <1>7, EditCounts
<1>9. pc' = "state" /\ db' = u /\ at' = at /\ reused' = reused /\ halfErased' = halfErased
  BY <1>1, <1>5, <1>7, StoreKeeps DEF Store, StoreInLoop
<1>10. Stops(u, job.key, i)
  BY <1>3, <1>6, <1>7 DEF Stops
<1>11. SlotFound'
  <2>1. GetEntry(u, job.key) = i
    BY <1>1, <1>2, <1>7, <1>10, MappedTable, SamePlace
  <2>2. i \in Slots(u)
    BY <1>1, <1>7 DEF Slots
  <2>3. StopDistances(u, job.key) # {}
    BY <1>1, <1>2, <1>7, <1>10, <2>2, MappedTable, StopsSomewhere
  <2> QED
    BY <1>1, <1>9, <2>1, <2>3 DEF SlotFound, i
<1>12. Entry.state = db.pairs[i].state /\ Entry'.state = Entry.state
  BY <1>1, <1>3, <1>7, <1>9 DEF Entry, i
<1>13. ASSUME FilesCounted PROVE FilesCounted'
  <2>1. /\ SizeBound' = SizeBound /\ FillBound' = FillBound
        /\ SizeShort(at)' = SizeShort(at) /\ FillShort(at)' = FillShort(at)
    BY <1>1, <1>9, <1>12 DEF SizeBound, FillBound, SizeShort, FillShort
  <2>2. Counted(u, SizeBound', FillBound', SizeShort(at)', FillShort(at)')
    BY <1>1, <1>7, <1>8, <1>13, <2>1, MappedCounted DEF Counted
  <2>3. SizeBound <= SizeBound' /\ FillBound <= FillBound'
    BY <2>1, Numbers DEF CInv
  <2> QED
    BY <1>1, <1>5, <1>13, <2>2, <2>3, StoreCounted DEF CInv, Store
<1>14. SlotLeft => SlotLeft'
  BY <1>1, <1>7, <1>8, <1>9 DEF SlotLeft
<1> QED
  BY <1>9, <1>11, <1>13, <1>14, Elsewhere DEF CInv

\* The entry that was counted is there.
LEMMA MarkFullCounts == ASSUME IInv, CInv, HistoryBounds', MarkFull PROVE CInv'
<1> DEFINE i == job.slot
           q == [db.pairs[i] EXCEPT !.state = "FULL"]
           u == [db EXCEPT !.pairs[i] = q]
<1>1. /\ at # None /\ SetJob /\ i \in Slots(db) /\ Entry.key = job.key
      /\ Entry.value = job.value /\ pc = "state" /\ begun' = begun
  BY DEF MarkFull, IInv, Mapped, JobDone
<1>2. db.pairs[i] \in Pair(Val) /\ db.pairs \in [Slots(db) -> Pair(Val)] /\ Sound(db)
  BY <1>1, MappedTable
<1>3. q \in Pair(Val) /\ IsOwn(q) /\ q.state = "FULL" /\ db.pairs[i].state \in State
  BY <1>1, <1>2 DEF Pair, State, IsOwn, SetJob, Entry
<1>4. [db EXCEPT !.pairs[i].state = "FULL"] = u
  BY <1>1, <1>2
<1>5. Store(u, "idle")
  BY <1>4 DEF MarkFull
<1>6. Entry.state = db.pairs[i].state
  BY DEF Entry
<1> HIDE DEF q, i
<1>7. Sound(u) /\ u.capacity = db.capacity /\ u.size = db.size /\ u.fill = db.fill
      /\ u.pairs = [db.pairs EXCEPT ![i] = q]
  BY <1>1, <1>2, <1>3, PairStored, PairEdited
<1> HIDE DEF u
<1>8. /\ Cardinality(Live(u)) = Cardinality(Live(db)) + IF Entry.state = "FULL" THEN 0 ELSE 1
      /\ Used(u) = Used(db) + IF Entry.state = "EMPTY" THEN 1 ELSE 0
  <2>1. Cardinality(Live(db)) \in Nat /\ Used(db) \in Nat
    BY <1>2, SoundCounts
  <2>2. db.pairs[i].state = "FULL" =>
          Cardinality(Live(u)) = Cardinality(Live(db)) /\ Used(u) = Used(db)
    BY <1>1, <1>2, <1>3, <1>7, EditCounts
  <2>3. db.pairs[i].state = "EMPTY" =>
          Cardinality(Live(u)) = Cardinality(Live(db)) + 1 /\ Used(u) = Used(db) + 1
    BY <1>1, <1>2, <1>3, <1>7, EditCounts
  <2>4. db.pairs[i].state = "TOMBSTONE" =>
          Cardinality(Live(u)) = Cardinality(Live(db)) + 1 /\ Used(u) = Used(db)
    BY <1>1, <1>2, <1>3, <1>7, EditCounts
  <2> QED
    BY <1>3, <1>6, <2>1, <2>2, <2>3, <2>4 DEF State
<1>9. pc' = "idle" /\ at' = at /\ reused' = reused /\ halfErased' = halfErased
  BY <1>5 DEF Store, StoreInLoop
<1>10. ASSUME FilesCounted PROVE FilesCounted'
  <2>1. /\ SizeBound = begun /\ FillBound = begun /\ SizeBound' = begun /\ FillBound' = begun
        /\ SizeShort(at) = IF Entry.state = "FULL" THEN halfErased ELSE halfErased - 1
        /\ FillShort(at) = IF Entry.state = "EMPTY" THEN halfErased - 1 ELSE halfErased
        /\ SizeShort(at)' = halfErased /\ FillShort(at)' = halfErased
    BY <1>1, <1>9 DEF SizeBound, FillBound, SizeShort, FillShort
  <2>2. /\ Counted(db, begun, begun, SizeShort(at), FillShort(at))
        /\ begun \in Nat /\ halfErased \in Nat
        /\ Signed(db.size) \in Int /\ Signed(db.fill) \in Int
        /\ Cardinality(Live(db)) \in Nat /\ Used(db) \in Nat
    BY <1>1, <1>10, <2>1, MappedCounted
  <2>3. /\ Cardinality(Live(u)) <= Signed(db.size) + halfErased
        /\ Used(u) <= Signed(db.fill) + halfErased
    BY <1>8, <2>1, <2>2 DEF Counted
  <2>4. Counted(u, SizeBound', FillBound', SizeShort(at)', FillShort(at)')
    BY <1>7, <2>1, <2>2, <2>3 DEF Counted
  <2>5. SizeBound <= SizeBound' /\ FillBound <= FillBound'
    BY <2>1, <2>2
  <2> QED
    BY <1>1, <1>5, <1>10, <2>4, <2>5, StoreCounted DEF CInv, Store
<1> QED
  BY <1>9, <1>10, Elsewhere DEF CInv

-----------------------------------------------------------------------------
\* The stores of an erase() and of a clear().

\* size is worth an entry at least: the one that goes.
LEMMA EraseCalledCounts ==
  ASSUME IInv, CInv, HistoryBounds', NEW k \in Key, EraseCalled(k) PROVE CInv'
<1> DEFINE n == (db.size - 1) % Word
           u == [db EXCEPT !.size = n]
           i == GetEntry(db, k)
<1>1. /\ at # None /\ pc = "idle" /\ Sound(db) /\ n \in Nat /\ begun' = begun + 1
      /\ StopDistances(db, k) # {} /\ db.pairs[i].state = "FULL" /\ job'.slot = i
  BY MappedTable, Wraps DEF EraseCalled, Begin, Idle, NoJob
<1>2. i \in Slots(db)
  BY <1>1, MappedTable, GetEntryStops
<1>3. Store(u, "tombstone")
  BY DEF EraseCalled
<1> HIDE DEF n
<1>4. Sound(u) /\ u.pairs = db.pairs /\ u.capacity = db.capacity
  BY <1>1, CountedSound
<1>5. u.size = n /\ u.fill = db.fill
  BY <1>1 DEF Sound, TableOf
<1> HIDE DEF u
<1>6. pc' = "tombstone" /\ db' = u /\ at' = at /\ reused' = reused /\ halfErased' = halfErased
  <2>1. db' = u
    BY <1>1, <1>3, <1>4, StoreKeeps
  <2> QED
    BY <1>3, <2>1 DEF Store, StoreInLoop
<1>7. SlotFound'
  BY <1>1, <1>2, <1>4, <1>6 DEF SlotFound, Slots, Entry
<1>8. ASSUME FilesCounted PROVE FilesCounted'
  <2>1. /\ SizeBound = begun /\ FillBound = begun
        /\ SizeBound' = begun + 1 /\ FillBound' = begun + 1
        /\ SizeShort(at) = halfErased /\ FillShort(at) = halfErased
        /\ SizeShort(at)' = halfErased + 1 /\ FillShort(at)' = halfErased
    BY <1>1, <1>6 DEF SizeBound, FillBound, SizeShort, FillShort
  <2>2. /\ Counted(db, begun, begun, halfErased, halfErased)
        /\ begun \in Nat /\ halfErased \in 0 .. MaxKills
        /\ Cardinality(Live(db)) \in Nat /\ Signed(db.size) \in Int /\ Signed(db.fill) \in Int
    BY <1>1, <1>8, <2>1, MappedCounted, CountAssumption
  <2>3. Cardinality(Live(db)) >= 1
    <3>1. IsFiniteSet(Live(db)) /\ Live(db) # {}
      BY <1>1, <1>2, StatesFinite, MappedTable DEF Live, InState
    <3>2. Cardinality(Live(db)) # 0
      BY <3>1, FS_EmptySet
    <3> QED
      BY <2>2, <3>2
  <2>4. db.size \in 0 .. Word - 1 /\ Signed(db.size) + halfErased >= 1
    BY <2>2, <2>3 DEF Counted
  <2>5. n \in 0 .. Word - 1 /\ Signed(n) = Signed(db.size) - 1
    BY <2>2, <2>4, CountDown DEF n
  <2>6. Cardinality(Live(u)) = Cardinality(Live(db)) /\ Used(u) = Used(db)
    BY <1>4, SamePairs
  <2>7. Counted(u, SizeBound', FillBound', SizeShort(at)', FillShort(at)')
    BY <1>4, <1>5, <2>1, <2>2, <2>5, <2>6 DEF Counted
  <2>8. SizeBound <= SizeBound' /\ FillBound <= FillBound'
    BY <2>1, <2>2
  <2> QED
    BY <1>1, <1>3, <1>8, <2>7, <2>8, StoreCounted DEF CInv, Store
<1> QED
  BY <1>6, <1>7, <1>8, Elsewhere DEF CInv

LEMMA MarkTombstoneCounts == ASSUME IInv, CInv, HistoryBounds', MarkTombstone PROVE CInv'
<1> DEFINE i == job.slot
           q == [db.pairs[i] EXCEPT !.state = "TOMBSTONE"]
           u == [db EXCEPT !.pairs[i] = q]
<1>1. /\ at # None /\ pc = "tombstone" /\ begun' = begun
      /\ i \in Slots(db) /\ db.pairs[i].state = "FULL"
  BY DEF MarkTombstone, IInv, Mapped, CInv, SlotFound, Entry
<1>2. db.pairs[i] \in Pair(Val) /\ db.pairs \in [Slots(db) -> Pair(Val)] /\ Sound(db)
  BY <1>1, MappedTable
<1>3. q \in Pair(Val) /\ q.state = "TOMBSTONE"
  BY <1>2 DEF Pair, State
<1>4. [db EXCEPT !.pairs[i].state = "TOMBSTONE"] = u
  BY <1>1, <1>2
<1>5. Store(u, "idle")
  BY <1>4 DEF MarkTombstone
<1> HIDE DEF q, i
<1>6. u.capacity = db.capacity /\ u.size = db.size /\ u.fill = db.fill
      /\ u.pairs = [db.pairs EXCEPT ![i] = q]
  BY <1>1, <1>2, <1>3, PairStored
<1> HIDE DEF u
<1>7. Cardinality(Live(u)) = Cardinality(Live(db)) - 1 /\ Used(u) = Used(db)
  BY <1>1, <1>2, <1>3, <1>6, EditCounts
<1>8. pc' = "idle" /\ at' = at /\ reused' = reused /\ halfErased' = halfErased
  BY <1>5 DEF Store, StoreInLoop
<1>9. ASSUME FilesCounted PROVE FilesCounted'
  <2>1. /\ SizeBound = begun /\ FillBound = begun /\ SizeBound' = begun /\ FillBound' = begun
        /\ SizeShort(at) = halfErased + 1 /\ FillShort(at) = halfErased
        /\ SizeShort(at)' = halfErased /\ FillShort(at)' = halfErased
    BY <1>1, <1>8 DEF SizeBound, FillBound, SizeShort, FillShort
  <2>2. /\ Counted(db, begun, begun, halfErased + 1, halfErased)
        /\ begun \in Nat /\ halfErased \in Nat
        /\ Cardinality(Live(db)) \in Nat /\ Signed(db.size) \in Int
    BY <1>1, <1>9, <2>1, MappedCounted
  <2>3. Counted(u, SizeBound', FillBound', SizeShort(at)', FillShort(at)')
    BY <1>6, <1>7, <2>1, <2>2 DEF Counted
  <2>4. SizeBound <= SizeBound' /\ FillBound <= FillBound'
    BY <2>1, <2>2
  <2> QED
    BY <1>1, <1>5, <1>9, <2>3, <2>4, StoreCounted DEF CInv, Store
<1> QED
  BY <1>8, <1>9, Elsewhere DEF CInv

LEMMA ClearCalledCounts == ASSUME IInv, CInv, HistoryBounds', ClearCalled PROVE CInv'
<1>1. /\ pc = "idle" /\ pc' = "clear" /\ files' = files /\ next' = 0 /\ begun' = begun + 1
      /\ reused' = reused /\ halfErased' = halfErased
  BY DEF ClearCalled, Begin, Idle
<1>2. begun \in Nat /\ halfErased \in Nat
  BY CountAssumption DEF CInv, HistoryBounds
<1>3. /\ SizeBound <= SizeBound' /\ FillBound <= FillBound'
      /\ \A p : SizeShort(p) <= SizeShort(p)' /\ FillShort(p) <= FillShort(p)'
  BY <1>1, <1>2 DEF SizeBound, FillBound, SizeShort, FillShort
<1>4. FilesCounted => FilesCounted'
  BY <1>1, <1>3, FilesStayCounted DEF CInv
<1>5. Emptied'
  BY <1>1 DEF Emptied, Slots
<1> QED
  BY <1>1, <1>4, <1>5, Elsewhere DEF CInv

\* A pair zeroed before its counters are: they count too much.
LEMMA ClearPairCounts == ASSUME IInv, CInv, HistoryBounds', ClearPair PROVE CInv'
<1> DEFINE q == ZeroPair(NoValue)
           u == [db EXCEPT !.pairs[next] = q]
<1>1. /\ at # None /\ pc = "clear" /\ begun' = begun /\ StoreInLoop(u, "clear")
      /\ next' = next + 1 /\ next \in Nat /\ next < db.capacity
  BY DEF ClearPair, IInv, Mapped, JobDone
<1>2. /\ db.pairs \in [Slots(db) -> Pair(Val)] /\ Sound(db) /\ next \in Slots(db)
      /\ db.capacity \in Nat
  BY <1>1, MappedTable DEF Slots
<1>3. q \in Pair(Val) /\ q.state = "EMPTY"
  BY ZeroPairs
<1> HIDE DEF q
<1>4. /\ u.capacity = db.capacity /\ u.size = db.size /\ u.fill = db.fill
      /\ u.pairs = [db.pairs EXCEPT ![next] = q]
  BY <1>2, <1>3, PairStored
<1>5. Sound(u)
  BY <1>2, <1>3, PairEdited
<1> HIDE DEF u
<1>6. Cardinality(Live(u)) <= Cardinality(Live(db)) /\ Used(u) <= Used(db)
  BY <1>2, <1>3, <1>4, EditCounts
<1>7. pc' = "clear" /\ db' = u /\ at' = at /\ reused' = reused /\ halfErased' = halfErased
  BY <1>1, <1>5, StoreInLoopKeeps DEF StoreInLoop
<1>8. ASSUME FilesCounted PROVE FilesCounted'
  <2>1. /\ SizeBound = begun /\ FillBound = begun /\ SizeBound' = begun /\ FillBound' = begun
        /\ SizeShort(at) = halfErased /\ FillShort(at) = halfErased
        /\ SizeShort(at)' = halfErased /\ FillShort(at)' = halfErased
    BY <1>1, <1>7 DEF SizeBound, FillBound, SizeShort, FillShort
  <2>2. /\ Counted(db, begun, begun, halfErased, halfErased)
        /\ begun \in Nat /\ halfErased \in Nat
        /\ Cardinality(Live(db)) \in Nat /\ Used(db) \in Nat
        /\ Signed(db.size) \in Int /\ Signed(db.fill) \in Int
    BY <1>1, <1>8, <2>1, MappedCounted
  <2>3. Cardinality(Live(u)) \in Nat /\ Used(u) \in Nat
    BY <1>5, SoundCounts
  <2>4. Counted(u, SizeBound', FillBound', SizeShort(at)', FillShort(at)')
    BY <1>4, <1>6, <2>1, <2>2, <2>3 DEF Counted
  <2>5. SizeBound <= SizeBound' /\ FillBound <= FillBound'
    BY <2>1, <2>2
  <2> QED
    BY <1>1, <1>8, <2>4, <2>5, StoreCounted DEF CInv
<1>9. Emptied'
  BY <1>1, <1>2, <1>3, <1>4, <1>7 DEF CInv, Emptied, Slots
<1> QED
  BY <1>7, <1>8, <1>9, Elsewhere DEF CInv

\* A counter of an emptied table set to 0.
LEMMA ClearCountCounts ==
  ASSUME IInv, CInv, HistoryBounds', at # None, pc = "clear", begun' = begun, next >= db.capacity,
         NEW u, NEW then \in {"clear", "idle"}, StoreInLoop(u, then),
         u.capacity = db.capacity, u.pairs = db.pairs,
         u.size \in {0, db.size}, u.fill \in {0, db.fill}
  PROVE  /\ pc' = then /\ db' = u /\ reused' = reused /\ SlotFound' /\ NewTableMade' /\ SlotLeft'
         /\ ~reused => FilesCounted'
         /\ \A i \in Slots(u) : u.pairs[i].state = "EMPTY"
<1>1. Sound(db) /\ at \in Path /\ db.capacity \in Nat /\ next \in Nat
  BY MappedTable DEF IInv, Mapped, JobDone
<1>2. \A i \in Slots(db) : db.pairs[i].state = "EMPTY"
  BY <1>1 DEF CInv, Emptied, Slots
<1>3. Cardinality(Live(u)) = 0 /\ Used(u) = 0
  <2>1. Cardinality(Live(db)) = 0 /\ Used(db) = 0
    BY <1>1, <1>2, NoneUsed
  <2> QED
    BY <2>1, SamePairs
<1>4. pc' = then /\ at' = at /\ db' = u /\ reused' = reused /\ halfErased' = halfErased
  BY <1>1 DEF StoreInLoop, IInv, FilesSound, db
<1>5. ASSUME FilesCounted PROVE FilesCounted'
  <2>1. /\ SizeBound = begun /\ FillBound = begun /\ SizeBound' = begun /\ FillBound' = begun
        /\ SizeShort(at) = halfErased /\ FillShort(at) = halfErased
        /\ SizeShort(at)' = halfErased /\ FillShort(at)' = halfErased
    BY <1>4 DEF SizeBound, FillBound, SizeShort, FillShort
  <2>2. /\ Counted(db, begun, begun, halfErased, halfErased)
        /\ begun \in Nat /\ halfErased \in Nat
        /\ Cardinality(Live(db)) = 0 /\ Used(db) = 0
    BY <1>1, <1>2, <1>5, <2>1, MappedCounted, NoneUsed
  <2>3. Signed(0) = 0 /\ 0 \in 0 .. Word - 1
    BY CrashAssumption, CountAssumption DEF Signed
  <2>4. Counted(u, SizeBound', FillBound', SizeShort(at)', FillShort(at)')
    BY <1>3, <2>1, <2>2, <2>3 DEF Counted
  <2>5. SizeBound <= SizeBound' /\ FillBound <= FillBound'
    BY <2>1, <2>2
  <2> QED
    BY <1>5, <2>4, <2>5, StoreCounted DEF CInv
<1>6. \A i \in Slots(u) : u.pairs[i].state = "EMPTY"
  BY <1>2 DEF Slots
<1> QED
  BY <1>4, <1>5, <1>6, Elsewhere DEF CInv

LEMMA ClearSizeCounts == ASSUME IInv, CInv, HistoryBounds', ClearSize PROVE CInv'
<1> DEFINE u == [db EXCEPT !.size = 0]
<1>1. /\ at # None /\ pc = "clear" /\ begun' = begun /\ Sound(db) /\ next = db.capacity
      /\ StoreInLoop(u, "clear")
  BY MappedTable DEF ClearSize, IInv, Mapped
<1>2. u.size = 0 /\ u.fill = db.fill /\ u.capacity = db.capacity /\ u.pairs = db.pairs
  BY <1>1 DEF Sound, TableOf
<1>3. next >= db.capacity
  BY <1>1, MappedTable
<1> HIDE DEF u
<1>4. /\ pc' = "clear" /\ db' = u /\ reused' = reused /\ SlotFound' /\ NewTableMade' /\ SlotLeft'
      /\ ~reused => FilesCounted'
      /\ \A i \in Slots(u) : u.pairs[i].state = "EMPTY"
  BY <1>1, <1>2, <1>3, ClearCountCounts
<1>5. Emptied'
  BY <1>4 DEF Emptied, Slots
<1> QED
  BY <1>4, <1>5 DEF CInv

LEMMA ClearFillCounts == ASSUME IInv, CInv, HistoryBounds', ClearFill PROVE CInv'
<1> DEFINE u == [db EXCEPT !.fill = 0]
<1>1. /\ at # None /\ pc = "clear" /\ begun' = begun /\ Sound(db) /\ next = db.capacity + 1
      /\ StoreInLoop(u, "idle")
  BY MappedTable DEF ClearFill, IInv, Mapped
<1>2. u.size = db.size /\ u.fill = 0 /\ u.capacity = db.capacity /\ u.pairs = db.pairs
  BY <1>1 DEF Sound, TableOf
<1>3. next >= db.capacity
  BY <1>1, MappedTable
<1> HIDE DEF u
<1>4. /\ pc' = "idle" /\ reused' = reused /\ SlotFound' /\ NewTableMade' /\ SlotLeft'
      /\ ~reused => FilesCounted'
  BY <1>1, <1>2, <1>3, ClearCountCounts
<1> QED
  BY <1>4, Elsewhere DEF CInv

-----------------------------------------------------------------------------
LEMMA NextCInv == IInv /\ IInv' /\ CInv /\ [Next]_vars => CInv'
<1> SUFFICES ASSUME IInv, IInv', CInv, [Next]_vars PROVE CInv'
  OBVIOUS
<1>1. HistoryBounds'
  BY HistoryKeeps DEF CInv
<1>2. CASE UNCHANGED vars
  BY <1>2 DEF vars, calls, history, CInv, HistoryBounds, SlotFound, Emptied, FilesCounted, NewTableMade,
              SlotLeft, SizeBound, FillBound, SizeShort, FillShort, Entry, db
<1>3. CASE RehashNow
  BY <1>1, <1>3, StartRehashCounts DEF RehashNow
<1>4. CASE Open \/ Load \/ Close \/ Kill \/ KillInCopy
  BY <1>1, <1>4, OpenCounts, UnmapCounts
<1>5. CASE CopyPair \/ RemoveOld \/ RenameNew
  BY <1>1, <1>5, CopyPairCounts, RemoveOldCounts, RenameNewCounts
<1>6. CASE WriteKey \/ CountEntry \/ CountSlot \/ WriteValue \/ MarkFull
  BY <1>1, <1>6, WriteKeyCounts, CountEntryCounts, CountSlotCounts, WriteValueCounts, MarkFullCounts
<1>7. CASE MarkTombstone \/ ClearCalled \/ ClearPair \/ ClearSize \/ ClearFill
  BY <1>1, <1>7, MarkTombstoneCounts, ClearCalledCounts, ClearPairCounts, ClearSizeCounts,
           ClearFillCounts
<1> QED
  BY <1>1, <1>2, <1>3, <1>4, <1>5, <1>6, <1>7, SetCalledCounts, EraseCalledCounts DEF Next

LEMMA InitCInv == Init => CInv
BY CountAssumption DEF Init, CInv, HistoryBounds, SlotFound, Emptied, FilesCounted, NewTableMade, SlotLeft

THEOREM CountsInductive == Spec => [](~mixed => CInv)
<1>1. Init => (~mixed => CInv)
  BY InitCInv
<1>2. /\ (~mixed => IInv) /\ (~mixed => IInv)' /\ (~mixed => CInv) /\ [Next]_vars
      => (~mixed => CInv)'
  BY NextCInv, HistoryStays
<1> QED
  BY <1>1, <1>2, Inductive, PTL DEF Spec

\* However the process was killed: the counters that check_rehash and erase rely
\* on are short by one for each erase() killed half-way, and by no more.
THEOREM CountsSurviveKills == Spec => []KillsCostOne
<1>1. ASSUME IInv, CInv, at # None, ~reused
      PROVE  /\ Cardinality(Live(db)) <= db.size + halfErased + IF pc = "tombstone" THEN 1 ELSE 0
             /\ Cardinality(Live(db) \cup Tombs(db)) <= db.fill + halfErased
  <2>1. /\ Counted(db, SizeBound, FillBound, SizeShort(at), FillShort(at))
        /\ Signed(db.size) \in Int /\ Signed(db.fill) \in Int
        /\ Cardinality(Live(db)) \in Nat /\ Used(db) \in Nat /\ Sound(db) /\ halfErased \in Nat
        /\ db.capacity \in Nat
    BY <1>1, MappedCounted DEF CInv
  <2>2. /\ db.size \in 0 .. Word - 1 /\ Cardinality(Live(db)) <= Signed(db.size) + SizeShort(at)
        /\ db.fill \in 0 .. Word - 1 /\ Used(db) <= Signed(db.fill) + FillShort(at)
    BY <2>1 DEF Counted
  <2>3. Signed(db.size) <= db.size /\ Signed(db.fill) <= db.fill
        /\ db.size \in Nat /\ db.fill \in Nat
    BY <2>1, <2>2, SignedRange, SoundCounts
  <2>4. /\ SizeShort(at) \in Int /\ FillShort(at) \in Int
        /\ SizeShort(at) <= halfErased + IF pc = "tombstone" THEN 1 ELSE 0
        /\ FillShort(at) <= halfErased
    BY <2>1 DEF SizeShort, FillShort
  <2>5. Cardinality(Live(db) \cup Tombs(db)) \in Nat /\ Cardinality(Live(db) \cup Tombs(db)) <= Used(db)
    BY <2>1, StatesFinite, UnionCount DEF Used
  <2>6. Cardinality(Live(db)) <= db.size + halfErased + IF pc = "tombstone" THEN 1 ELSE 0
    BY <2>1, <2>2, <2>3, <2>4
  <2>7. Cardinality(Live(db) \cup Tombs(db)) <= db.fill + halfErased
    BY <2>1, <2>2, <2>3, <2>4, <2>5
  <2> QED
    BY <2>6, <2>7
<1>2. (mixed => reused) /\ (~mixed => IInv) /\ (~mixed => CInv) => KillsCostOne
  BY <1>1 DEF KillsCostOne
<1> QED
  BY <1>2, MixedReused, Inductive, CountsInductive, PTL

\* The old file goes when the .tmp file holds all of the table that takes its
\* place, which is the table of a rehash in one step.
THEOREM CopiesAreComplete == Spec => NewTableIsComplete
<1>1. ASSUME IInv, CInv, [Next]_vars, ~UNCHANGED vars, at # None, pc' = "rename", ~reused
      PROVE  temps'[hpath] = Rehashed(db, NoValue)
  <2>1. RemoveOld
    <3>1. ~(Open \/ Load \/ Close \/ Kill \/ KillInCopy)
      BY <1>1 DEF Open, Load, Close, Idle, Kill, KillInCopy, Killed, calls
    <3>2. ~(RehashNow \/ \E k \in Key : \E v \in Values[k] : SetCalled(k, v))
      BY <1>1 DEF RehashNow, SetCalled, StartRehash
    <3>3. ~CopyPair
      BY <1>1 DEF CopyPair
    <3>4. ~RenameNew
      BY <1>1 DEF RenameNew
    <3>5. ~(WriteKey \/ CountEntry \/ CountSlot \/ WriteValue \/ MarkFull)
      BY <1>1 DEF WriteKey, CountEntry, CountSlot, WriteValue, MarkFull, Store, StoreInLoop
    <3>6. ~((\E k \in Key : EraseCalled(k)) \/ MarkTombstone
          \/ ClearCalled \/ ClearPair \/ ClearSize \/ ClearFill)
      BY <1>1 DEF EraseCalled, MarkTombstone, ClearCalled, ClearPair, ClearSize, ClearFill,
                  Store, StoreInLoop
    <3> QED
      BY <1>1, <3>1, <3>2, <3>3, <3>4, <3>5, <3>6 DEF Next
  <2>2. temps' = temps
    BY <2>1 DEF RemoveOld
  <2> QED
    BY <1>1, <2>1, <2>2, CopyComplete
<1>2. (mixed => reused) /\ (~mixed => IInv) /\ (~mixed => CInv) /\ [Next]_vars =>
        [at # None /\ pc' = "rename" /\ ~reused => temps'[hpath] = Rehashed(db, NoValue)]_vars
  BY <1>1
<1> QED
  BY <1>2, MixedReused, Inductive, CountsInductive, PTL DEF Spec, NewTableIsComplete

-----------------------------------------------------------------------------
\* A set() killed anywhere is done or not done.

\* The step of a set(), for all keys.
Undisturbed(t, u, j) == \A k \in Key : \/ Get(u, k) = Get(t, k)
                                       \/ k = j.key /\ Get(u, k) = j.value
                                       \/ k # j.key /\ Get(t, k) = Missing

\* Where get() reads the same slot and finds the same there.
LEMMA SameRead ==
  ASSUME NEW t, NEW u, NEW k, u.size = t.size, GetEntry(u, k) = GetEntry(t, k),
         LET i == GetEntry(t, k) IN /\ u.pairs[i].state = t.pairs[i].state
                                    /\ u.pairs[i].value = t.pairs[i].value
  PROVE  Get(u, k) = Get(t, k)
BY DEF Get

\* What is known of the mapped table at every store of a set().
LEMMA SetMidway ==
  ASSUME IInv, CInv, ~reused, halfErased <= 1, pc \in {"key", "size", "fill", "value", "state"}
  PROVE  /\ at # None /\ Sound(db) /\ db.capacity \in Nat /\ db.capacity > 0
         /\ db.pairs \in [Slots(db) -> Pair(Val)]
         /\ SetJob /\ job.key \in Key
         /\ \A k \in Key : /\ StopDistances(db, k) # {}
                           /\ GetEntry(db, k) \in Slots(db) /\ Stops(db, k, GetEntry(db, k))
         /\ pc # "key" => /\ job.slot = GetEntry(db, job.key) /\ job.slot \in Slots(db)
                          /\ Entry.key = job.key
<1>1. at # None /\ SetJob /\ job.key \in Key
  BY DEF IInv, Mapped, JobDone, SetJob
<1>2. Sound(db) /\ db.capacity \in Nat /\ db.capacity > 0 /\ db.pairs \in [Slots(db) -> Pair(Val)]
  BY <1>1, MappedTable
<1>3. Used(db) < db.capacity
  BY DEF CInv, SlotLeft
<1>4. \A k \in Key : StopDistances(db, k) # {}
  BY <1>2, <1>3, UnusedSlot
<1>5. \A k \in Key : GetEntry(db, k) \in Slots(db) /\ Stops(db, k, GetEntry(db, k))
  BY <1>2, <1>4, GetEntryStops
<1>6. pc # "key" => job.slot = GetEntry(db, job.key) /\ job.slot \in Slots(db) /\ Entry.key = job.key
  BY DEF IInv, JobDone, CInv, SlotFound
<1> QED
  BY <1>1, <1>2, <1>4, <1>5, <1>6

LEMMA WriteKeyAtomic ==
  ASSUME IInv, CInv, ~reused, halfErased <= 1, WriteKey PROVE Undisturbed(db, db', job)
<1> DEFINE i == GetEntry(db, job.key)
           q == [db.pairs[i] EXCEPT !.key = job.key]
           u == [db EXCEPT !.pairs[i] = q]
<1>1. pc = "key" /\ at # None
  BY SetMidway DEF WriteKey
<1>2. /\ Sound(db) /\ db.capacity \in Nat /\ db.capacity > 0 /\ i \in Slots(db)
      /\ db.pairs \in [Slots(db) -> Pair(Val)] /\ db.pairs[i] \in Pair(Val)
      /\ job.key \in Key /\ Stops(db, job.key, i)
  BY <1>1, SetMidway
<1>3. /\ q \in Pair(Val) /\ q.key = job.key
      /\ q.state = db.pairs[i].state /\ q.value = db.pairs[i].value
      /\ (q.state = "FULL" => IsOwn(q) /\ q.key = db.pairs[i].key)
  BY <1>2 DEF Pair, Stops, IsOwn, Sound
<1>4. [db EXCEPT !.pairs[i].key = job.key] = u
  BY <1>2
<1>5. Store(u, "size")
  BY <1>4 DEF WriteKey
<1> HIDE DEF q
<1>6. /\ Sound(u) /\ u.capacity = db.capacity /\ u.size = db.size /\ u.pairs[i] = q
      /\ \A j \in Slots(db) : j # i => u.pairs[j] = db.pairs[j]
  <2> HIDE DEF i
  <2>1. Sound(u)
    BY <1>2, <1>3, PairEdited
  <2>2. /\ u.capacity = db.capacity /\ u.size = db.size /\ u.pairs[i] = q
        /\ \A j \in Slots(db) : j # i => u.pairs[j] = db.pairs[j]
    <3>1. u = [db EXCEPT !.pairs[i] = q]
      OBVIOUS
    <3> HIDE DEF u
    <3> QED
      BY <1>2, <1>3, <3>1, PairStored
  <2> QED
    BY <2>1, <2>2
<1> HIDE DEF u, i
<1>7. db' = u
  BY <1>1, <1>5, <1>6, StoreKeeps
<1>8. ASSUME NEW k \in Key PROVE Get(u, k) = Get(db, k)
  <2>1. StopDistances(db, k) # {} /\ GetEntry(db, k) \in Slots(db) /\ Stops(db, k, GetEntry(db, k))
    BY <1>1, SetMidway
  <2>2. \A j \in Slots(db) : Stops(u, k, j) <=> Stops(db, k, j)
    BY <1>3, <1>6 DEF Stops
  <2>3. GetEntry(u, k) = GetEntry(db, k)
    BY <1>2, <1>6, <2>1, <2>2, SameStop
  <2>4. \A j \in Slots(db) : u.pairs[j].state = db.pairs[j].state /\ u.pairs[j].value = db.pairs[j].value
    BY <1>3, <1>6
  <2> QED
    BY <1>6, <2>1, <2>3, <2>4, SameRead
<1> QED
  BY <1>7, <1>8 DEF Undisturbed

\* A size that was 0 hides all entries; one that comes to 0 has none to hide.
LEMMA CountEntryAtomic ==
  ASSUME IInv, CInv, ~reused, halfErased <= 1, CountEntry PROVE Undisturbed(db, db', job)
<1> DEFINE n == CountedUp(db.size, Entry.state # "FULL")
           u == [db EXCEPT !.size = n]
<1>1. at # None /\ pc = "size"
  BY SetMidway DEF CountEntry
<1>2. Store(u, "fill")
  BY DEF CountEntry, CountedUp
<1>3. /\ n \in Nat /\ Sound(db) /\ db.size \in Nat
      /\ \A k \in Key : GetEntry(db, k) \in Slots(db)
      /\ job.slot = GetEntry(db, job.key) /\ job.key \in Key
  BY <1>1, SetMidway, MappedTable, Wraps DEF CountedUp
<1> HIDE DEF n
<1>4. Sound(u) /\ u.pairs = db.pairs /\ u.capacity = db.capacity
  BY <1>3, CountedSound
<1>5. u.size = n
  BY <1>3 DEF Sound, TableOf
<1> HIDE DEF u
<1>6. db' = u
  BY <1>1, <1>2, <1>4, StoreKeeps
<1>7. \A k : GetEntry(u, k) = GetEntry(db, k)
  BY <1>4, SamePairs
<1>8. CASE n # 0 /\ db.size # 0
  BY <1>4, <1>5, <1>6, <1>7, <1>8 DEF Undisturbed, Get
<1>9. CASE n = db.size
  BY <1>4, <1>5, <1>6, <1>7, <1>9 DEF Undisturbed, Get
<1>10. CASE db.size = 0 /\ Entry.state # "FULL"
  <2>1. \A k \in Key : Get(db, k) = Missing
    BY <1>10 DEF Get
  <2>2. Get(u, job.key) = Missing
    BY <1>3, <1>4, <1>7, <1>10 DEF Get, Entry
  <2> QED
    BY <1>3, <1>6, <2>1, <2>2 DEF Undisturbed
<1>11. CASE n = 0 /\ Entry.state # "FULL"
  <2>1. /\ SizeShort(at) = halfErased /\ SizeBound = begun - 1
    BY <1>1 DEF SizeShort, SizeBound
  <2>2. /\ Cardinality(Live(db)) <= Signed(db.size) + halfErased /\ db.size \in 0 .. Word - 1
        /\ Cardinality(Live(db)) \in Nat /\ Signed(db.size) \in Int /\ Signed(db.size) < MaxCalls
        /\ halfErased \in Nat
    BY <1>1, <2>1, MappedCounted, CountAssumption DEF CInv, Counted
  <2>3. Signed(n) = Signed(db.size) + 1
    BY <1>11, <2>2, CountedUpOne DEF n
  <2>4. Signed(0) = 0
    BY CountAssumption DEF Signed
  <2>5. Cardinality(Live(db)) = 0
    BY <1>11, <2>2, <2>3, <2>4
  <2>6. Live(db) = {}
    BY <1>3, <2>5, StatesFinite, SoundCounts, FS_EmptySet
  <2>7. \A k \in Key : Get(db, k) = Missing
    BY <1>3, <2>6 DEF Get, Live, InState
  <2>8. \A k \in Key : Get(u, k) = Missing
    BY <1>5, <1>11 DEF Get
  <2> QED
    BY <1>6, <2>7, <2>8 DEF Undisturbed
<1> QED
  BY <1>8, <1>9, <1>10, <1>11 DEF n, CountedUp

LEMMA CountSlotAtomic ==
  ASSUME IInv, CInv, ~reused, halfErased <= 1, CountSlot PROVE Undisturbed(db, db', job)
<1> DEFINE n == CountedUp(db.fill, Entry.state = "EMPTY")
           u == [db EXCEPT !.fill = n]
<1>1. at # None
  BY SetMidway DEF CountSlot
<1>2. Store(u, "value")
  BY DEF CountSlot, CountedUp
<1>3. n \in Nat /\ Sound(db)
  BY <1>1, MappedTable, Wraps DEF CountedUp
<1> HIDE DEF n
<1>4. Sound(u) /\ u.pairs = db.pairs /\ u.capacity = db.capacity
  BY <1>3, CountedSound
<1>5. u.size = db.size
  BY <1>3 DEF Sound, TableOf
<1> HIDE DEF u
<1>6. db' = u
  BY <1>1, <1>2, <1>4, StoreKeeps
<1>7. \A k : GetEntry(u, k) = GetEntry(db, k)
  BY <1>4, SamePairs
<1> QED
  BY <1>4, <1>5, <1>6, <1>7 DEF Undisturbed, Get

\* The slot of the call is read for no other key, unless as a tombstone.
LEMMA WriteValueAtomic ==
  ASSUME IInv, CInv, ~reused, halfErased <= 1, WriteValue PROVE Undisturbed(db, db', job)
<1> DEFINE i == job.slot
           q == [db.pairs[i] EXCEPT !.value = job.value]
           u == [db EXCEPT !.pairs[i] = q]
<1>1. /\ at # None /\ SetJob /\ pc = "value" /\ i \in Slots(db) /\ Entry.key = job.key
      /\ Sound(db) /\ db.capacity \in Nat /\ db.capacity > 0
      /\ db.pairs \in [Slots(db) -> Pair(Val)] /\ db.pairs[i] \in Pair(Val)
  BY SetMidway DEF WriteValue
<1>2. /\ q \in Pair(Val) /\ q.key = db.pairs[i].key /\ q.key = job.key
      /\ q.state = db.pairs[i].state /\ q.value = job.value /\ IsOwn(q)
  BY <1>1 DEF Pair, IsOwn, SetJob, Entry
<1>3. [db EXCEPT !.pairs[i].value = job.value] = u
  BY <1>1
<1>4. Store(u, "state")
  BY <1>3 DEF WriteValue
<1> HIDE DEF q, i
<1>5. /\ Sound(u) /\ u.capacity = db.capacity /\ u.size = db.size /\ u.pairs[i] = q
      /\ \A j \in Slots(db) : j # i => u.pairs[j] = db.pairs[j]
  BY <1>1, <1>2, PairStored, PairEdited
<1> HIDE DEF u
<1>6. db' = u
  BY <1>1, <1>4, <1>5, StoreKeeps
<1>7. ASSUME NEW k \in Key
      PROVE  \/ Get(u, k) = Get(db, k)
             \/ k = job.key /\ Get(u, k) = job.value
  <2>1. StopDistances(db, k) # {} /\ GetEntry(db, k) \in Slots(db) /\ Stops(db, k, GetEntry(db, k))
    BY <1>1, SetMidway
  <2>2. \A j \in Slots(db) : Stops(u, k, j) <=> Stops(db, k, j)
    BY <1>2, <1>5 DEF Stops
  <2>3. GetEntry(u, k) = GetEntry(db, k)
    BY <1>1, <1>5, <2>1, <2>2, SameStop
  <2>4. CASE GetEntry(db, k) # i
    BY <1>5, <2>1, <2>3, <2>4, SameRead
  <2>5. CASE GetEntry(db, k) = i
    BY <1>2, <1>5, <2>1, <2>3, <2>5 DEF Get, Stops
  <2> QED
    BY <2>4, <2>5
<1> QED
  BY <1>6, <1>7 DEF Undisturbed

LEMMA MarkFullAtomic ==
  ASSUME IInv, CInv, ~reused, halfErased <= 1, MarkFull PROVE Undisturbed(db, db', job)
<1> DEFINE i == job.slot
           q == [db.pairs[i] EXCEPT !.state = "FULL"]
           u == [db EXCEPT !.pairs[i] = q]
<1>1. /\ at # None /\ SetJob /\ pc = "state" /\ i \in Slots(db) /\ Entry.key = job.key
      /\ Sound(db) /\ db.capacity \in Nat /\ db.capacity > 0 /\ i = GetEntry(db, job.key)
      /\ db.pairs \in [Slots(db) -> Pair(Val)] /\ db.pairs[i] \in Pair(Val)
      /\ Entry.value = job.value /\ job.key \in Key
  BY SetMidway DEF MarkFull, IInv, JobDone
<1>2. /\ q \in Pair(Val) /\ q.key = db.pairs[i].key /\ q.key = job.key
      /\ q.state = "FULL" /\ q.value = job.value /\ IsOwn(q)
  BY <1>1 DEF Pair, State, IsOwn, SetJob, Entry
<1>3. [db EXCEPT !.pairs[i].state = "FULL"] = u
  BY <1>1
<1>4. Store(u, "idle")
  BY <1>3 DEF MarkFull
<1> HIDE DEF q, i
<1>5. /\ Sound(u) /\ u.capacity = db.capacity /\ u.size = db.size /\ u.pairs[i] = q
      /\ \A j \in Slots(db) : j # i => u.pairs[j] = db.pairs[j]
  BY <1>1, <1>2, PairStored, PairEdited
<1> HIDE DEF u
<1>6. db' = u
  BY <1>1, <1>4, <1>5, StoreKeeps
<1>7. ASSUME NEW k \in Key
      PROVE  \/ Get(u, k) = Get(db, k)
             \/ k = job.key /\ Get(u, k) = job.value
             \/ k # job.key /\ Get(db, k) = Missing
  <2>1. StopDistances(db, k) # {} /\ GetEntry(db, k) \in Slots(db) /\ Stops(db, k, GetEntry(db, k))
    BY <1>1, SetMidway
  <2>2. \A j \in Slots(db) : Stops(u, k, j) => Stops(db, k, j)
    BY <1>2, <1>5 DEF Stops
  <2>3. CASE GetEntry(db, k) # i
    <3>1. Stops(u, k, GetEntry(db, k))
      BY <1>5, <2>1, <2>3 DEF Stops
    <3>2. GetEntry(u, k) = GetEntry(db, k)
      BY <1>1, <1>5, <2>1, <2>2, <3>1, SameStop
    <3> QED
      BY <1>5, <2>1, <2>3, <3>2, SameRead
  <2>4. CASE k = job.key
    <3>1. Stops(u, k, GetEntry(db, k))
      BY <1>1, <1>2, <1>5, <2>4 DEF Stops
    <3>2. GetEntry(u, k) = i
      BY <1>1, <1>5, <2>1, <2>2, <2>4, <3>1, SameStop
    <3> QED
      BY <1>1, <1>2, <1>5, <2>4, <3>2 DEF Get
  <2>5. CASE GetEntry(db, k) = i /\ k # job.key
    BY <1>2, <2>1, <2>5 DEF Get, Stops
  <2> QED
    BY <2>3, <2>4, <2>5
<1> QED
  BY <1>6, <1>7 DEF Undisturbed

\* Of the stores of a set() one makes its value readable and none makes another
\* key read otherwise, so that a kill leaves the set() done or not done.
THEOREM SetsAreAtomic == Spec => SetIsAtomic
<1>1. ASSUME IInv, CInv, [Next]_vars, ~UNCHANGED vars,
             ~reused, halfErased <= 1, at' # None, pc \in {"key", "size", "fill", "value", "state"}
      PROVE  Undisturbed(db, db', job)
  <2>1. ~(Open \/ Load \/ Close \/ Kill \/ KillInCopy)
    BY <1>1 DEF Open, Load, Close, Idle, Kill, KillInCopy, Killed
  <2>2. ~(RehashNow \/ \E k \in Key : \E v \in Values[k] : SetCalled(k, v))
    BY <1>1 DEF RehashNow, SetCalled, Begin, Idle
  <2>3. ~(CopyPair \/ RemoveOld \/ RenameNew)
    BY <1>1 DEF CopyPair, RemoveOld, RenameNew
  <2>4. ~((\E k \in Key : EraseCalled(k)) \/ MarkTombstone
        \/ ClearCalled \/ ClearPair \/ ClearSize \/ ClearFill)
    BY <1>1 DEF EraseCalled, Begin, Idle, MarkTombstone, ClearCalled, ClearPair, ClearSize, ClearFill
  <2>5. WriteKey \/ CountEntry \/ CountSlot \/ WriteValue \/ MarkFull
    BY <1>1, <2>1, <2>2, <2>3, <2>4 DEF Next
  <2> QED
    BY <1>1, <2>5, WriteKeyAtomic, CountEntryAtomic, CountSlotAtomic, WriteValueAtomic, MarkFullAtomic
<1>2. (mixed => reused) /\ (~mixed => IInv) /\ (~mixed => CInv) /\ [Next]_vars =>
        [~reused /\ halfErased <= 1 /\ at' # None /\ pc \in {"key", "size", "fill", "value", "state"}
           => Undisturbed(db, db', job)]_vars
  BY <1>1
<1>3. Undisturbed(db, db', job) <=> \A k \in Key : \/ Get(db', k) = Get(db, k)
                                                   \/ k = job.key /\ Get(db', k) = job.value
                                                   \/ k # job.key /\ Get(db, k) = Missing
  BY DEF Undisturbed
<1> QED
  BY <1>2, <1>3, MixedReused, Inductive, CountsInductive, PTL DEF Spec, SetIsAtomic
=============================================================================
