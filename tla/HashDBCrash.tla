----------------------------- MODULE HashDBCrash -----------------------------
(***************************************************************************)
(* Class HashDB with values in place, for a process that may be killed     *)
(* between any two of its stores and file operations.  The mapping is      *)
(* shared and the system stays up, so what was stored before stays in the  *)
(* files, in the order of the source.  There is one database and one       *)
(* object at a time.  open() is one step: a database is what an open()     *)
(* that was not interrupted left.  Where an action stands for several      *)
(* stores, a kill among them leaves nothing else, but for KillInCopy: a    *)
(* .tmp file gets its size and header anew before its pairs are read, and  *)
(* clear() zeroes the state of a pair, its first field, before the others, *)
(* which nobody reads in an EMPTY pair.  A key and a value (one that       *)
(* exceeds a word would be split off) take one store each.                 *)
(***************************************************************************)
EXTENDS HashTable, Integers

CONSTANTS Values,       \* key -> the values that clients give it
          Missing,      \* get() returned nullopt
          Named,        \* the path <name>.hash
          Unnamed,      \* the path ".hash", on which load() goes on
          None,
          NoValue,      \* the value field of a zero-filled kv_pair
          Word,         \* the number of values of a size_t
          MaxCapacity,  \* bound: no table grows beyond this capacity
          MaxCalls,     \* bound: calls that change a table
          MaxKills      \* bound: how often the process is killed

ASSUME CrashAssumption == /\ Named # Unnamed /\ None \notin {Named, Unnamed}
                          /\ DOMAIN Values = Key
                          /\ \A k \in Key : Missing \notin Values[k]
                          /\ \A j, k \in Key : j # k => Values[j] \cap Values[k] = {}
                          /\ Word \in Nat /\ MaxCapacity \in Nat
                          /\ Word > 2 * MaxCapacity
\* No counter gets through all values of its type, 2^64 in the code.
ASSUME CountAssumption == /\ MaxCalls \in Nat /\ MaxKills \in Nat
                          /\ MaxCalls + MaxKills < Word

Path == {Named, Unnamed}
NoFile == [capacity |-> 0, size |-> 0, fill |-> 0, pairs |-> <<>>]
NoJob == [key |-> None, value |-> None, slot |-> 0]

VARIABLES files,      \* path -> the table in the hash file there, or NoFile
          temps,      \* path -> the table in <path>.tmp, or NoFile
          at,         \* the path of the mapped file, or None
          hpath,      \* m_fhashpath
          pc,         \* where the running call is, "idle" if there is none
          job,        \* the arguments and the slot of a set() or an erase()
          next,       \* the slot at which the loop of rehash() or clear() goes on
          reused,     \* history: rehash() met a .tmp file that was left over
          mixed,      \* history: one with a pair that a kill left half copied
          kills,
          begun,      \* the number of calls begun that change a table
          halfErased  \* history: how many of the kills hit a half-done erase()

calls == <<pc, job, next>>
history == <<reused, mixed, kills, begun, halfErased>>
vars == <<files, temps, at, hpath, calls, history>>

db == files[at]
Idle == at # None /\ pc = "idle"
Begin == Idle /\ begun < MaxCalls /\ begun' = begun + 1

Get(t, k) == LET e == t.pairs[GetEntry(t, k)]
             IN  IF t.size # 0 /\ e.state = "FULL" THEN e.value ELSE Missing

Init == /\ files = [p \in Path |-> NoFile] /\ temps = files
        /\ at = None /\ hpath = None
        /\ pc = "idle" /\ job = NoJob /\ next = 0
        /\ reused = FALSE /\ mixed = FALSE /\ kills = 0 /\ begun = 0 /\ halfErased = 0

Open == /\ at = None /\ pc = "idle"
        /\ files' = [files EXCEPT ![Named] = FreshTable(NoValue)]
        /\ at' = Named /\ hpath' = Named
        /\ UNCHANGED <<temps, calls, history>>

Load == /\ at = None /\ pc = "idle"
        /\ files[Named] # NoFile
        /\ at' = Named /\ hpath' = Unnamed
        /\ UNCHANGED <<files, temps, calls, history>>

Close == /\ Idle
         /\ at' = None
         /\ UNCHANGED <<files, temps, hpath, calls, history>>

\* A store into the mapped file, after which the call is at `then'.
StoreInLoop(t, then) == /\ files' = [files EXCEPT ![at] = t]
                        /\ pc' = then
                        /\ UNCHANGED <<temps, at, hpath, reused, mixed, kills, halfErased>>
Store(t, then) == StoreInLoop(t, then) /\ UNCHANGED next

-----------------------------------------------------------------------------
\* rehash(): the new table is made in the .tmp file, which takes the place of
\* the file at m_fhashpath.  open() of the .tmp file does not truncate it.

IsOwn(e) == e.key \in Key /\ e.value \in Values[e.key]

StartRehash ==
  /\ 2 * db.capacity <= MaxCapacity
  /\ LET left == temps[hpath].pairs
     IN  /\ temps' = [temps EXCEPT ![hpath] =
                        [capacity |-> 2 * db.capacity, size |-> db.size, fill |-> db.size,
                         pairs |-> [i \in 0 .. 2 * db.capacity - 1 |->
                                      IF i \in DOMAIN left THEN left[i] ELSE ZeroPair(NoValue)]]]
         /\ mixed' = (mixed \/ \E i \in DOMAIN left : left[i].state = "FULL" /\ ~IsOwn(left[i]))
  /\ reused' = (reused \/ temps[hpath] # NoFile)
  /\ pc' = "copy" /\ next' = 0
  /\ UNCHANGED <<files, at, hpath>>

RehashNow == Begin /\ StartRehash /\ UNCHANGED <<job, kills, halfErased>>

ToCopy == {i \in Live(db) : i >= next}

CopyPair == /\ pc = "copy" /\ ToCopy # {}
            /\ LET i == Min(ToCopy)
               IN  /\ temps' = [temps EXCEPT ![hpath].pairs[NewHome(db, i)] = db.pairs[i]]
                   /\ next' = i + 1
            /\ UNCHANGED <<files, at, hpath, pc, job, history>>

RemoveOldEarly == /\ pc = "copy" /\ Cardinality(ToCopy) <= 1
                  /\ files' = [files EXCEPT ![hpath] = NoFile]
                  /\ at' = None /\ pc' = "rename"
                  /\ UNCHANGED <<temps, hpath, job, next, history>>
\* The mapping goes, and the file at m_fhashpath.
RemoveOld == /\ pc = "copy" /\ ToCopy = {}
             /\ files' = [files EXCEPT ![hpath] = NoFile]
             /\ at' = None /\ pc' = "rename"
             /\ UNCHANGED <<temps, hpath, job, next, history>>

\* A set() that had to grow the table goes on in the new one.
RenameNew == /\ pc = "rename"
             /\ files' = [files EXCEPT ![hpath] = temps[hpath]]
             /\ temps' = [temps EXCEPT ![hpath] = NoFile]
             /\ at' = hpath
             /\ pc' = IF job = NoJob THEN "idle" ELSE "key"
             /\ next' = 0
             /\ UNCHANGED <<hpath, job, history>>

-----------------------------------------------------------------------------
\* set(): key, size, fill, value and state, in this order.

\* A load above 3/4 makes check_rehash() grow the table first.
SetCalled(k, v) == /\ Begin
                   /\ job' = [key |-> k, value |-> v, slot |-> 0]
                   /\ \/ /\ ~NeedsRehash(db)
                         /\ pc' = "key"
                         /\ UNCHANGED <<files, temps, at, hpath, next, reused, mixed>>
                      \/ NeedsRehash(db) /\ StartRehash
                   /\ UNCHANGED <<kills, halfErased>>

WriteKey == /\ pc = "key"
            /\ StopDistances(db, job.key) # {}
            /\ LET i == GetEntry(db, job.key)
               IN  /\ job' = [job EXCEPT !.slot = i]
                   /\ Store([db EXCEPT !.pairs[i].key = job.key], "size")
            /\ UNCHANGED begun

Entry == db.pairs[job.slot]

CountEmptyOnly ==
  /\ pc = "size"
  /\ Store([db EXCEPT !.size = IF Entry.state = "EMPTY" THEN (@ + 1) % Word ELSE @], "fill")
  /\ UNCHANGED <<job, begun>>
CountEntry == /\ pc = "size"
              /\ Store([db EXCEPT !.size = IF Entry.state # "FULL" THEN (@ + 1) % Word ELSE @], "fill")
              /\ UNCHANGED <<job, begun>>
CountSlotAndMark ==
  /\ pc = "fill"
  /\ Store([db EXCEPT !.fill = IF Entry.state = "EMPTY" THEN (@ + 1) % Word ELSE @,
                      !.pairs[job.slot].state = "FULL"], "value")
  /\ UNCHANGED <<job, begun>>
CountSlot == /\ pc = "fill"
             /\ Store([db EXCEPT !.fill = IF Entry.state = "EMPTY" THEN (@ + 1) % Word ELSE @], "value")
             /\ UNCHANGED <<job, begun>>
WriteValue == /\ pc = "value"
              /\ Store([db EXCEPT !.pairs[job.slot].value = job.value], "state")
              /\ UNCHANGED <<job, begun>>
MarkFull == /\ pc = "state"
            /\ Store([db EXCEPT !.pairs[job.slot].state = "FULL"], "idle")
            /\ job' = NoJob /\ UNCHANGED begun

\* erase(): size, then state.
EraseCalled(k) == /\ Begin
                  /\ StopDistances(db, k) # {}
                  /\ LET i == GetEntry(db, k)
                     IN  /\ db.pairs[i].state = "FULL"
                         /\ job' = [NoJob EXCEPT !.slot = i]
                         /\ Store([db EXCEPT !.size = (@ - 1) % Word], "tombstone")
MarkTombstone == /\ pc = "tombstone"
                 /\ Store([db EXCEPT !.pairs[job.slot].state = "TOMBSTONE"], "idle")
                 /\ job' = NoJob /\ UNCHANGED begun

\* clear(): the pairs, one after another, then size, then fill.
ClearCalled == /\ Begin
               /\ pc' = "clear" /\ next' = 0
               /\ UNCHANGED <<files, temps, at, hpath, job, reused, mixed, kills, halfErased>>

ClearPair == /\ pc = "clear" /\ next < db.capacity
             /\ StoreInLoop([db EXCEPT !.pairs[next] = ZeroPair(NoValue)], "clear")
             /\ next' = next + 1
             /\ UNCHANGED <<job, begun>>
ClearSize == /\ pc = "clear" /\ next = db.capacity
             /\ StoreInLoop([db EXCEPT !.size = 0], "clear")
             /\ next' = next + 1
             /\ UNCHANGED <<job, begun>>
ClearFill == /\ pc = "clear" /\ next = db.capacity + 1
             /\ StoreInLoop([db EXCEPT !.fill = 0], "idle")
             /\ next' = 0
             /\ UNCHANGED <<job, begun>>

-----------------------------------------------------------------------------
Killed == /\ kills < MaxKills
          /\ kills' = kills + 1
          /\ at' = None /\ hpath' = None
          /\ pc' = "idle" /\ job' = NoJob /\ next' = 0
          /\ UNCHANGED <<files, begun, reused, mixed>>

\* Between calls a kill leaves what close() leaves.
Kill == /\ pc # "idle" /\ Killed
        /\ halfErased' = IF pc = "tombstone" THEN halfErased + 1 ELSE halfErased
        /\ UNCHANGED temps

\* The copy of a pair is one statement and several stores, in the order that
\* the compiler chose: the fields in F have been copied, the others not.
HalfCopied(old, new, F) == [state |-> IF "state" \in F THEN new.state ELSE old.state,
                            key   |-> IF "key"   \in F THEN new.key   ELSE old.key,
                            value |-> IF "value" \in F THEN new.value ELSE old.value]

KillInCopy == /\ pc = "copy" /\ ToCopy # {} /\ Killed
              /\ LET i == Min(ToCopy)
                 IN  \E F \in SUBSET {"state", "key", "value"} :
                       temps' = [temps EXCEPT ![hpath].pairs[NewHome(db, i)] =
                                   HalfCopied(@, db.pairs[i], F)]
              /\ UNCHANGED halfErased

Next == \/ Open \/ Load \/ Close
        \/ RehashNow \/ CopyPair \/ RemoveOld \/ RenameNew
        \/ \E k \in Key : \E v \in Values[k] : SetCalled(k, v)
        \/ WriteKey \/ CountEntry \/ CountSlot \/ WriteValue \/ MarkFull
        \/ \E k \in Key : EraseCalled(k)
        \/ MarkTombstone \/ ClearCalled \/ ClearPair \/ ClearSize \/ ClearFill
        \/ Kill \/ KillInCopy

Spec == Init /\ [][Next]_vars

-----------------------------------------------------------------------------
\* Properties.

\* Whatever was killed when, a get() that ends answers with nothing but a value
\* of that key: no other key's, and no field that set() had not reached, as the
\* state that makes an entry count is stored last (hashdb.h:392-422).  Only a
\* pair that a kill left half copied in a .tmp file, and that a later rehash
\* took over with that file (hashdb.h:485), has another key's value.
ReadsAreOwn ==
  at # None /\ ~mixed =>
    \A k \in Key : StopDistances(db, k) # {} => Get(db, k) \in Values[k] \cup {Missing}

\* One store of a set() makes its value readable, and none makes another key
\* read otherwise: a kill leaves the set() done or not done.  (Only a key that
\* a tombstone, or a size of 0, was hiding may come back.)  It takes counters
\* that are off by one at most: a second erase() killed half-way can take size
\* below zero, with an entry left, and the next set() then takes it to 0, which
\* hides that entry; and the entries that a left-over .tmp file brings back are
\* not counted at all.
SetIsAtomic ==
  [][~reused /\ halfErased <= 1 /\ at' # None /\ pc \in {"key", "size", "fill", "value", "state"}
     => \A k \in Key : \/ Get(db', k) = Get(db, k)
                       \/ k = job.key /\ Get(db', k) = job.value
                       \/ k # job.key /\ Get(db, k) = Missing]_vars

\* hashdb.h:507-513: by the time the old file goes, the .tmp file holds all of
\* the new table, which is what the one-step rehash of HashDB makes, unless a
\* killed rehash left a .tmp file with pairs of its own.
NewTableIsComplete ==
  [][at # None /\ pc' = "rename" /\ ~reused => temps'[hpath] = Rehashed(db, NoValue)]_vars

\* A kill takes at most one off the counters: size counts the entries, and
\* fill the used slots that check_rehash limits, but for one for each erase()
\* that was killed half-way.
KillsCostOne ==
  at # None /\ ~reused =>
    /\ Cardinality(Live(db)) <= db.size + halfErased + IF pc = "tombstone" THEN 1 ELSE 0
    /\ Cardinality(Live(db) \cup Tombs(db)) <= db.fill + halfErased
=============================================================================
