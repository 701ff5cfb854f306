-------------------------------- MODULE HashDB --------------------------------
(***************************************************************************)
(* Class HashDB of C++/hashdb.h for a value that fits in a pointer (no     *)
(* SPLIT_VALUE): the hash files on disk, the file that is mapped and the   *)
(* path the object believes it is mapped from.  The files of a directory   *)
(* that matter are <name>.hash for each name, and ".hash": load() sets     *)
(* m_fhashpath to basepath + HASH_SUFFIX, without the name, so that the    *)
(* first rehash after a load writes there.                                 *)
(*                                                                         *)
(* A mapping is shared, so an edit of the mapped table is an edit of the   *)
(* file.  The calls run one after the other in one process and none of     *)
(* them fails or is interrupted.                                           *)
(***************************************************************************)
EXTENDS HashTable

CONSTANTS Name,           \* database names
          Value,
          Missing,        \* get() returned nullopt
          Unnamed,        \* the path ".hash"
          None,           \* no file is mapped
          NoValue,        \* the value field of a zero-filled kv_pair
          RemoveOnClose,  \* hashdb_flags_remove is among the Flags
          MaxCapacity,    \* bound: no table grows beyond this capacity
          MaxFill         \* bound: no set() takes fill beyond this

ASSUME HashDBAssumption == /\ Unnamed \notin Name
                           /\ None \notin Name \cup {Unnamed}
                           /\ Missing \notin Value
                           /\ RemoveOnClose \in BOOLEAN

Path == Name \cup {Unnamed}

\* There is no file at a path: no header, so no capacity.
NoFile == [capacity |-> 0, size |-> 0, fill |-> 0, pairs |-> <<>>]

VARIABLES files,   \* path -> the table in the hash file there, or NoFile
          at,      \* the path at which the mapped file is linked, or None
          hpath,   \* m_fhashpath
          wrote    \* history: path -> the <<key, value>> set since it was emptied

vars == <<files, at, hpath, wrote>>

db == files[at]

-----------------------------------------------------------------------------
\* get(): nothing while size is 0, else whatever get_entry finds.
GetIgnoringState(t, k) == IF t.size = 0 THEN Missing
                          ELSE t.pairs[GetEntry(t, k)].value
Get(t, k) == LET e == t.pairs[GetEntry(t, k)]
             IN  IF t.size # 0 /\ e.state = "FULL" THEN e.value ELSE Missing

\* check_rehash() leaves this table mapped, from this path: rehash removes
\* the file at m_fhashpath and renames the new one to it.
Checked == IF NeedsRehash(db) THEN Rehashed(db, NoValue) ELSE db
CheckedAt == IF NeedsRehash(db) THEN hpath ELSE at

-----------------------------------------------------------------------------
Init == /\ files = [p \in Path |-> NoFile]
        /\ at = None
        /\ hpath = None
        /\ wrote = [p \in Path |-> {}]

\* open(): creates or truncates-and-clears <name>.hash.  An object that is
\* open already just lets go of its file.
Open(n) == /\ files' = [files EXCEPT ![n] = FreshTable(NoValue)]
           /\ at' = n
           /\ hpath' = n
           /\ wrote' = [wrote EXCEPT ![n] = {}]

\* load(): maps the file of that name, and forgets the name.
Load(n) == /\ at = None
           /\ files[n] # NoFile
           /\ at' = n
           /\ hpath' = Unnamed
           /\ UNCHANGED <<files, wrote>>

\* close() and ~HashDB(): with hashdb_flags_remove the file at m_fhashpath goes.
Close == /\ at # None
         /\ at' = None
         /\ hpath' = IF RemoveOnClose THEN None ELSE hpath
         /\ files' = IF RemoveOnClose THEN [files EXCEPT ![hpath] = NoFile] ELSE files
         /\ UNCHANGED wrote

Clear == /\ at # None
         /\ files' = [files EXCEPT ![at] = Cleared(db, NoValue)]
         /\ wrote' = [wrote EXCEPT ![at] = {}]
         /\ UNCHANGED <<at, hpath>>

EraseUnchecked(k) == /\ at # None
                     /\ StopDistances(db, k) # {}
                     /\ files' = [files EXCEPT ![at] = Erased(db, k)]
                     /\ UNCHANGED <<at, hpath, wrote>>
Erase(k) == /\ at # None
            /\ StopDistances(db, k) # {}
            /\ db.pairs[GetEntry(db, k)].state = "FULL"
            /\ files' = [files EXCEPT ![at] = Erased(db, k)]
            /\ UNCHANGED <<at, hpath, wrote>>

Replace(p, t) == files' = [files EXCEPT ![p] = t]

SetWithoutCheck(k, v) == /\ at # None
                         /\ StopDistances(db, k) # {}
                         /\ Replace(at, Stored(db, k, v))
                         /\ wrote' = [wrote EXCEPT ![at] = @ \cup {<<k, v>>}]
                         /\ UNCHANGED <<at, hpath>>
Set(k, v) == /\ at # None
             /\ Checked.capacity <= MaxCapacity
             /\ StopDistances(Checked, k) # {}
             /\ Stored(Checked, k, v).fill <= MaxFill
             /\ Replace(CheckedAt, Stored(Checked, k, v))
             /\ at' = CheckedAt
             /\ wrote' = [wrote EXCEPT ![CheckedAt] = wrote[at] \cup {<<k, v>>}]
             /\ UNCHANGED hpath

\* The public rehash(): the new file replaces the one at m_fhashpath.
RehashNow == /\ at # None
             /\ 2 * db.capacity <= MaxCapacity
             /\ Replace(hpath, Rehashed(db, NoValue))
             /\ at' = hpath
             /\ wrote' = [wrote EXCEPT ![hpath] = wrote[at]]
             /\ UNCHANGED hpath

\* collect_garbage() of a map without a value file only checks the load.
CollectGarbage == db.size # 0 /\ NeedsRehash(db) /\ RehashNow

Next == \/ \E n \in Name : Open(n) \/ Load(n)
        \/ Close
        \/ Clear
        \/ \E k \in Key : Erase(k)
        \/ \E k \in Key, v \in Value : Set(k, v)
        \/ RehashNow
        \/ (at # None /\ CollectGarbage)

Spec == Init /\ [][Next]_vars

-----------------------------------------------------------------------------
\* Properties.

TableAt(p) == files[p] # NoFile \/ p = at

\* The files hold well-formed tables and the mapped file is one of them.
TypeOK == /\ DOMAIN files = Path
          /\ at \in Path \cup {None}
          /\ hpath \in Path \cup {None}
          /\ at # None => hpath # None
          /\ wrote \in [Path -> SUBSET (Key \X Value)]
          /\ \A p \in Path : TableAt(p) => TableType(files[p], Value \cup {NoValue})

\* In every file fill is size plus the tombstones, and size is at least the
\* number of entries, though rehash (hashdb.h:497-502) may drop entries and
\* set() may store a key twice.
Counters == \A p \in Path : TableAt(p) => CountersAgree(files[p])

\* The endless loop of get_entry (hashdb.h:575) always returns: check_rehash,
\* with counters that a rehash left too high, keeps a slot empty.
EveryProbeEnds == at # None => ProbesEnd(db)

\* get() never answers with a value that no set() stored under that key since
\* the file was opened or cleared: not another key's value, and not one that
\* clear() or open() was to wipe.
ReadsWereWritten ==
  at # None => \A k \in Key : Get(db, k) # Missing => <<k, Get(db, k)>> \in wrote[at]

\* A set() that does not have to grow the table loses no other key: what a key
\* reads changes by no set() of another.  (A key that reads as missing may come
\* back: the set() may fill the tombstone that hid its entry.)
SetKeepsOthers ==
  [][\A j \in Key :
        /\ at # None /\ at' # None
        /\ Get(db, j) # Missing /\ Get(db', j) # Get(db, j)
        => \A k \in Key \ {j}, v \in Value : NeedsRehash(db) \/ ~Set(k, v)]_vars

\* A set() is read back, whatever the table went through before.  (It leaves
\* its pair among those written: no other pair has to be looked at.)
SetIsRead == [][\A k \in Key, v \in Value :
                   at' # None /\ <<k, v>> \in wrote'[at'] /\ Get(db', k) # v => ~Set(k, v)]_vars

\* After erase() the key reads as missing, even when the table held it twice.
EraseIsRead == [][\A k \in Key : Erase(k) => Get(db', k) = Missing]_vars

\* hashdb.h:492, "Reset tombstones count": after a rehash fill is the number
\* of occupied slots.
RehashCountsOccupied ==
  [][RehashNow => db'.fill = Cardinality(Live(db')) + Cardinality(Tombs(db'))]_vars

\* hashdb.h:507, "close and delete the old file, rename the new one": after a
\* rehash the table that was mapped is in no file any more.
RehashDeletesOldFile ==
  [][RehashNow => \A p \in Path : files'[p] # db]_vars
=============================================================================
