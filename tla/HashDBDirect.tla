----------------------------- MODULE HashDBDirect -----------------------------
(***************************************************************************)
(* The clients that class HashDB serves as a key-value store: their keys   *)
(* hash below DEFAULT_ITEMS_COUNT to slots of their own, and they grow a   *)
(* database only where open() created it, never after a load().  For them  *)
(* HashDB implements KVStore; the notes on HashDB's properties say what    *)
(* goes wrong for the others.                                              *)
(***************************************************************************)
EXTENDS HashDB

CONSTANT Absent    \* the contents of a database that has no file

ASSUME AbsentAssumption == Absent \notin [Key -> Value \cup {NoValue, Missing}]

ASSUME DirectAssumption == RemoveOnClose = FALSE /\ OwnSlots

\* m_fhashpath is the path of the mapped file.
InPlace == at # None /\ hpath = at

DirectNext == \/ \E n \in Name : Open(n) \/ Load(n)
              \/ Close
              \/ Clear
              \/ \E k \in Key : Erase(k)
              \/ \E k \in Key, v \in Value :
                   at # None /\ (NeedsRehash(db) => InPlace) /\ Set(k, v)
              \/ InPlace /\ RehashNow
              \/ InPlace /\ CollectGarbage

DirectSpec == Init /\ [][DirectNext]_vars

-----------------------------------------------------------------------------
\* The dictionary in a table: what get() answers for each key.
Contents(t) == [k \in Key |-> Get(t, k)]

\* The dictionaries in the named files.
Stores == [n \in Name |-> IF files[n] = NoFile THEN Absent ELSE Contents(files[n])]

KV == INSTANCE KVStore WITH current <- at, store <- Stores

\* Every step of such a client is a step of a key-value store: values survive
\* rehashes, other keys' erasures, and closing and loading the file.
ImplementsKVStore == KV!Spec

\* Why: every entry is at the slot its key hashes to, in every file, and the
\* mapped file has a name.
EntriesAtHome == /\ \A p \in Path : TableAt(p) => AtHome(files[p])
                 /\ at \in Name \cup {None}
=============================================================================
