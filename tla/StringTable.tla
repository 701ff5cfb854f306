----------------------------- MODULE StringTable -----------------------------
(***************************************************************************)
(* Class StringTable of C++/stringtable.cpp.  The table is a vector of     *)
(* items (a validity byte, the id, the bytes of the string) found through  *)
(* m_ids; since an item is never moved but by a rehash, which rebuilds     *)
(* both, the model goes from an id to its item at once.                    *)
(***************************************************************************)
EXTENDS Integers, FiniteSets

CONSTANTS String,    \* without an embedded NUL, at which a rehash cuts
          Hash,      \* std::hash, which may give two strings the same number
          Word,      \* the number of values of a size_t
          MaxId,     \* bound: ids given
          MaxSize    \* bound: m_ntable

ASSUME HashAssumption == Hash \in [String -> Nat]
ASSUME BoundAssumption == /\ Word \in Nat /\ MaxId \in Nat /\ MaxSize \in Nat
                          /\ MaxSize < Word /\ MaxId < Word

VARIABLES items,    \* the id in an item -> [valid, str]
          hashes,   \* m_hashes: hash -> id
          nextId,   \* the first sizeof(Id) bytes of m_table
          nfree,    \* m_nfree
          ntable,   \* m_ntable
          given,    \* history: hash -> the id insert() last returned for it, or 0
          doubled   \* history: insert() was given a hash that is in the table

vars == <<items, hashes, nextId, nfree, ntable, given, doubled>>

Item == [valid : BOOLEAN, str : String]

Valid(tab) == {id \in DOMAIN tab : tab[id].valid}
LiveHashes == {Hash[items[id].str] : id \in Valid(items)}
Hashes == {Hash[s] : s \in String}

Narrowed(f, S) == [x \in S |-> f[x]]
Extended(f, x, y) == [z \in DOMAIN f \cup {x} |-> IF z = x THEN y ELSE f[z]]

-----------------------------------------------------------------------------
\* check_rehash(): nothing while the table is empty or m_nfree / m_ntable is
\* below STRINGTABLE_REHASH (0.75); else only the valid items are copied, with
\* their ids, and the hashes that lead to them.
NeedsRehash == ntable # 0 /\ 4 * nfree >= 3 * ntable

RehashedItems == Narrowed(items, {id \in Valid(items) : \E h \in DOMAIN hashes : hashes[h] = id})
RehashedHashes == Narrowed(hashes, {h \in DOMAIN hashes : hashes[h] \in Valid(items)})

CheckedItems == IF NeedsRehash THEN RehashedItems ELSE items
CheckedHashesStale == hashes
CheckedHashes == IF NeedsRehash THEN RehashedHashes ELSE hashes
CheckedFree == IF NeedsRehash THEN 0 ELSE nfree
CheckedNextIdOfTable == IF NeedsRehash THEN Cardinality(DOMAIN RehashedItems) ELSE nextId
\* "Copy NextId"
CheckedNextId == nextId

-----------------------------------------------------------------------------
Init == /\ items = <<>>
        /\ hashes = <<>>
        /\ nextId = 0
        /\ nfree = 0
        /\ ntable = 0
        /\ given = [h \in Hashes |-> 0]
        /\ doubled = FALSE

\* insert() of a string whose hash is known: the item of that hash becomes
\* valid, if it was not, and the counters move in either case.  The strings are
\* not compared: of two with one hash, the item is that of the first.
InsertKnown(s) ==
  /\ Hash[s] \in DOMAIN CheckedHashes
  /\ LET id == CheckedHashes[Hash[s]]
     IN  /\ items' = [CheckedItems EXCEPT ![id].valid = TRUE]
         /\ given' = [given EXCEPT ![Hash[s]] = id]
  /\ hashes' = CheckedHashes
  /\ nfree' = (CheckedFree - 1) % Word
  /\ nextId' = CheckedNextId

\* insert() of any other string appends an item with the next id.
InsertNew(s) ==
  /\ Hash[s] \notin DOMAIN CheckedHashes
  /\ CheckedNextId < MaxId
  /\ LET id == CheckedNextId + 1
     IN  /\ items' = Extended(CheckedItems, id, [valid |-> TRUE, str |-> s])
         /\ hashes' = Extended(CheckedHashes, Hash[s], id)
         /\ given' = [given EXCEPT ![Hash[s]] = id]
         /\ nextId' = id
  /\ nfree' = CheckedFree

Insert(s) == /\ ntable < MaxSize
             /\ InsertKnown(s) \/ InsertNew(s)
             /\ ntable' = ntable + 1
             /\ doubled' = (doubled \/ Hash[s] \in LiveHashes)

\* erase(Id): the item stays, with its hash.
EraseUnchecked(id) == /\ id \in DOMAIN items
                      /\ items' = [items EXCEPT ![id].valid = FALSE]
                      /\ nfree' = (nfree + 1) % Word
                      /\ ntable' = (ntable - 1) % Word
                      /\ UNCHANGED <<hashes, nextId, given, doubled>>
EraseId(id) == /\ id \in Valid(items)
               /\ items' = [items EXCEPT ![id].valid = FALSE]
               /\ nfree' = (nfree + 1) % Word
               /\ ntable' = (ntable - 1) % Word
               /\ UNCHANGED <<hashes, nextId, given, doubled>>

\* erase(Id) of an id that has no item or an erased one.
EraseMissing(id) == id \notin Valid(items) /\ UNCHANGED vars

\* erase(string_view)
EraseString(s) == Hash[s] \in DOMAIN hashes /\ EraseId(hashes[Hash[s]])

Next == \/ \E s \in String : Insert(s) \/ EraseString(s)
        \/ \E id \in 1 .. MaxId : EraseId(id) \/ EraseMissing(id)

Spec == Init /\ [][Next]_vars

-----------------------------------------------------------------------------
\* Properties.

\* The maps lead from hashes to ids to items.
TypeOK == /\ nextId \in 0 .. MaxId
          /\ nfree \in 0 .. Word - 1 /\ ntable \in 0 .. MaxSize
          /\ DOMAIN items \subseteq 1 .. nextId
          /\ \A id \in DOMAIN items : items[id] \in Item
          /\ DOMAIN hashes \subseteq Hashes
          /\ \A h \in DOMAIN hashes : hashes[h] \in DOMAIN items
          /\ given \in [Hashes -> 0 .. nextId]
          /\ doubled \in BOOLEAN

\* The hashes and the items lead to each other, whatever a rehash dropped:
\* insert() of a string finds the item of its hash and no other, so no hash is
\* in the table twice (stringtable.cpp:28, 46-47, 125-126).
ItemsAreHashed == /\ \A id \in DOMAIN items : /\ Hash[items[id].str] \in DOMAIN hashes
                                              /\ hashes[Hash[items[id].str]] = id
                  /\ \A h \in DOMAIN hashes : Hash[items[hashes[h]].str] = h

\* size() is at least the number of strings in the table and exact, as is the
\* count of erased items, until a string is inserted twice, or one of its hash.
CountersAgree == /\ Cardinality(Valid(items)) <= ntable
                 /\ ~doubled => /\ ntable = Cardinality(Valid(items))
                                /\ nfree = Cardinality(DOMAIN items \ Valid(items))

\* The table interns hashes: one keeps its id while it is in the table, whatever
\* is erased around it and however often the table is rehashed, and an id that
\* was given for one hash is never given for another, even after a rehash
\* forgot it.  It interns strings as far as no two of them have one hash.
Ids == INSTANCE Interner WITH String <- Hashes, Id <- 1 .. MaxId, NoId <- 0,
         live <- LiveHashes, idOf <- given, used <- 1 .. nextId
ImplementsInterner == Ids!Spec
=============================================================================
