-------------------------- MODULE StringTableProofs --------------------------
(***************************************************************************)
(* The safety of StringTable for every set of strings, hash function and   *)
(* bound: the two tables agree through insertions, erasures and rehashes,  *)
(* and StringTable implements Interner.                                    *)
(***************************************************************************)
EXTENDS StringTable, FiniteSetTheorems, TLAPS

\* A table and the hashes that lead to its items, with ids up to n.
Linked(tab, hs, n) ==
  /\ n \in 0 .. MaxId
  /\ DOMAIN tab \subseteq 1 .. n
  /\ \A id \in DOMAIN tab : /\ tab[id] \in Item
                            /\ Hash[tab[id].str] \in DOMAIN hs
                            /\ hs[Hash[tab[id].str]] = id
  /\ DOMAIN hs \subseteq Hashes
  /\ \A h \in DOMAIN hs : hs[h] \in DOMAIN tab /\ Hash[tab[hs[h]].str] = h

\* insert() returned the id of every item when it was last given its hash, and
\* returned no id for two hashes.
GivenIds == /\ \A id \in DOMAIN items : given[Hash[items[id].str]] = id
            /\ \A g, h \in Hashes : given[g] = given[h] /\ given[g] # 0 => g = h

Dead(tab) == DOMAIN tab \ Valid(tab)

\* The inductive invariant.
IInv == /\ Linked(items, hashes, nextId)
        /\ given \in [Hashes -> 0 .. nextId]
        /\ GivenIds
        /\ nfree \in 0 .. Word - 1 /\ ntable \in 0 .. MaxSize
        /\ doubled \in BOOLEAN
        /\ CountersAgree

-----------------------------------------------------------------------------
\* Facts about finite tables.

LEMMA HashOf == ASSUME NEW s \in String PROVE Hash[s] \in Hashes
BY HashAssumption DEF Hashes

LEMMA TableIsFinite ==
  ASSUME NEW tab, NEW hs, NEW n, Linked(tab, hs, n)
  PROVE  /\ IsFiniteSet(DOMAIN tab) /\ IsFiniteSet(Valid(tab)) /\ IsFiniteSet(Dead(tab))
         /\ Cardinality(Valid(tab)) \in Nat /\ Cardinality(Dead(tab)) \in Nat
         /\ Cardinality(Dead(tab)) <= MaxId
<1>1. n \in Nat /\ n <= MaxId /\ DOMAIN tab \subseteq 1 .. n
  BY BoundAssumption DEF Linked
<1>2. IsFiniteSet(1 .. n) /\ Cardinality(1 .. n) = n
  BY <1>1, FS_Interval
<1>3. /\ IsFiniteSet(DOMAIN tab)
      /\ Cardinality(DOMAIN tab) <= n
  BY <1>1, <1>2, FS_Subset
<1>4. Valid(tab) \subseteq DOMAIN tab /\ Dead(tab) \subseteq DOMAIN tab
  BY DEF Valid, Dead
<1>5. /\ IsFiniteSet(Valid(tab)) /\ IsFiniteSet(Dead(tab))
      /\ Cardinality(Dead(tab)) <= Cardinality(DOMAIN tab)
  BY <1>3, <1>4, FS_Subset
<1>6. /\ Cardinality(Valid(tab)) \in Nat /\ Cardinality(Dead(tab)) \in Nat
      /\ Cardinality(DOMAIN tab) \in Nat
  BY <1>3, <1>5, FS_CardinalityType
<1> QED
  BY <1>1, <1>3, <1>5, <1>6, BoundAssumption

\* What a size_t holds.
LEMMA Wrapped ==
  ASSUME NEW n \in Int
  PROVE  n % Word \in 0 .. Word - 1 /\ (n \in 0 .. Word - 1 => n % Word = n)
BY BoundAssumption

\* A rehash keeps the valid items, their ids, and the links between them.
LEMMA CheckedLinked ==
  ASSUME IInv
  PROVE  /\ Linked(CheckedItems, CheckedHashes, nextId)
         /\ Valid(CheckedItems) = Valid(items)
         /\ DOMAIN CheckedItems \subseteq DOMAIN items
         /\ \A id \in DOMAIN CheckedItems : CheckedItems[id] = items[id]
         /\ NeedsRehash => DOMAIN CheckedItems = Valid(items)
         /\ ~NeedsRehash => CheckedItems = items
<1>1. CASE ~NeedsRehash
  BY <1>1 DEF IInv, CheckedItems, CheckedHashes
<1>2. CASE NeedsRehash
  <2>1. CheckedItems = RehashedItems /\ CheckedHashes = RehashedHashes
    BY <1>2 DEF CheckedItems, CheckedHashes
  <2>2. DOMAIN RehashedItems = Valid(items)
    BY DEF RehashedItems, Narrowed, IInv, Linked, Valid
  <2>3. \A id \in Valid(items) : id \in DOMAIN items /\ RehashedItems[id] = items[id]
    BY <2>2 DEF RehashedItems, Narrowed, Valid
  <2>4. /\ DOMAIN RehashedHashes = {h \in DOMAIN hashes : hashes[h] \in Valid(items)}
        /\ \A h \in DOMAIN RehashedHashes : RehashedHashes[h] = hashes[h]
    BY DEF RehashedHashes, Narrowed
  <2>5. Linked(RehashedItems, RehashedHashes, nextId)
    BY <2>2, <2>3, <2>4 DEF IInv, Linked
  <2>6. Valid(RehashedItems) = Valid(items)
    BY <2>2, <2>3 DEF Valid
  <2> QED
    BY <1>2, <2>1, <2>2, <2>3, <2>5, <2>6
<1> QED
  BY <1>1, <1>2

-----------------------------------------------------------------------------
\* The steps.

LEMMA InitIInv == Init => IInv
<1> SUFFICES ASSUME Init PROVE IInv
  OBVIOUS
<1>1. DOMAIN items = {} /\ DOMAIN hashes = {} /\ Valid(items) = {}
  BY DEF Init, Valid
<1>2. Cardinality({}) = 0 /\ DOMAIN items \ Valid(items) = {}
  BY <1>1, FS_EmptySet
<1>3. Linked(items, hashes, nextId) /\ GivenIds
  BY <1>1, BoundAssumption DEF Init, Linked, GivenIds
<1>4. Cardinality(Valid(items)) = 0 /\ Cardinality(DOMAIN items \ Valid(items)) = 0
  BY <1>1, <1>2, Zenon
<1>5. ntable = 0 /\ nfree = 0
  BY DEF Init
<1>6. CountersAgree
  BY <1>4, <1>5 DEF CountersAgree
<1>7. doubled \in BOOLEAN
  BY Zenon DEF Init
<1>8. given \in [Hashes -> 0 .. nextId]
  BY DEF Init
<1> QED
  BY <1>3, <1>5, <1>6, <1>7, <1>8, BoundAssumption DEF IInv

\* insert() and erase() write the validity byte of an item.
LEMMA MarkedItem ==
  ASSUME NEW it \in Item, NEW b \in BOOLEAN
  PROVE  LET new == [it EXCEPT !.valid = b]
         IN  new \in Item /\ new.str = it.str /\ new.valid = b
BY Zenon DEF Item

LEMMA LinkedKept ==
  ASSUME NEW tab, NEW hs, NEW n, Linked(tab, hs, n),
         NEW new, DOMAIN new = DOMAIN tab,
         \A id \in DOMAIN tab : new[id] \in Item /\ new[id].str = tab[id].str
  PROVE  Linked(new, hs, n)
<1>1. \A id \in DOMAIN new : /\ new[id] \in Item
                             /\ Hash[new[id].str] \in DOMAIN hs
                             /\ hs[Hash[new[id].str]] = id
  BY DEF Linked
<1>2. \A h \in DOMAIN hs : hs[h] \in DOMAIN new /\ Hash[new[hs[h]].str] = h
  BY DEF Linked
<1> QED
  BY <1>1, <1>2 DEF Linked

\* An erasure leaves the links and moves one id from Valid to Dead.
LEMMA EraseKeeps ==
  ASSUME IInv, NEW id, EraseId(id)
  PROVE  IInv' /\ Ids!Erase(Hash[items[id].str])
<1>1. /\ id \in DOMAIN items /\ id \in Valid(items)
      /\ items' = [items EXCEPT ![id].valid = FALSE]
      /\ nfree' = (nfree + 1) % Word /\ ntable' = (ntable - 1) % Word
      /\ hashes' = hashes /\ nextId' = nextId /\ given' = given
  BY DEF EraseId, Valid
<1>2. doubled' = doubled
  BY Zenon DEF EraseId
<1>3. /\ DOMAIN items' = DOMAIN items
      /\ items'[id] = [items[id] EXCEPT !.valid = FALSE]
      /\ \A i \in DOMAIN items : i # id => items'[i] = items[i]
  BY <1>1
<1>4. \A i \in DOMAIN items : items[i] \in Item
  BY DEF IInv, Linked
<1>5. items'[id] \in Item /\ items'[id].str = items[id].str /\ ~items'[id].valid
  BY <1>1, <1>3, <1>4, MarkedItem
<1>6. \A i \in DOMAIN items : items'[i].str = items[i].str /\ items'[i] \in Item
  BY <1>3, <1>4, <1>5
<1>7. Linked(items', hashes', nextId')
  BY <1>1, <1>3, <1>6, LinkedKept DEF IInv
<1>8. GivenIds'
  BY <1>1, <1>3, <1>6 DEF IInv, GivenIds
<1>9. Valid(items') = Valid(items) \ {id} /\ Dead(items') = Dead(items) \cup {id}
  BY <1>1, <1>3, <1>5 DEF Valid, Dead
<1>10. id \notin Dead(items)
  BY <1>1 DEF Dead
<1>11. /\ IsFiniteSet(Valid(items)) /\ IsFiniteSet(Dead(items))
       /\ Cardinality(Valid(items)) \in Nat /\ Cardinality(Dead(items)) \in Nat
       /\ Cardinality(Valid(items')) \in Nat /\ Cardinality(Dead(items')) <= MaxId
  BY <1>7, TableIsFinite DEF IInv
<1>12. /\ Cardinality(Valid(items')) = Cardinality(Valid(items)) - 1
      /\ Cardinality(Dead(items')) = Cardinality(Dead(items)) + 1
  <2>1. Cardinality(Valid(items) \ {id}) = Cardinality(Valid(items)) - 1
    BY <1>1, <1>11, FS_RemoveElement
  <2>2. Cardinality(Dead(items) \cup {id}) = Cardinality(Dead(items)) + 1
    BY <1>10, <1>11, FS_AddElement
  <2> QED
    BY <2>1, <2>2, <1>9
<1>13. ntable \in 1 .. MaxSize /\ ntable' = ntable - 1
  BY <1>1, <1>12, <1>11, BoundAssumption DEF IInv, CountersAgree
<1>14. nfree' \in 0 .. Word - 1 /\ ntable' \in 0 .. MaxSize
  BY <1>1, <1>13, BoundAssumption DEF IInv
<1>15. nfree + 1 < Word => nfree' = nfree + 1
  BY <1>1, BoundAssumption DEF IInv
<1>16. CountersAgree'
  BY <1>2, <1>12, <1>13, <1>15, <1>11, BoundAssumption DEF IInv, CountersAgree, Dead
<1>17. IInv'
  BY <1>1, <1>2, <1>7, <1>8, <1>14, <1>16 DEF IInv
<1>18. \A i \in Valid(items) : Hash[items[i].str] = Hash[items[id].str] => i = id
  BY <1>1 DEF IInv, Linked, Valid
<1>19. \A i \in Valid(items) : items'[i].str = items[i].str
  BY <1>6 DEF Valid
<1>20. LET h == Hash[items[id].str] IN h \in LiveHashes /\ LiveHashes' = LiveHashes \ {h}
  <2>1. LiveHashes = {Hash[items[i].str] : i \in Valid(items)}
    BY DEF LiveHashes
  <2>2. LiveHashes' = {Hash[items'[i].str] : i \in Valid(items')}
    BY DEF LiveHashes
  <2>3. LiveHashes' = {Hash[items[i].str] : i \in Valid(items) \ {id}}
    BY <2>2, <1>9, <1>19
  <2> QED
    BY <1>1, <1>18, <2>1, <2>3
<1> QED
  BY <1>1, <1>17, <1>20 DEF Ids!Erase

\* The hashes of the valid items, through a table with the links of another.
LEMMA LiveIds ==
  ASSUME IInv
  PROVE  /\ \A id \in Valid(items) : Hash[items[id].str] \in LiveHashes
         /\ LiveHashes \subseteq DOMAIN CheckedHashes
         /\ \A id \in DOMAIN CheckedItems : Hash[items[id].str] \in LiveHashes => id \in Valid(items)
<1>1. /\ Linked(CheckedItems, CheckedHashes, nextId)
      /\ Valid(CheckedItems) = Valid(items)
      /\ \A id \in DOMAIN CheckedItems : CheckedItems[id] = items[id]
  BY CheckedLinked
<1>2. LiveHashes = {Hash[items[id].str] : id \in Valid(items)}
  BY DEF LiveHashes
<1>3. Valid(items) \subseteq DOMAIN CheckedItems
  BY <1>1 DEF Valid
<1>4. \A id \in DOMAIN CheckedItems : /\ Hash[items[id].str] \in DOMAIN CheckedHashes
                                      /\ CheckedHashes[Hash[items[id].str]] = id
  BY <1>1 DEF Linked
<1> QED
  BY <1>2, <1>3, <1>4

\* insert() of a string whose hash is known.
LEMMA InsertKnownKeeps ==
  ASSUME IInv, NEW s \in String, Insert(s), InsertKnown(s)
  PROVE  IInv' /\ (Ids!Insert(Hash[s]) \/ UNCHANGED Ids!vars)
<1> DEFINE id == CheckedHashes[Hash[s]]
<1>1. /\ Linked(CheckedItems, CheckedHashes, nextId)
      /\ Valid(CheckedItems) = Valid(items)
      /\ DOMAIN CheckedItems \subseteq DOMAIN items
      /\ \A i \in DOMAIN CheckedItems : CheckedItems[i] = items[i]
      /\ NeedsRehash => DOMAIN CheckedItems = Valid(items)
      /\ ~NeedsRehash => CheckedItems = items
  BY CheckedLinked
<1>2. /\ Hash[s] \in DOMAIN CheckedHashes
      /\ items' = [CheckedItems EXCEPT ![id].valid = TRUE]
      /\ given' = [given EXCEPT ![Hash[s]] = id]
      /\ hashes' = CheckedHashes /\ nextId' = nextId
      /\ nfree' = (CheckedFree - 1) % Word
  BY DEF InsertKnown, CheckedNextId
<1>3. ntable < MaxSize /\ ntable' = ntable + 1
  BY DEF Insert
<1>4. doubled' = (doubled \/ Hash[s] \in LiveHashes)
  BY Zenon DEF Insert
<1>5. /\ id \in DOMAIN CheckedItems /\ id \in DOMAIN items
      /\ CheckedItems[id] = items[id] /\ items[id] \in Item /\ id \in 1 .. nextId
  BY <1>1, <1>2 DEF Linked
<1>6. Hash[items[id].str] = Hash[s] /\ Hash[s] \in Hashes
  BY <1>1, <1>2, <1>5, HashOf DEF Linked
<1>7. items'[id] \in Item /\ items'[id].str = items[id].str /\ items'[id].valid
  <2>1. items'[id] = [items[id] EXCEPT !.valid = TRUE]
    BY <1>2, <1>5
  <2> QED
    BY <2>1, <1>5, MarkedItem
<1>8. /\ DOMAIN items' = DOMAIN CheckedItems
      /\ \A i \in DOMAIN CheckedItems : i # id => items'[i] = items[i]
  BY <1>1, <1>2
<1>9. \A i \in DOMAIN CheckedItems : items[i] \in Item
  BY <1>1 DEF Linked
<1>10. \A i \in DOMAIN CheckedItems : items'[i].str = items[i].str /\ items'[i] \in Item
  BY <1>7, <1>8, <1>9
<1>11. Linked(items', hashes', nextId')
  <2> DEFINE kept == CheckedItems
  <2>1. /\ Linked(kept, CheckedHashes, nextId) /\ DOMAIN items' = DOMAIN kept
        /\ \A i \in DOMAIN kept : items'[i] \in Item /\ items'[i].str = kept[i].str
    BY <1>1, <1>8, <1>10
  <2> HIDE DEF kept
  <2>2. Linked(items', CheckedHashes, nextId)
    BY <2>1, LinkedKept
  <2> QED
    BY <1>2, <2>2
<1>12. given' = given
  BY <1>2, <1>5, <1>6 DEF IInv, GivenIds
<1>13. GivenIds'
  BY <1>1, <1>8, <1>10, <1>12 DEF IInv, GivenIds
<1>14. Valid(items') = Valid(items) \cup {id}
  BY <1>1, <1>5, <1>7, <1>8 DEF Valid
<1>15. Dead(items') = Dead(CheckedItems) \ {id}
  BY <1>1, <1>8, <1>14 DEF Dead
<1>16. LiveHashes' = LiveHashes \cup {Hash[s]}
  <2>1. \A i \in Valid(items') : items'[i].str = items[i].str
    BY <1>8, <1>10 DEF Valid
  <2>2. LiveHashes' = {Hash[items[i].str] : i \in Valid(items')}
    BY <2>1 DEF LiveHashes
  <2> QED
    BY <2>2, <1>6, <1>14 DEF LiveHashes
<1>17. Hash[s] \notin LiveHashes => ~NeedsRehash /\ id \in Dead(items) /\ CheckedItems = items
  BY <1>1, <1>5, <1>6, LiveIds DEF Dead
<1>18. CountersAgree' /\ nfree' \in 0 .. Word - 1
  <2>1. /\ IsFiniteSet(Valid(items)) /\ IsFiniteSet(Dead(items))
        /\ Cardinality(Valid(items)) \in Nat /\ Cardinality(Dead(items)) \in Nat
    BY TableIsFinite DEF IInv
  <2>2. /\ Cardinality(Valid(items')) <= Cardinality(Valid(items)) + 1
        /\ id \notin Valid(items) => Cardinality(Valid(items')) = Cardinality(Valid(items)) + 1
    <3>1. Cardinality(Valid(items) \cup {id})
            = IF id \in Valid(items) THEN Cardinality(Valid(items)) ELSE Cardinality(Valid(items)) + 1
      BY <2>1, FS_AddElement
    <3> QED
      BY <3>1, <2>1, <1>14
  <2>3. Hash[s] \notin LiveHashes => Cardinality(Dead(items')) = Cardinality(Dead(items)) - 1
    <3>1. id \in Dead(items) => Cardinality(Dead(items) \ {id}) = Cardinality(Dead(items)) - 1
      BY <2>1, FS_RemoveElement
    <3> QED
      BY <3>1, <1>15, <1>17
  <2>4. Cardinality(Dead(items')) \in Nat
    BY <1>11, TableIsFinite
  <2>5. CheckedFree \in 0 .. Word - 1 /\ (Hash[s] \notin LiveHashes => CheckedFree = nfree)
    BY <1>17, BoundAssumption DEF IInv, CheckedFree
  <2>6. nfree' \in 0 .. Word - 1 /\ (CheckedFree >= 1 => nfree' = CheckedFree - 1)
    <3>1. CheckedFree - 1 \in Int /\ (CheckedFree >= 1 => CheckedFree - 1 \in 0 .. Word - 1)
      BY <2>5, BoundAssumption
    <3> QED
      BY <1>2, <3>1, Wrapped
  <2>7. Cardinality(Valid(items')) <= ntable'
    <3>1. ntable \in Nat /\ Cardinality(Valid(items)) <= ntable
      BY BoundAssumption DEF IInv, CountersAgree
    <3>2. Cardinality(Valid(items')) \in Nat
      BY <1>11, TableIsFinite
    <3> QED
      BY <3>1, <3>2, <1>3, <2>1, <2>2
  <2>8. ASSUME ~doubled'
        PROVE  ntable' = Cardinality(Valid(items')) /\ nfree' = Cardinality(Dead(items'))
    <3>1. ~doubled /\ Hash[s] \notin LiveHashes
      BY <1>4, <2>8, Zenon
    <3>2. id \notin Valid(items)
      BY <1>17, <3>1 DEF Dead
    <3>3. ntable = Cardinality(Valid(items)) /\ nfree = Cardinality(Dead(items))
      BY <3>1 DEF IInv, CountersAgree, Dead
    <3> QED
      BY <1>3, <2>1, <2>2, <2>3, <2>4, <2>5, <2>6, <3>1, <3>2, <3>3
  <2> QED
    BY <2>6, <2>7, <2>8 DEF CountersAgree, Dead
<1>19. doubled' \in BOOLEAN
  BY <1>4, Zenon
<1>20. ntable' \in 0 .. MaxSize /\ given' \in [Hashes -> 0 .. nextId']
  <2>1. nextId' = nextId
    BY <1>2
  <2>2. given' \in [Hashes -> 0 .. nextId']
    BY <1>12, <2>1 DEF IInv
  <2> QED
    BY <1>3, <2>2, BoundAssumption DEF IInv
<1>21. IInv'
  BY <1>11, <1>13, <1>18, <1>19, <1>20 DEF IInv
<1>22. given[Hash[s]] # 0 /\ 1 .. nextId' = 1 .. nextId
  BY <1>2, <1>5, <1>6 DEF IInv, GivenIds
<1>23. CASE Hash[s] \in LiveHashes
  BY <1>12, <1>16, <1>21, <1>22, <1>23 DEF Ids!vars
<1>24. CASE Hash[s] \notin LiveHashes
  BY <1>12, <1>16, <1>21, <1>22, <1>24 DEF Ids!Insert
<1> QED
  BY <1>23, <1>24

\* insert() of a string whose hash leads nowhere.
LEMMA InsertNewKeeps ==
  ASSUME IInv, NEW s \in String, Insert(s), InsertNew(s)
  PROVE  IInv' /\ Ids!Insert(Hash[s])
<1> DEFINE id == nextId + 1
           new == [valid |-> TRUE, str |-> s]
<1>1. /\ Linked(CheckedItems, CheckedHashes, nextId)
      /\ Valid(CheckedItems) = Valid(items)
      /\ DOMAIN CheckedItems \subseteq DOMAIN items
      /\ \A i \in DOMAIN CheckedItems : CheckedItems[i] = items[i]
      /\ NeedsRehash => DOMAIN CheckedItems = Valid(items)
      /\ ~NeedsRehash => CheckedItems = items
  BY CheckedLinked
<1>2. /\ Hash[s] \notin DOMAIN CheckedHashes /\ nextId < MaxId
      /\ items' = Extended(CheckedItems, id, new)
      /\ hashes' = Extended(CheckedHashes, Hash[s], id)
      /\ given' = [given EXCEPT ![Hash[s]] = id]
      /\ nextId' = id /\ nfree' = CheckedFree
  BY DEF InsertNew, CheckedNextId
<1>3. ntable < MaxSize /\ ntable' = ntable + 1
  BY DEF Insert
<1>4. doubled' = (doubled \/ Hash[s] \in LiveHashes)
  BY Zenon DEF Insert
<1>5. /\ nextId \in Nat /\ id \in 1 .. MaxId /\ id \notin 1 .. nextId
      /\ DOMAIN CheckedItems \subseteq 1 .. nextId
  BY <1>1, <1>2, BoundAssumption DEF Linked
<1>6. /\ DOMAIN items' = DOMAIN CheckedItems \cup {id}
      /\ items'[id] = new
      /\ \A i \in DOMAIN CheckedItems : items'[i] = items[i]
  BY <1>1, <1>2, <1>5 DEF Extended
<1>7. new \in Item /\ new.str = s /\ new.valid
  BY Zenon DEF Item
<1>8. /\ DOMAIN hashes' = DOMAIN CheckedHashes \cup {Hash[s]}
      /\ hashes'[Hash[s]] = id
      /\ \A h \in DOMAIN CheckedHashes : hashes'[h] = CheckedHashes[h]
  BY <1>2 DEF Extended
<1>9. \A i \in DOMAIN CheckedItems : /\ items[i] \in Item
                                     /\ Hash[items[i].str] \in DOMAIN CheckedHashes
                                     /\ CheckedHashes[Hash[items[i].str]] = i
  BY <1>1 DEF Linked
<1>10. Linked(items', hashes', nextId')
  <2>1. \A i \in DOMAIN items' : /\ items'[i] \in Item
                                 /\ Hash[items'[i].str] \in DOMAIN hashes'
                                 /\ hashes'[Hash[items'[i].str]] = i
    BY <1>6, <1>7, <1>8, <1>9
  <2>2. \A h \in DOMAIN CheckedHashes :
          CheckedHashes[h] \in DOMAIN CheckedItems /\ Hash[items[CheckedHashes[h]].str] = h
    BY <1>1 DEF Linked
  <2>3. \A h \in DOMAIN hashes' : hashes'[h] \in DOMAIN items' /\ Hash[items'[hashes'[h]].str] = h
    BY <1>6, <1>7, <1>8, <2>2
  <2>4. DOMAIN hashes' \subseteq Hashes
    BY <1>1, <1>8, HashOf DEF Linked
  <2>5. DOMAIN items' \subseteq 1 .. nextId' /\ nextId' \in 0 .. MaxId
    BY <1>2, <1>5, <1>6
  <2> QED
    BY <2>1, <2>3, <2>4, <2>5 DEF Linked
<1>11. \A i \in DOMAIN CheckedItems : Hash[items[i].str] # Hash[s]
  BY <1>2, <1>9
<1>12. Hash[s] \notin LiveHashes
  BY <1>2, LiveIds
<1>13. given' \in [Hashes -> 0 .. nextId'] /\ GivenIds'
  <2>1. /\ Hash[s] \in Hashes /\ given'[Hash[s]] = id
        /\ \A h \in Hashes : h # Hash[s] => given'[h] = given[h] /\ given[h] # id
    BY <1>2, <1>5, HashOf DEF IInv
  <2>2. \A i \in DOMAIN CheckedItems : Hash[items[i].str] \in Hashes
    BY <1>9, HashOf DEF Item
  <2>3. \A i \in DOMAIN items' : given'[Hash[items'[i].str]] = i
    BY <1>1, <1>6, <1>7, <1>11, <2>1, <2>2 DEF IInv, GivenIds
  <2>4. \A g, h \in Hashes : given'[g] = given'[h] /\ given'[g] # 0 => g = h
    BY <2>1 DEF IInv, GivenIds
  <2>5. given' \in [Hashes -> 0 .. nextId']
    <3>1. 0 .. nextId \subseteq 0 .. nextId' /\ id \in 0 .. nextId'
      BY <1>2, <1>5
    <3>2. given \in [Hashes -> 0 .. nextId] /\ given' = [given EXCEPT ![Hash[s]] = id]
      BY <1>2 DEF IInv
    <3> HIDE DEF id
    <3> QED
      BY <3>1, <3>2
  <2> QED
    <3>1. GivenIds'
      BY <2>3, <2>4, Zenon DEF GivenIds
    <3> QED
      BY <2>5, <3>1
<1>14. Valid(items') = Valid(items) \cup {id} /\ id \notin Valid(items)
  BY <1>1, <1>5, <1>6, <1>7 DEF Valid
<1>15. Dead(items') = Dead(CheckedItems)
  BY <1>1, <1>5, <1>6, <1>14 DEF Dead
<1>16. LiveHashes' = LiveHashes \cup {Hash[s]}
  <2>1. \A i \in Valid(items) : items'[i].str = items[i].str
    BY <1>1, <1>6 DEF Valid
  <2>2. LiveHashes' = {Hash[items'[i].str] : i \in Valid(items) \cup {id}}
    BY <1>14 DEF LiveHashes
  <2>3. LiveHashes' = {Hash[items[i].str] : i \in Valid(items)} \cup {Hash[s]}
    BY <2>1, <2>2, <1>6, <1>7
  <2> QED
    BY <2>3 DEF LiveHashes
<1>17. nfree' \in 0 .. Word - 1 /\ CountersAgree'
  <2>1. IsFiniteSet(Valid(items)) /\ Cardinality(Valid(items)) \in Nat
    BY TableIsFinite DEF IInv
  <2>2. Cardinality(Valid(items')) = Cardinality(Valid(items)) + 1
    BY <1>14, <2>1, FS_AddElement
  <2>3. NeedsRehash => Cardinality(Dead(items')) = 0 /\ nfree' = 0
    <3>1. NeedsRehash => Dead(items') = {}
      BY <1>1, <1>15 DEF Dead
    <3> QED
      BY <3>1, <1>2, FS_EmptySet DEF CheckedFree
  <2>4. ~NeedsRehash => Dead(items') = Dead(items) /\ nfree' = nfree
    BY <1>1, <1>2, <1>15 DEF CheckedFree
  <2>5. nfree' \in 0 .. Word - 1
    BY <2>3, <2>4, BoundAssumption DEF IInv
  <2>6. ASSUME ~doubled'
        PROVE  ntable' = Cardinality(Valid(items')) /\ nfree' = Cardinality(Dead(items'))
    <3>1. ~doubled
      BY <1>4, <2>6, Zenon
    <3>2. ntable = Cardinality(Valid(items)) /\ nfree = Cardinality(Dead(items))
      BY <3>1 DEF IInv, CountersAgree, Dead
    <3> QED
      BY <1>3, <2>2, <2>3, <2>4, <3>2
  <2>7. Cardinality(Valid(items')) <= ntable'
    <3>1. ntable \in Nat /\ Cardinality(Valid(items)) <= ntable
      BY BoundAssumption DEF IInv, CountersAgree
    <3>2. Cardinality(Valid(items')) \in Nat
      BY <1>10, TableIsFinite
    <3> QED
      BY <3>1, <3>2, <1>3, <2>1, <2>2
  <2> QED
    BY <2>5, <2>6, <2>7 DEF CountersAgree, Dead
<1>18. doubled' \in BOOLEAN
  BY <1>4, Zenon
<1>19. ntable' \in 0 .. MaxSize
  BY <1>3, BoundAssumption DEF IInv
<1>20. IInv'
  BY <1>10, <1>13, <1>17, <1>18, <1>19 DEF IInv
<1>21. id \in (1 .. MaxId) \ (1 .. nextId) /\ 1 .. nextId' = (1 .. nextId) \cup {id}
  BY <1>2, <1>5
<1> QED
  BY <1>2, <1>12, <1>16, <1>20, <1>21 DEF Ids!Insert

-----------------------------------------------------------------------------
LEMMA StepRefines ==
  ASSUME IInv, [Next]_vars
  PROVE  IInv' /\ [Ids!Next]_(Ids!vars)
<1>1. ASSUME NEW s \in String, Insert(s) PROVE IInv' /\ [Ids!Next]_(Ids!vars)
  BY <1>1, HashOf, InsertKnownKeeps, InsertNewKeeps, Zenon DEF Insert, Ids!Next
<1>2. ASSUME NEW id, EraseId(id) PROVE IInv' /\ [Ids!Next]_(Ids!vars)
  <2>1. IInv' /\ Ids!Erase(Hash[items[id].str])
    BY <1>2, EraseKeeps
  <2>2. items[id] \in Item
    BY <1>2 DEF EraseId, Valid, IInv, Linked
  <2>3. Hash[items[id].str] \in Hashes
    BY <2>2, HashOf DEF Item
  <2> QED
    BY <2>1, <2>3 DEF Ids!Next
<1>3. CASE UNCHANGED vars
  <2>1. /\ items' = items /\ hashes' = hashes /\ nextId' = nextId /\ nfree' = nfree
        /\ ntable' = ntable /\ given' = given
    BY <1>3 DEF vars
  <2>2. doubled' = doubled
    BY <1>3, Zenon DEF vars
  <2>3. IInv'
    BY <2>1, <2>2 DEF IInv, GivenIds, CountersAgree
  <2>4. UNCHANGED Ids!vars
    BY <2>1 DEF Ids!vars, LiveHashes
  <2> QED
    BY <2>3, <2>4
<1> QED
  BY <1>1, <1>2, <1>3, Zenon DEF Next, EraseString, EraseMissing

LEMMA InitRefines == Init => Ids!Init
<1> SUFFICES ASSUME Init PROVE Ids!Init
  OBVIOUS
<1>1. DOMAIN items = {} /\ nextId = 0 /\ given = [h \in Hashes |-> 0]
  BY DEF Init
<1>2. LiveHashes = {} /\ 1 .. nextId = {}
  BY <1>1 DEF LiveHashes, Valid
<1> QED
  BY <1>1, <1>2 DEF Ids!Init

THEOREM Inductive == Spec => []IInv
BY InitIInv, StepRefines, PTL DEF Spec

\* StringTable implements Interner for hashes: a hash keeps its id while a
\* string with it is in the table, through every rehash, and no id is ever
\* given for two hashes.  Nothing is assumed of collisions.
THEOREM Refinement == Spec => ImplementsInterner
<1>1. IInv /\ [Next]_vars => IInv' /\ [Ids!Next]_(Ids!vars)
  BY StepRefines
<1> QED
  BY <1>1, InitIInv, InitRefines, PTL DEF Spec, ImplementsInterner, Ids!Spec

\* What find() answers for the id that insert() last returned for a string.
FindGivesBack == \A s \in String : LET id == given[Hash[s]]
                                   IN  id \in Valid(items) => items[id].str = s

\* Without collisions, find() gives back the string that was inserted for as
\* long as it is in the table.  With one, insert() of the second string returns
\* the id of the first (stringtable.cpp:28-34) and find() that one's bytes.
THEOREM FindsTheString ==
  ASSUME \A s, t \in String : Hash[s] = Hash[t] => s = t
  PROVE  Spec => []FindGivesBack
<1>1. ASSUME IInv, NEW s \in String, given[Hash[s]] \in Valid(items)
      PROVE  items[given[Hash[s]]].str = s
  <2> DEFINE id == given[Hash[s]]
             t == items[id].str
  <2>1. id \in DOMAIN items /\ id \in 1 .. MaxId /\ items[id] \in Item
    BY <1>1, BoundAssumption DEF IInv, Linked, Valid
  <2>2. t \in String /\ given[Hash[t]] = id
    BY <1>1, <2>1 DEF IInv, GivenIds, Item
  <2>3. Hash[t] = Hash[s]
    BY <1>1, <2>1, <2>2, HashOf DEF IInv, GivenIds
  <2> QED
    BY <2>2, <2>3
<1>2. IInv => FindGivesBack
  BY <1>1 DEF FindGivesBack
<1> QED
  BY <1>2, Inductive, PTL

\* The hashes lead to the items and the items to the hashes: insert() finds
\* the item of every hash that is in the table, and no hash is in it twice.
THEOREM LinksAgree == Spec => []ItemsAreHashed
<1>1. IInv => ItemsAreHashed
  BY DEF IInv, Linked, ItemsAreHashed
<1> QED
  BY <1>1, Inductive, PTL

\* size() never says less than there is, and m_nfree and m_ntable are exact
\* until a string is inserted twice, or one of its hash; neither wraps before.
THEOREM CountersCorrect == Spec => []CountersAgree
<1>1. IInv => CountersAgree
  BY DEF IInv
<1> QED
  BY <1>1, Inductive, PTL

\* Ids, items and counters keep their types.
THEOREM TypeCorrect == Spec => []TypeOK
<1>1. IInv => TypeOK
  BY DEF IInv, Linked, TypeOK
<1> QED
  BY <1>1, Inductive, PTL
=============================================================================
