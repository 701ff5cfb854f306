--------------------------------- MODULE Dict ---------------------------------
(***************************************************************************)
(* The dictionary of C/old/dict.c, with a node destructor set by           *)
(* dict_setnodedestroy.  Its buckets are made for chains, but the code     *)
(* that would link a second node follows the null pointer at the end of    *)
(* the chain and the process crashes: a bucket holds at most one node.     *)
(***************************************************************************)
EXTENDS Naturals, FiniteSets, FiniteSetsExt

CONSTANTS Key,
          Hash,          \* Key -> self->hash(key)
          Item,          \* the nodes a client may make
          Nothing,       \* a null pointer
          InitCapacity,  \* DICT_INITIALCAPACITY, 1031 in the code
          MaxCapacity    \* bound: no dictionary grows beyond this capacity

\* What the proofs take for granted of the constants.
DictAssumption == /\ Hash \in [Key -> Nat]
                  /\ InitCapacity \in Nat \ {0}
                  /\ Nothing \notin Item
                  /\ Nothing \notin [key : Key, item : Item]

VARIABLES dict,     \* the _Dict: capacity, length and buckets
          owned,    \* history: the nodes put in and not destroyed
          running   \* the process did not crash

vars == <<dict, owned, running>>

NoBuckets == [capacity |-> 0, length |-> 0, buckets |-> <<>>]

EmptyBuckets(cap) == [i \in 0 .. cap - 1 |-> Nothing]

IsPrime(n) == \/ n \in {2, 3}
              \/ /\ n % 2 # 0 /\ n % 3 # 0
                 /\ \A d \in {6 * i : i \in 1 .. n} :
                      d * d + 1 <= n + 2 * d => n % (d - 1) # 0 /\ n % (d + 1) # 0

NextPrime(n) == Min({p \in n .. 2 * n : IsPrime(p)})

\* The bucket of a key in a dictionary of this capacity.
Bucket(k, cap) == Hash[k] % cap

Nodes(d) == {d.buckets[i] : i \in DOMAIN d.buckets} \ {Nothing}

-----------------------------------------------------------------------------
\* _dict_rehash inserts the nodes in the order of their buckets; it crashes
\* when two of them meet.
Meet(d, cap) == \E m, n \in Nodes(d) : m # n /\ Bucket(m.key, cap) = Bucket(n.key, cap)

RehashedInPlace(d, cap) ==
  [d EXCEPT !.capacity = cap,
            !.buckets = [i \in 0 .. cap - 1 |-> IF i \in DOMAIN @ THEN @[i] ELSE Nothing]]
Rehashed(d, cap) ==
  [d EXCEPT !.capacity = cap,
            !.buckets = [i \in 0 .. cap - 1 |->
                           LET here == {n \in Nodes(d) : Bucket(n.key, cap) = i}
                           IN  IF here = {} THEN Nothing ELSE CHOOSE n \in here : TRUE]]

\* The load is looked at before the insertion, also of one that replaces.
NeedsRehash(d) == d.capacity # 0 /\ 4 * d.length > 3 * d.capacity

NextCapacity(d) == NextPrime(2 * d.capacity)

\* _dict_checkcapacity, if it does not crash.
Checked(d) == IF d.capacity = 0
              THEN [d EXCEPT !.capacity = InitCapacity, !.buckets = EmptyBuckets(InitCapacity)]
              ELSE IF NeedsRehash(d) THEN Rehashed(d, NextCapacity(d)) ELSE d

\* dict_get of a dictionary that has buckets.
Get(d, k) == LET n == d.buckets[Bucket(k, d.capacity)]
             IN  IF n # Nothing /\ n.key = k THEN n.item ELSE Nothing

-----------------------------------------------------------------------------
Init == dict = NoBuckets /\ owned = {} /\ running = TRUE

Crash == running' = FALSE /\ UNCHANGED <<dict, owned>>

\* _dict_insertnode finds another key in the bucket of k.
Collides(d, k) == \E n \in Nodes(d) : /\ n.key # k
                                      /\ Bucket(n.key, d.capacity) = Bucket(k, d.capacity)

\* A set of k crashes in the rehash or in the insertion.
SetCrashing(k) == \/ NeedsRehash(dict) /\ Meet(dict, NextCapacity(dict))
                  \/ Collides(Checked(dict), k)

\* _dict_set of a node that is in no dictionary.  A node with the same key is
\* destroyed and replaced.
Set(k, x) ==
  LET d == Checked(dict)
      old == {n \in Nodes(d) : n.key = k}
  IN  /\ running
      /\ x \notin owned
      /\ d.capacity \in 1 .. MaxCapacity
      /\ ~SetCrashing(k)
      /\ dict' = [d EXCEPT !.length = IF old = {} THEN @ + 1 ELSE @,
                           !.buckets[Bucket(k, d.capacity)] = [key |-> k, item |-> x]]
      /\ owned' = (owned \ {n.item : n \in old}) \cup {x}
      /\ UNCHANGED running

SetCrashes(k) == running /\ SetCrashing(k) /\ Crash

\* _dict_get of a dictionary that nothing was put into divides by zero.
GetCrashes == running /\ dict.capacity = 0 /\ Crash

ClearForgetting == /\ running
                   /\ dict' = [dict EXCEPT !.length = 0, !.buckets = EmptyBuckets(dict.capacity)]
                   /\ UNCHANGED <<owned, running>>
Clear == /\ running
         /\ dict' = [dict EXCEPT !.length = 0, !.buckets = EmptyBuckets(dict.capacity)]
         /\ owned' = owned \ {n.item : n \in Nodes(dict)}
         /\ UNCHANGED running

Destroy == /\ running
           /\ dict' = NoBuckets
           /\ owned' = owned \ {n.item : n \in Nodes(dict)}
           /\ UNCHANGED running

Next == \/ \E k \in Key, x \in Item : Set(k, x)
        \/ \E k \in Key : SetCrashes(k)
        \/ GetCrashes
        \/ Clear
        \/ Destroy

Spec == Init /\ [][Next]_vars

-----------------------------------------------------------------------------
\* As long as it runs, the dictionary is one that owns its nodes: set, clear,
\* destroy and the rehash inside set change what get answers as they should,
\* and the destructor runs once for every node, when it leaves.
Contents == [k \in Key |-> IF dict.capacity = 0 THEN Nothing ELSE Get(dict, k)]
Dictionary == INSTANCE OwningMap WITH entry <- Contents
ImplementsOwningMap == Dictionary!Spec

\* The length is that of the keys it answers, which the load check and
\* dict_getlength take it for: through replacements, clears and rehashes.
LengthExact == dict.length = Cardinality({k \in Key : Contents[k] # Nothing})
=============================================================================
