------------------------------- MODULE KVStore -------------------------------
(***************************************************************************)
(* What a persistent key-value store promises its single client: named     *)
(* stores, each a dictionary, one of which may be in use.  Creating a      *)
(* store empties it, closing it keeps its contents, loading it brings them *)
(* back.  HashDB implements it for the clients of HashDBDirect.            *)
(***************************************************************************)
CONSTANTS Name,     \* the names of the stores
          Key,
          Value,
          Missing,  \* the answer for a key that has no value
          Absent,   \* the contents of a store that was never created
          None      \* no store is in use

VARIABLES store,    \* the contents of every store
          current   \* the store in use

vars == <<store, current>>

Dictionary == [Key -> Value \cup {Missing}]

TypeOK == /\ store \in [Name -> Dictionary \cup {Absent}]
          /\ current \in Name \cup {None}

Init == /\ store = [n \in Name |-> Absent]
        /\ current = None

Create(n) == /\ store' = [store EXCEPT ![n] = [k \in Key |-> Missing]]
             /\ current' = n

Load(n) == /\ current = None
           /\ store[n] # Absent
           /\ current' = n
           /\ UNCHANGED store

Close == /\ current # None
         /\ current' = None
         /\ UNCHANGED store

Put(k, v) == /\ current # None
             /\ store' = [store EXCEPT ![current][k] = v]
             /\ UNCHANGED current

Delete(k) == Put(k, Missing)

DeleteAll == /\ current # None
             /\ store' = [store EXCEPT ![current] = [k \in Key |-> Missing]]
             /\ UNCHANGED current

Next == \/ \E n \in Name : Create(n) \/ Load(n)
        \/ Close
        \/ \E k \in Key : Delete(k)
        \/ \E k \in Key, v \in Value : Put(k, v)
        \/ DeleteAll

Spec == Init /\ [][Next]_vars
=============================================================================
