------------------------------ MODULE OwningMap ------------------------------
(***************************************************************************)
(* What a map with an item destructor promises: a dictionary that owns the *)
(* items put into it and releases each one exactly once, when it is        *)
(* replaced, deleted or cleared away.  Map implements it for the clients   *)
(* of its TidySpec.                                                        *)
(***************************************************************************)
CONSTANTS Key,
          Item,
          Nothing   \* a key that has no item

VARIABLES entry,    \* Key -> Item, or Nothing
          owned     \* the items put in and not released

vars == <<entry, owned>>

Empty == [k \in Key |-> Nothing]

Init == entry = Empty /\ owned = {}

\* An item is put in while the map does not own it.
Put(k, x) == /\ x \notin owned
             /\ entry' = [entry EXCEPT ![k] = x]
             /\ owned' = (owned \ {entry[k]}) \cup {x}

Delete(k) == /\ entry[k] # Nothing
             /\ entry' = [entry EXCEPT ![k] = Nothing]
             /\ owned' = owned \ {entry[k]}

DeleteAll == entry' = Empty /\ owned' = {}

Next == \/ \E k \in Key : Delete(k)
        \/ \E k \in Key, x \in Item : Put(k, x)
        \/ DeleteAll

Spec == Init /\ [][Next]_vars
=============================================================================
