------------------------------ MODULE OwningSeq ------------------------------
(***************************************************************************)
(* What a vector with an item destructor promises: a sequence of items     *)
(* that are destroyed by the vector exactly once, when they are deleted or *)
(* cleared away, and not at all when they are popped or cut off: those go  *)
(* back to the client.                                                     *)
(***************************************************************************)
EXTENDS SequencesExt

CONSTANTS Item,
          Zero,     \* what a vector that is created with a length holds
          MaxLength

VARIABLES seq,
          dels   \* item -> how often it was destroyed since it was put in

vars == <<seq, dels>>

Init == seq = <<>> /\ dels = [x \in Item |-> 0]

Insert(i, x) == /\ x \notin ToSet(seq)
                /\ seq' = InsertAt(seq, i, x)
                /\ dels' = [dels EXCEPT ![x] = 0]

Delete(i) == /\ seq' = RemoveAt(seq, i)
             /\ dels' = [x \in Item |-> IF x = seq[i] THEN 1 ELSE dels[x]]

\* The items from i to j leave, and belong to the client again.
TakeOut(i, j) == /\ seq' = SubSeq(seq, 1, i - 1) \o SubSeq(seq, j + 1, Len(seq))
                 /\ UNCHANGED dels

AppendAll(xs) == /\ ToSet(xs) \cap ToSet(seq) \cap Item = {}
               /\ seq' = seq \o xs
               /\ dels' = [x \in Item |-> IF x \in ToSet(xs) THEN 0 ELSE dels[x]]

DeleteAll == /\ seq' = <<>>
             /\ dels' = [x \in Item |-> IF x \in ToSet(seq) THEN 1 ELSE dels[x]]

Next == \/ \E i \in 1 .. Len(seq) + 1, x \in Item : Insert(i, x)
        \/ \E i \in 1 .. Len(seq) : Delete(i)
        \/ \E i, j \in 1 .. Len(seq) : i <= j /\ TakeOut(i, j)
        \/ \E n \in 1 .. MaxLength :
             \E xs \in [1 .. n -> Item \cup {Zero}] : AppendAll(xs)
        \/ DeleteAll

Spec == Init /\ [][Next]_vars
=============================================================================
