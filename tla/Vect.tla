--------------------------------- MODULE Vect ---------------------------------
(***************************************************************************)
(* The vector of C/vect.h, with an item destructor set by vect_setitemdel. *)
(* vect_ins, vect_add and vect_resize leave it to the client (or to the    *)
(* macro) to assign the items they make room for: the assignment is part   *)
(* of the action.  vect_resize itself does not compile (its replacement    *)
(* has one parenthesis too many); the model is of _vect_resize.            *)
(***************************************************************************)
EXTENDS CMemory, FiniteSetsExt

CONSTANTS Item,
          Zero,             \* a zero-filled item, on which itemdel does nothing
          Word,             \* the number of values of a uintptr_t
          DefaultCapacity,  \* sizeof(uintptr_t) << 1
          Count,            \* the numbers of items that a client passes to vect_del_n
          MaxLength         \* bound: no vector gets longer, nor reserves more

\* What the proofs take for granted of the constants.  The numbers given to
\* vect_del_n do not wrap around when they are added to a position.
VectAssumption == /\ DefaultCapacity \in Nat /\ MaxLength \in Nat /\ Zero \notin Item
                  /\ Word \in Nat /\ MaxLength < Word
                  /\ \A n \in Count : n \in Nat /\ MaxLength + n < Word

VARIABLES vect,   \* the length and the memory of the items, or NoVect
          dels    \* history: item -> calls of itemdel since it was put in

vars == <<vect, dels>>

NoVect == [length |-> 0, items |-> <<>>]

Positions == 0 .. vect.length - 1

\* itemdel is called on the items at these positions.
Destroy(where) ==
  dels' = [x \in Item |-> dels[x] + Cardinality({i \in where : vect.items[i] = x})]

PutIn(xs) == dels' = [x \in Item |-> IF x \in xs THEN 0 ELSE dels[x]]

Outside(x) == x \notin {vect.items[i] : i \in Positions}

Reserved(v, n) == IF Size(v.items) >= n THEN v
                  ELSE [v EXCEPT !.items = Grown(v.items, n, Zero)]

-----------------------------------------------------------------------------
Init == vect = NoVect /\ dels = [x \in Item |-> 0]

\* vect_create_n(n)
Create(n) == /\ vect = NoVect
             /\ LET cap == IF n = 0 THEN DefaultCapacity ELSE 2 * n
                IN  vect' = [length |-> n, items |-> [i \in 0 .. cap - 1 |-> Zero]]
             /\ UNCHANGED dels

\* vect_ins, and vect_add for i = length.
Ins(i, x) == LET r == Reserved(vect, vect.length + 1).items
             IN  /\ vect # NoVect
                 /\ vect.length < MaxLength
                 /\ Outside(x)
                 /\ vect' = [length |-> vect.length + 1,
                             items |-> [Memmove(r, i + 1, i, vect.length - i) EXCEPT ![i] = x]]
                 /\ PutIn({x})

DelMovedFirst(i) ==
  LET moved == Memmove(vect.items, i, i + 1, vect.length - i - 1)
  IN  /\ vect' = [length |-> vect.length - 1, items |-> moved]
      /\ dels' = [x \in Item |-> IF x = moved[i] THEN dels[x] + 1 ELSE dels[x]]
Del(i) == /\ Destroy({i})
          /\ vect' = [length |-> vect.length - 1,
                      items |-> Memmove(vect.items, i, i + 1, vect.length - i - 1)]

\* vect_del_n: the sum is one of words.  If it wraps around, the end is before
\* the start and the vector gets longer (what memmove then writes behind the
\* memory is left out); Next keeps to numbers that do not.
DelN(start, n) ==
  LET end == Min({(start + n) % Word, vect.length})
  IN  /\ n > 0
      /\ vect' = [length |-> vect.length + start - end,
                  items |-> Memmove(vect.items, start, end, vect.length - end)]
      /\ UNCHANGED dels

PopN(n) == /\ vect.length > 0
           /\ vect' = [vect EXCEPT !.length = IF @ > n THEN @ - n ELSE 0]
           /\ UNCHANGED dels

Reserve(n) == /\ vect # NoVect
              /\ vect' = Reserved(vect, n)
              /\ UNCHANGED dels

\* The client assigns xs to the positions that a larger length shows: they
\* hold zeros, or what was cut off or destroyed there before.
Resize(n, xs) ==
  LET r == Reserved(vect, n).items
  IN  /\ vect # NoVect
      /\ vect' = [length |-> n, items |-> [i \in DOMAIN r |->
                    IF i \in vect.length .. n - 1 THEN xs[i] ELSE r[i]]]
      /\ PutIn({xs[i] : i \in DOMAIN xs})
      /\ \A i \in DOMAIN xs : Outside(xs[i])
      /\ \A i, j \in DOMAIN xs : i # j => xs[i] # xs[j]

Clear == /\ vect # NoVect
         /\ Destroy(Positions)
         /\ vect' = [vect EXCEPT !.length = 0]

DestroyVect == /\ vect # NoVect
               /\ Destroy(Positions)
               /\ vect' = NoVect

Next == \/ \E n \in 0 .. MaxLength : Create(n) \/ Reserve(n)
        \/ \E i \in 0 .. vect.length, x \in Item : Ins(i, x)
        \/ \E i \in Positions : Del(i)
        \/ \E i \in Positions, n \in Count : DelN(i, n)
        \/ \E n \in 1 .. MaxLength : PopN(n)
        \/ \E n \in 0 .. MaxLength : \E xs \in [vect.length .. n - 1 -> Item] : Resize(n, xs)
        \/ Clear
        \/ DestroyVect

Spec == Init /\ [][Next]_vars

-----------------------------------------------------------------------------
Abstract == INSTANCE OwningSeq WITH seq <- Items(vect.items, 0, vect.length)

\* The items are a sequence, in the order of the insertions, through moves,
\* growth and resizing, and itemdel is called once for each item that is
\* deleted or cleared and never for one that was popped, cut off or replaced.
ImplementsOwningSeq == Abstract!Spec
=============================================================================
