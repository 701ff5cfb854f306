------------------------------- MODULE CMemory -------------------------------
(***************************************************************************)
(* The memory that the containers of C/vect.h and C/str.h keep their items *)
(* in: a block is a function from offsets, 0 onwards, to what is stored    *)
(* there.                                                                  *)
(***************************************************************************)
EXTENDS Naturals, FiniteSets

Size(block) == Cardinality(DOMAIN block)

\* memmove(block + to, block + from, n)
Memmove(block, to, from, n) ==
  [i \in DOMAIN block |-> IF i \in to .. to + n - 1 THEN block[i - to + from] ELSE block[i]]

\* The default allocators: a zero-filled block that starts like the old one.
Grown(block, size, zero) ==
  [i \in 0 .. size - 1 |-> IF i \in DOMAIN block THEN block[i] ELSE zero]

\* The n items from offset i, as a sequence.
Items(block, i, n) == [j \in 1 .. n |-> block[i + j - 1]]
=============================================================================
