---------------------------- MODULE MCHashDBSplit ----------------------------
(* Instances of HashDBSplit for TLC: two integer keys, a value of one byte *)
(* and one of two in a value file of eight.                                *)
EXTENDS HashDBSplit

TwoKeys == {0, 1}
IdentityHash == [k \in Key |-> k]
ValueLengths == {1, 2}
LengthOf == [v \in Value |-> v]

\* States that differ only in bytes no get() reads are explored once: a set()
\* writes the bytes of a value before a get() reads them.
ReadableState == <<db, vcap, vsize, FileSize, Contents(db, vfile)>>
=============================================================================
