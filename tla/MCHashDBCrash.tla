---------------------------- MODULE MCHashDBCrash ----------------------------
(* Instances of HashDBCrash for TLC: 0 and 10 share a slot at both         *)
(* capacities, and 1 and 2 follow.  A key is its own value, but 0 has two. *)
EXTENDS HashDBCrash, TLC

CONSTANT Twins

Keys == {0, 1, 2, 10}
IdentityHash == [k \in Key |-> k]
ValuesOfKeys == [k \in Key |-> IF k = 0 THEN Twins ELSE {k}]
TwinPermutations == Permutations(Twins)

\* Two states are one if they differ in what nobody reads: the key and the value
\* of a pair of a hash file that is not FULL, the header of a .tmp file that a
\* kill left, and, since load() and open() go by the name, what is in ".hash"
\* while it is not mapped, and m_fhashpath while there is no call to use it.
Readable(t) == [t EXCEPT !.pairs = [i \in DOMAIN @ |-> IF @[i].state = "FULL" THEN @[i] ELSE @[i].state]]
ReadableState == <<Readable(files[Named]), IF at = Unnamed THEN Readable(files[Unnamed]) ELSE NoFile,
                   IF pc \in {"copy", "rename"} THEN temps ELSE [p \in Path |-> temps[p].pairs],
                   at, IF at = None /\ pc = "idle" THEN None ELSE hpath, calls, history>>
=============================================================================
