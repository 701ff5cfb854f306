---------------------------- MODULE MCHashDBDirect ----------------------------
(* Instances of HashDBDirect for TLC: integer keys below the capacity. *)
EXTENDS HashDBDirect

SmallKeys == 0 .. 3
OneKey == {3}
IdentityHash == [k \in Key |-> k]
=============================================================================
