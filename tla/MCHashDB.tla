------------------------------- MODULE MCHashDB -------------------------------
(***************************************************************************)
(* Instances of HashDB for TLC.  Keys are integers, which HashDB::hash     *)
(* takes as they are: 0, 5 and 10 share a slot in a table of 5, 0 and 10   *)
(* still do in one of 10, and 1 is the slot behind them.                   *)
(***************************************************************************)
EXTENDS HashDB, TLC

CollidingKeys == {0, 1, 10}
TwoKeys == {0, 10}
OneKey == {0}
\* No operation looks into a value.
ValuePermutations == Permutations(Value)
IdentityHash == [k \in Key |-> k]
=============================================================================
