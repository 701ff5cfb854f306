---------------------------- MODULE MCStringTable ----------------------------
(* Instances of StringTable for TLC.                                       *)
EXTENDS StringTable

\* Strings 3 and 4 have the same hash.
Strings == 1 .. 4
CollidingHash == [s \in Strings |-> IF s = 4 THEN 3 ELSE s]
=============================================================================
