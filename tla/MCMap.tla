-------------------------------- MODULE MCMap --------------------------------
(* Instances of Map for TLC.  Of four buckets the keys 1 and 2 hash to the *)
(* last one, with the same hash, and 4 too; 3 to the first, behind them.   *)
(* Of eight, 3 still follows 1 and 2, and 4 has the last to itself.        *)
EXTENDS Map, TLC

Keys == 1 .. 4
Hashes == <<3, 3, 4, 7>>
ItemPermutations == Permutations(Item)

\* States that differ only in what a bucket that is not FULL still holds are
\* explored once: a tidy client never makes map_get look at it.
LiveState == <<map.capacity, map.length, map.tombs, held,
               [i \in Slots(map) |-> IF map.buckets[i].state = "FULL" THEN map.buckets[i]
                                     ELSE [ZeroBucket EXCEPT !.state = map.buckets[i].state]]>>
=============================================================================
