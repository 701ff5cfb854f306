------------------------------- MODULE Interner -------------------------------
(***************************************************************************)
(* What a string table promises: a string that is in the table has one id, *)
(* the same from its insertion to its erasure, and an id that was given to *)
(* one string is never given to another.  StringTable implements it for   *)
(* the hashes of strings.                                                  *)
(***************************************************************************)
CONSTANTS String, Id,
          NoId      \* the id of a string that never got one

VARIABLES live,    \* the strings in the table
          idOf,    \* string -> the id it was last given, or NoId
          used     \* all the ids ever given

vars == <<live, idOf, used>>

Init == live = {} /\ idOf = [s \in String |-> NoId] /\ used = {}

\* A string that was erased gets its old id back or a fresh one.
Insert(s) == /\ s \notin live
             /\ live' = live \cup {s}
             /\ \/ idOf[s] # NoId /\ UNCHANGED <<idOf, used>>
                \/ \E id \in Id \ used :
                     /\ idOf' = [idOf EXCEPT ![s] = id]
                     /\ used' = used \cup {id}

Erase(s) == /\ s \in live
            /\ live' = live \ {s}
            /\ UNCHANGED <<idOf, used>>

Next == \E s \in String : Insert(s) \/ Erase(s)

Spec == Init /\ [][Next]_vars
=============================================================================
