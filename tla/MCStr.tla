--------------------------------- MODULE MCStr ---------------------------------
(***************************************************************************)
(* An instance of Str for TLC in which a client deletes str_npos           *)
(* characters: in words of 4 bits, the largest number.                     *)
(***************************************************************************)
EXTENDS Str

Counts == {0, 1, Word - 1}
=============================================================================
