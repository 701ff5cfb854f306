--------------------------------- MODULE StrV ---------------------------------
(***************************************************************************)
(* The string views of C/strv.h.  A view is the sequence of the characters *)
(* that it shows; offsets count from 0.                                    *)
(***************************************************************************)
EXTENDS Integers, SequencesExt, FiniteSetsExt

Npos == -1   \* strv_npos, (uintptr_t)-1

\* The characters from offset i to offset j - 1.
View(t, i, j) == SubSeq(t, i + 1, j)

MatchesAt(t, s, i) == View(t, i, i + Len(s)) = s

\* _cstr_index_n, and where strv_split ends its token.
CstrIndex(t, s) ==
  LET at == {i \in 0 .. Len(t) - Len(s) : MatchesAt(t, s, i)}
  IN  IF at = {} THEN Npos ELSE Min(at)

\* _cstr_lastindex_n counts down before it compares, so it leaves out the
\* last offset at which s has room.
CstrLastIndex(t, s) ==
  LET at == {i \in 0 .. Len(t) - Len(s) - 1 : MatchesAt(t, s, i)}
  IN  IF at = {} THEN Npos ELSE Max(at)

StartsWith(t, s) == Len(s) <= Len(t) /\ View(t, 0, Len(s)) = s
EndsWith(t, s) == Len(s) <= Len(t) /\ View(t, Len(t) - Len(s), Len(t)) = s

\* strv_sub and str_sub: no view ends where the string does.
Sub(t, i, j) == IF i < j /\ j < Len(t) THEN View(t, i, j) ELSE <<>>

\* One turn of strv_foreach_split: the token goes, and the separator behind
\* it.  What is behind the last separator is no token.
SplitBefore(run, sep) ==
  LET i == CstrIndex(run.rest, sep)
  IN  IF i = Npos THEN run
      ELSE [tokens |-> Append(run.tokens, View(run.rest, 0, i)),
            rest |-> View(run.rest, i + 1, Len(run.rest))]
Split(run, sep) ==
  LET i == CstrIndex(run.rest, sep)
  IN  IF i = Npos THEN run
      ELSE [tokens |-> Append(run.tokens, View(run.rest, 0, i)),
            rest |-> View(run.rest, i + Len(sep), Len(run.rest))]

\* All its turns, for a separator that is not empty: with an empty one the
\* loop never ends.
SplitTurns(t, sep) ==
  LET after[n \in 0 .. Len(t)] == IF n = 0 THEN [tokens |-> <<>>, rest |-> t]
                                  ELSE Split(after[n - 1], sep)
  IN  after
SplitAll(t, sep) == SplitTurns(t, sep)[Len(t)]

-----------------------------------------------------------------------------
\* For the properties: the tokens with a separator behind each of them, and
\* the letters of t that are not in s.
JoinedUpTo(tokens, sep) ==
  LET upto[n \in 0 .. Len(tokens)] == IF n = 0 THEN <<>> ELSE upto[n - 1] \o tokens[n] \o sep
  IN  upto
Joined(tokens, sep) == JoinedUpTo(tokens, sep)[Len(tokens)]

OthersUpTo(t, s) ==
  LET upto[n \in 0 .. Len(t)] == IF n = 0 THEN <<>>
                                 ELSE IF t[n] \in ToSet(s) THEN upto[n - 1]
                                 ELSE Append(upto[n - 1], t[n])
  IN  upto
Others(t, s) == OthersUpTo(t, s)[Len(t)]
=============================================================================
