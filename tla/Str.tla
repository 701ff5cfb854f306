---------------------------------- MODULE Str ----------------------------------
(***************************************************************************)
(* The string buffer of C/str.h: a length, and memory of one byte more     *)
(* than the capacity, with the characters at its start.  Insertions and    *)
(* deletions keep a terminator behind them; pop and resize only set the    *)
(* length.                                                                 *)
(***************************************************************************)
EXTENDS CMemory, StrV

CONSTANTS Letter,
          Nul,              \* the byte 0
          Word,             \* the number of values of a uintptr_t
          DefaultCapacity,  \* sizeof(uintptr_t) << 1
          Count,            \* the lengths that a client passes to str_del
          MaxLength,        \* bound: no string gets longer, nor reserves more
          MaxWord           \* bound: no string given to a call is longer

\* What the proofs take for granted of the constants.  The memory of a string
\* can be addressed, and the lengths given to str_del do not wrap around.
StrAssumption == /\ DefaultCapacity \in Nat /\ MaxLength \in Nat /\ MaxWord \in 0 .. MaxLength
                 /\ Word \in Nat /\ MaxLength + 1 < Word
                 /\ \A n \in Count : n \in Nat /\ MaxLength + n < Word
                 /\ Nul \notin Letter

VARIABLE str   \* the length and the bytes, or NoStr

vars == <<str>>

NoStr == [length |-> 0, bytes |-> <<>>]

Capacity(s) == Size(s.bytes) - 1
Offsets == 0 .. str.length
Words == UNION {[1 .. n -> Letter] : n \in 0 .. MaxWord}

Chars(s) == Items(s.bytes, 0, s.length)

\* The characters that a function of C sees, up to the first terminator.
CChars(s) == Items(s.bytes, 0, Min({i \in DOMAIN s.bytes : s.bytes[i] = Nul}))

-----------------------------------------------------------------------------
\* The functions of str.h, on a string that there is.

ReservedOneLess(s, n) == IF Capacity(s) >= n - 1 THEN s
                         ELSE [s EXCEPT !.bytes = Grown(@, n, Nul)]
Reserved(s, n) == IF Capacity(s) >= n THEN s
                  ELSE [s EXCEPT !.bytes = Grown(@, n + 1, Nul)]

\* str_ins_n: makes room, moves what is behind i with the terminator, copies
\* w and sets a terminator at the new end.
Inserted(s, i, w) ==
  LET newlen == s.length + Len(w)
      r == Reserved(s, newlen).bytes
      moved == IF i < s.length THEN Memmove(r, i + Len(w), i, s.length - i + 1) ELSE r
  IN  [length |-> newlen,
       bytes |-> [j \in DOMAIN r |-> IF j \in i .. i + Len(w) - 1 THEN w[j - i + 1]
                                     ELSE IF j = newlen THEN Nul ELSE moved[j]]]

\* str_del: "Invalid range, return the string unchanged".
InvalidRange(s, start, n) == start >= s.length \/ (start + n) % Word > s.length
DeletedLeavingEnd(s, start, n) ==
  IF InvalidRange(s, start, n) THEN s
  ELSE [length |-> (s.length - n) % Word,
        bytes |-> Memmove(s.bytes, start, (start + n) % Word, (s.length - start - n) % Word)]
Deleted(s, start, n) ==
  IF InvalidRange(s, start, n) THEN s
  ELSE [length |-> (s.length - n) % Word,
        bytes |-> Memmove(s.bytes, start, (start + n) % Word, (s.length - start - n + 1) % Word)]

\* One turn of the loop of str_delstr_n: strstr looks at the C string.
DelstrTurn(s, w) ==
  LET p == CstrIndex(CChars(s), w)
  IN  IF p = Npos THEN s
      ELSE [length |-> s.length - Len(w),
            bytes |-> Memmove(s.bytes, p, p + Len(w), s.length - p - Len(w) + 1)]
DelstrTurns(s, w) ==
  LET after[n \in 0 .. s.length] == IF n = 0 THEN s ELSE DelstrTurn(after[n - 1], w)
  IN  after
DelstrOnce(s, w) == DelstrTurn(s, w)
Delstred(s, w) == DelstrTurns(s, w)[s.length]

-----------------------------------------------------------------------------
Init == str = NoStr

\* str_create_from_n, and str_create_n(n) with w = <<>>.
Create(n, w) == LET cap == IF n = 0 THEN DefaultCapacity ELSE 2 * n
                IN  /\ str = NoStr
                    /\ w # <<>> => n = Len(w)
                    /\ str' = Inserted([length |-> 0, bytes |-> [i \in 0 .. cap |-> Nul]], 0, w)

\* str_ins_n, and the appending str_add for i = length.
Ins(i, w) == /\ str # NoStr
             /\ str.length + Len(w) <= MaxLength
             /\ str' = Inserted(str, i, w)

Del(start, n) == str # NoStr /\ str' = Deleted(str, start, n)

\* str_replace looks for the first occurrence; both strings are C strings.
Replace(old, new) ==
  LET i == CstrIndex(Chars(str), old)
  IN  /\ str # NoStr
      /\ i # Npos
      /\ str.length - Len(old) + Len(new) <= MaxLength
      /\ str' = Inserted(Deleted(str, i, Len(old)), i, new)

\* str_delstr, of a string whose C string ends within its length: else it
\* moves a negative number of bytes.  With an empty w the loop never ends.
Delstr(w) == /\ str # NoStr
             /\ Len(CChars(str)) <= str.length
             /\ w # <<>>
             /\ str' = Delstred(str, w)

PopN(n) == /\ str # NoStr
           /\ str' = [str EXCEPT !.length = IF @ > n THEN @ - n ELSE 0]

Reserve(n) == str # NoStr /\ str' = Reserved(str, n)

\* str_resize shows what is in the memory behind the end.
Resize(n) == str # NoStr /\ str' = [Reserved(str, n) EXCEPT !.length = n]

Clear == /\ str # NoStr
         /\ str' = [str EXCEPT !.length = 0, !.bytes[0] = Nul]

Destroy == str # NoStr /\ str' = NoStr

Next == \/ \E n \in 0 .. MaxWord, w \in Words : Create(n, w)
        \/ \E i \in Offsets, w \in Words : Ins(i, w)
        \/ \E i \in Offsets, n \in Count : Del(i, n)
        \/ \E old, new \in Words : Replace(old, new)
        \/ \E w \in Words : Delstr(w)
        \/ \E n \in 1 .. MaxLength : PopN(n) \/ Reserve(n) \/ Resize(n)
        \/ Clear
        \/ Destroy

Spec == Init /\ [][Next]_vars

-----------------------------------------------------------------------------
\* Properties.

Text == Chars(str)
Closed == str # NoStr /\ str.bytes[str.length] = Nul

\* The last byte of the memory is a terminator and the text is before it, so
\* no function of C that looks for one runs out of the memory, not even after
\* the pops and resizes that leave the text itself without one.
MemoryEndsInNul == str # NoStr => /\ str.length <= Capacity(str)
                                  /\ str.bytes[Capacity(str)] = Nul

\* The moves of bytes are edits of the text, whatever pops and resizes left
\* behind its end: an insertion closes the text, a deletion of a valid range
\* and a replacement of the first occurrence leave no byte of the rest behind.
EditsActOnText ==
  [][/\ \A i \in Offsets, w \in Words : Ins(i, w) =>
          /\ Text' = View(Text, 0, i) \o w \o View(Text, i, Len(Text))
          /\ Closed'
     /\ \A i \in Offsets, n \in Count : Del(i, n) /\ i + n <= Len(Text) =>
          /\ Text' = View(Text, 0, i) \o View(Text, i + n, Len(Text))
          /\ Closed' = Closed
     /\ \A old, new \in Words : Replace(old, new) =>
          /\ Closed'
          /\ \E i \in Offsets :
               /\ Text = View(Text, 0, i) \o old \o View(Text, i + Len(old), Len(Text))
               /\ Text' = View(Text, 0, i) \o new \o View(Text, i + Len(old), Len(Text))]_vars

\* After str_delstr the string is nowhere in a closed text, not even where
\* two of its pieces came together, and all other letters are there in order.
DelstrRemovesAll ==
  [][\A w \in Words : Delstr(w) /\ Closed /\ Nul \notin ToSet(Text) =>
        /\ Closed'
        /\ CstrIndex(Text', w) = Npos
        /\ Others(Text', w) = Others(Text, w)]_vars

\* The searches agree with each other but for an occurrence at the very end of
\* the text, which strv_lastindex never sees (strv.h:101): a prefix is found
\* first, no other occurrence is before the first or behind the last; the
\* tokens of a split with their separators, and the rest that is no token any
\* more, are the text, and no separator is left in any of them.
SearchesAgreeButAtEnd ==
  \A w \in Words \ {<<>>} :
     /\ StartsWith(Text, w) <=> CstrIndex(Text, w) = 0
     /\ LET first == CstrIndex(Text, w)
            last == CstrLastIndex(Text, w)
        IN  /\ last # Npos => first # Npos /\ first <= last /\ MatchesAt(Text, w, last)
            /\ \A i \in 0 .. Len(Text) - Len(w) : MatchesAt(Text, w, i) =>
                 /\ first # Npos /\ first <= i
                 /\ i <= last \/ (EndsWith(Text, w) /\ i = Len(Text) - Len(w))
     /\ LET all == SplitAll(Text, w)
        IN  /\ Joined(all.tokens, w) \o all.rest = Text
            /\ CstrIndex(all.rest, w) = Npos
            /\ \A token \in ToSet(all.tokens) : CstrIndex(token, w) = Npos

\* str.h:147, "Invalid range, return the string unchanged".
InvalidRangeUnchanged ==
  [][\A start \in Offsets, n \in Count :
        Del(start, n) /\ start + n > str.length => UNCHANGED str]_vars
=============================================================================
