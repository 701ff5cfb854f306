---------------------------- MODULE MsgPackProofs ----------------------------
(***************************************************************************)
(* What msgpack::visit shows of what was packed, for all integers, sizes   *)
(* of strings, binaries and extensions, any containers in containers, any  *)
(* cut of the buffer and any visitor.                                      *)
(*                                                                         *)
(* EndOfBuffer follows from EInv: the position is behind the end if and    *)
(* only if a string that goes on there was shown.  The other properties    *)
(* follow from OInv, which tells what was packed as a row of values: where *)
(* each begins, the calls up to it and the containers open there.  Each    *)
(* kind of value is read back from its bytes (ChunkBack), and what visit   *)
(* has left to do follows the containers the client had open               *)
(* (FollowsOnward).                                                        *)
(***************************************************************************)
EXTENDS MsgPack, TLAPS, FiniteSetTheorems, SequenceTheorems

-----------------------------------------------------------------------------
\* Induction for loops.

\* A non-empty set of naturals has a least element: strict inclusion of the
\* finite sets 0 .. x - 1 is well-founded.
LEMMA LeastNatural ==
  ASSUME NEW Z \in SUBSET Nat, Z # {}
  PROVE  \E x \in Z : \A y \in Z : x <= y
<1> DEFINE Below(x) == 0 .. x - 1
           R == StrictSubsetOrdering(Nat)
           T == {Below(x) : x \in Z}
<1>1. IsWellFoundedOn(R, FiniteSubsetsOf(Nat))
  BY FS_StrictSubsetOrderingWellFounded
<1>2. T \subseteq FiniteSubsetsOf(Nat)
  <2>1. \A x \in Nat : x - 1 \in Int /\ IsFiniteSet(Below(x)) /\ Below(x) \in SUBSET Nat
    BY FS_Interval
  <2> QED
    BY <2>1 DEF FiniteSubsetsOf
<1>3. T # {}
  OBVIOUS
<1>4. \E s \in T : \A u \in T : ~(<<u, s>> \in R)
  <2> HIDE DEF T, R
  <2> QED BY <1>1, <1>2, <1>3, WFMin
<1>5. PICK x \in Z : \A y \in Z : ~(<<Below(y), Below(x)>> \in R)
  BY <1>4
<1>6. ASSUME NEW y \in Z, y < x PROVE FALSE
  <2>1. /\ Below(y) \subseteq Below(x) /\ y \in Below(x) /\ y \notin Below(y)
        /\ Below(x) \in SUBSET Nat /\ Below(y) \in SUBSET Nat
    BY <1>6
  <2>2. <<Below(y), Below(x)>> \in R
    <3> HIDE DEF Below
    <3> QED BY <2>1 DEF StrictSubsetOrdering
  <2> QED
    BY <1>5, <2>2
<1> QED
  BY <1>6

\* Induction up to a bound, for the set of the numbers that have the property.
LEMMA InductionUpTo ==
  ASSUME NEW n \in Nat, NEW Z, 0 \in Z,
         \A i \in 1 .. n : i - 1 \in Z => i \in Z
  PROVE  0 .. n \subseteq Z
<1> SUFFICES ASSUME NEW z \in 0 .. n, z \notin Z PROVE FALSE
  OBVIOUS
<1> DEFINE T == (0 .. n) \ Z
<1>1. PICK x \in T : \A y \in T : x <= y
  <2>1. T \in SUBSET Nat /\ T # {}
    OBVIOUS
  <2> HIDE DEF T
  <2> QED
    BY <2>1, LeastNatural
<1>2. x \in 1 .. n /\ x - 1 \in 0 .. n /\ ~(x <= x - 1)
  BY <1>1
<1> QED
  BY <1>1, <1>2

-----------------------------------------------------------------------------
\* The bytes of a number.

\* A number is 256 times its quotient and the byte that is left.
Divided(x, y, b) == y \in Int /\ b \in 0 .. 255 /\ 256 * y + b = x

LEMMA Division ==
  ASSUME NEW x \in Int
  PROVE  Divided(x, x \div 256, x % 256)
<1> DEFINE y == x \div 256
           b == x % 256
<1>1. x - b = 256 * y
  OBVIOUS
<1>2. y \in Int /\ b \in 0 .. 255
  OBVIOUS
<1> HIDE DEF y, b
<1>3. 256 * y + b = x
  BY <1>1, <1>2
<1> QED
  BY <1>2, <1>3, Zenon DEF Divided, y, b

\* A number that bytes spell, and one that goes on from another.
OfType(c, signed) == c \in Int /\ (~signed => c \in Nat)
GoesOn(a, c) == c \in Int /\ (a \in Nat => c \in Nat)

\* The next number of a row of bytes, ...
LEMMA NextNumber ==
  ASSUME NEW a \in Int, NEW b \in 0 .. 255, NEW c, c = 256 * a + b
  PROVE  GoesOn(a, c)
BY DEF GoesOn

\* ... and the first byte, with its sign.
LEMMA FirstNumber ==
  ASSUME NEW b \in 0 .. 255, NEW signed \in BOOLEAN,
         NEW c, c = IF signed /\ b >= 128 THEN b - 256 ELSE b
  PROVE  OfType(c, signed)
<1>1. CASE signed /\ b >= 128
  BY <1>1 DEF OfType
<1>2. CASE ~(signed /\ b >= 128)
  BY <1>2 DEF OfType
<1> QED
  BY <1>1, <1>2

\* The loop of swap_bigendian: each shift is a byte shorter.
LEMMA ShiftsLoop ==
  ASSUME NEW v \in Int, NEW w \in Nat \ {0}
  PROVE  /\ Shifts(v, w)[0] = v
         /\ \A i \in 1 .. w - 1 : Shifts(v, w)[i] = Shifts(v, w)[i - 1] \div 256
         /\ \A i \in 0 .. w - 1 : Shifts(v, w)[i] \in Int
<1> DEFINE n == w - 1
<1>1. n \in Nat
  OBVIOUS
<1> HIDE DEF n
<1> DEFINE Unfolds(g, j) == g = [i \in 0 .. j |-> IF i = 0 THEN v ELSE g[i - 1] \div 256]
           Z == {j \in Nat : \E g : Unfolds(g, j) /\ \A i \in 0 .. j : g[i] \in Int}
<1>2. 0 \in Z
  <2>1. Unfolds([i \in 0 .. 0 |-> v], 0)
    OBVIOUS
  <2> QED
    BY <2>1
<1>3. ASSUME NEW j \in 1 .. n, j - 1 \in Z PROVE j \in Z
  <2>1. PICK g : Unfolds(g, j - 1) /\ \A i \in 0 .. j - 1 : g[i] \in Int
    BY <1>3
  <2> DEFINE h == [i \in 0 .. j |-> IF i < j THEN g[i] ELSE g[j - 1] \div 256]
  <2>2. ASSUME NEW i \in 0 .. j
        PROVE  h[i] = (IF i = 0 THEN v ELSE h[i - 1] \div 256) /\ h[i] \in Int
    <3>1. CASE i < j
      BY <1>1, <2>1, <3>1
    <3>2. CASE i = j
      <4>1. h[i] = g[j - 1] \div 256 /\ h[i - 1] = g[j - 1] /\ i # 0
        BY <1>1, <3>2
      <4>2. g[j - 1] \in Int
        <5>1. j - 1 \in 0 .. j - 1
          BY <1>1
        <5> QED
          BY <2>1, <5>1
      <4>3. h[i] \in Int
        <5> HIDE DEF h
        <5> QED
          BY <4>1, <4>2, \A x \in Int : x \div 256 \in Int
      <4> QED
        BY <4>1, <4>3, Zenon
    <3> QED
      BY <1>1, <3>1, <3>2
  <2>3. h = [i \in 0 .. j |-> h[i]]
    OBVIOUS
  <2> HIDE DEF h
  <2>4. Unfolds(h, j) /\ \A i \in 0 .. j : h[i] \in Int
    BY <2>2, <2>3
  <2> HIDE DEF Unfolds
  <2> QED
    BY <1>1, <2>4
<1> HIDE DEF Z
<1>4. n \in Z
  BY <1>1, <1>2, <1>3, InductionUpTo
<1>5. PICK g : Unfolds(g, n) /\ \A i \in 0 .. n : g[i] \in Int
  BY <1>4 DEF Z
<1>6. Shifts(v, w) = [i \in 0 .. n |-> IF i = 0 THEN v ELSE Shifts(v, w)[i - 1] \div 256]
  <2>1. \E u : u = [i \in 0 .. n |-> IF i = 0 THEN v ELSE u[i - 1] \div 256]
    BY <1>5, Zenon
  <2> QED
    BY <2>1, Zenon DEF Shifts, n
<1> HIDE DEF Unfolds
<1>7. ASSUME NEW i \in 0 .. n PROVE Shifts(v, w)[i] \in Int
  <2> DEFINE Y == {i_1 \in 0 .. n : Shifts(v, w)[i_1] \in Int}
  <2>1. 0 \in Y
    BY <1>1, <1>6
  <2>2. ASSUME NEW j \in 1 .. n, j - 1 \in Y PROVE j \in Y
    <3>1. Shifts(v, w)[j] = Shifts(v, w)[j - 1] \div 256 /\ Shifts(v, w)[j - 1] \in Int /\ j \in 0 .. n
      BY <1>1, <1>6, <2>2
    <3>2. \A x \in Int : x \div 256 \in Int
      OBVIOUS
    <3> QED
      BY <3>1, <3>2
  <2> HIDE DEF Y
  <2>3. 0 .. n \subseteq Y
    BY <1>1, <2>1, <2>2, InductionUpTo
  <2> QED
    BY <2>3 DEF Y
<1> QED
  BY <1>1, <1>6, <1>7 DEF n

\* The bytes of a number are bytes, as many as asked for.
LEMMA BytesAre ==
  ASSUME NEW v \in Int, NEW w \in Nat \ {0}
  PROVE  /\ Bytes(v, w) \in Seq(0 .. 255) /\ Len(Bytes(v, w)) = w
         /\ \A i \in 1 .. w : Bytes(v, w)[i] = Shifts(v, w)[w - i] % 256
<1>1. \A i \in 1 .. w : w - i \in 0 .. w - 1
  OBVIOUS
<1>2. \A x \in Int : x % 256 \in 0 .. 255
  OBVIOUS
<1>3. \A i \in 1 .. w : Shifts(v, w)[w - i] % 256 \in 0 .. 255
  <2>1. \A i \in 0 .. w - 1 : Shifts(v, w)[i] \in Int
    BY ShiftsLoop, Zenon
  <2> QED
    BY <1>1, <1>2, <2>1, Zenon
<1> QED
  BY <1>3 DEF Bytes

\* g[i] is the number that the first i bytes spell.
Spells(g, s, signed) ==
  /\ g[1] = IF signed /\ s[1] >= 128 THEN s[1] - 256 ELSE s[1]
  /\ \A i \in 2 .. Len(s) : g[i] = 256 * g[i - 1] + s[i]
  /\ \A i \in 1 .. Len(s) : g[i] \in Int /\ (~signed => g[i] \in Nat)

\* The loop that puts a number together from its bytes.
LEMMA NumberLoop ==
  ASSUME NEW s \in Seq(0 .. 255), Len(s) # 0, NEW signed \in BOOLEAN
  PROVE  Spells(NumberUpTo(s, signed), s, signed)
<1> DEFINE n == Len(s)
           First == IF signed /\ s[1] >= 128 THEN s[1] - 256 ELSE s[1]
<1>0. n \in Nat /\ n # 0
  BY LenProperties
<1>1. n \in Nat /\ n # 0 /\ \A i \in 1 .. n : s[i] \in 0 .. 255
  BY <1>0, ElementOfSeq
<1>2. First \in Int /\ (~signed => First \in Nat)
  <2>1. s[1] \in 0 .. 255
    BY <1>1
  <2>2. OfType(First, signed)
    BY <2>1, FirstNumber, Zenon
  <2> HIDE DEF First
  <2> QED
    BY <2>2, Zenon DEF OfType
<1> HIDE DEF n, First
<1> DEFINE Unfolds(g, j) == g = [i \in 1 .. j |-> IF i > 1 THEN 256 * g[i - 1] + s[i] ELSE First]
           Z == {j \in Nat : \E g : Unfolds(g, j)}
<1>3. 0 \in Z
  <2>1. Unfolds([i \in 1 .. 0 |-> 0], 0)
    OBVIOUS
  <2> QED
    BY <2>1
<1>4. ASSUME NEW j \in 1 .. n, j - 1 \in Z PROVE j \in Z
  <2>1. PICK g : Unfolds(g, j - 1)
    BY <1>4
  <2> DEFINE h == [i \in 1 .. j |-> IF i < j THEN g[i] ELSE IF j > 1 THEN 256 * g[j - 1] + s[j] ELSE First]
  <2>2. ASSUME NEW i \in 1 .. j
        PROVE  h[i] = IF i > 1 THEN 256 * h[i - 1] + s[i] ELSE First
    BY <1>1, <2>1
  <2>3. h = [i \in 1 .. j |-> h[i]]
    OBVIOUS
  <2> HIDE DEF h
  <2>4. Unfolds(h, j)
    BY <2>2, <2>3
  <2> QED
    BY <1>1, <2>4
<1> HIDE DEF Z
<1>5. n \in Z
  <2>1. 0 .. n \subseteq Z
    BY <1>0, <1>3, <1>4, InductionUpTo, Zenon
  <2>2. n \in 0 .. n
    BY <1>0
  <2> QED
    BY <2>1, <2>2
<1>6. \E g : g = [i \in 1 .. n |-> IF i > 1 THEN 256 * g[i - 1] + s[i] ELSE First]
  BY <1>5 DEF Z
<1>7. NumberUpTo(s, signed) = [i \in 1 .. n |-> IF i > 1 THEN 256 * NumberUpTo(s, signed)[i - 1] + s[i] ELSE First]
  BY <1>6 DEF NumberUpTo, n, First
<1> DEFINE g == NumberUpTo(s, signed)
           Y == {i \in 0 .. n : i = 0 \/ (g[i] \in Int /\ (~signed => g[i] \in Nat))}
<1>8. /\ g[1] = First
      /\ \A i \in 2 .. n : g[i] = 256 * g[i - 1] + s[i]
  BY <1>1, <1>7
<1> HIDE DEF g
<1>9. 0 \in Y
  BY <1>1
<1>10. ASSUME NEW i \in 1 .. n, i - 1 \in Y PROVE i \in Y
  <2>1. CASE i = 1
    BY <1>1, <1>2, <1>8, <2>1
  <2>2. CASE i # 1
    <3>1. g[i] = 256 * g[i - 1] + s[i] /\ s[i] \in 0 .. 255 /\ i - 1 # 0
      BY <1>1, <1>8, <2>2
    <3>2. g[i - 1] \in Int /\ (~signed => g[i - 1] \in Nat)
      BY <1>10, <3>1
    <3>3. GoesOn(g[i - 1], g[i])
      BY <3>1, <3>2, NextNumber, Zenon
    <3>4. g[i] \in Int /\ (~signed => g[i] \in Nat)
      BY <3>2, <3>3, Zenon DEF GoesOn
    <3>5. i \in 0 .. n
      BY <1>0
    <3> QED
      BY <3>4, <3>5
  <2> QED
    BY <2>1, <2>2
<1> HIDE DEF Y
<1>11. 0 .. n \subseteq Y
  BY <1>1, <1>9, <1>10, InductionUpTo
<1>12. \A i \in 1 .. n : g[i] \in Int /\ (~signed => g[i] \in Nat)
  BY <1>1, <1>11 DEF Y
<1> QED
  BY <1>8, <1>12 DEF g, n, First, Spells

\* Bytes spell an integer, a natural number when there is no sign.
LEMMA NumberTyped ==
  ASSUME NEW s \in Seq(0 .. 255), Len(s) # 0, NEW signed \in BOOLEAN
  PROVE  OfType(Number(s, signed), signed)
<1>1. Len(s) \in 1 .. Len(s)
  BY LenProperties
<1>2. Spells(NumberUpTo(s, signed), s, signed)
  BY NumberLoop
<1> QED
  BY <1>1, <1>2, Zenon DEF Number, Spells, OfType

\* A number that fits is the one its bytes spell.
LEMMA NumberOfBytes ==
  ASSUME NEW v \in Int, NEW w \in Nat \ {0}, NEW signed \in BOOLEAN, Fits(v, w, signed)
  PROVE  Number(Bytes(v, w), signed) = v
<1> DEFINE s == Bytes(v, w)
           h == Shifts(v, w)
           g == NumberUpTo(s, signed)
           n == w - 1
           Z == {i \in 0 .. n : g[i + 1] = h[n - i]}
<1>1. /\ s \in Seq(0 .. 255) /\ Len(s) = w
      /\ \A i \in 1 .. w : s[i] = h[w - i] % 256
  BY BytesAre
<1>2. h[0] = v /\ (\A i \in 1 .. n : h[i] = h[i - 1] \div 256) /\ \A i \in 0 .. n : h[i] \in Int
  BY ShiftsLoop
<1>3. h[n] \in IF signed THEN -128 .. 127 ELSE 0 .. 255
  BY DEF Fits
<1> HIDE DEF s, h
<1>4. /\ g[1] = IF signed /\ s[1] >= 128 THEN s[1] - 256 ELSE s[1]
      /\ \A i \in 2 .. w : g[i] = 256 * g[i - 1] + s[i]
  <2>1. Len(s) # 0
    BY <1>1
  <2>2. Spells(g, s, signed)
    BY <1>1, <2>1, NumberLoop
  <2> QED
    BY <1>1, <2>2, Zenon DEF Spells
<1>5. Number(s, signed) = g[w]
  BY <1>1 DEF Number
<1> HIDE DEF g
<1>6. n \in Nat /\ n + 1 = w /\ w - 1 = n
  OBVIOUS
<1> HIDE DEF n
<1>7. 0 \in Z
  <2>1. s[1] = h[n] % 256 /\ h[n] \in Int
    BY <1>1, <1>2, <1>6
  <2>2. g[1] = h[n]
    BY <1>3, <1>4, <2>1
  <2> QED
    BY <1>6, <2>2
<1>8. ASSUME NEW i \in 1 .. n, i - 1 \in Z PROVE i \in Z
  <2>1. g[i] = h[n - i + 1]
    <3>1. (i - 1) + 1 = i /\ n - (i - 1) = n - i + 1
      BY <1>6
    <3> QED
      BY <1>8, <3>1
  <2>2. h[n - i + 1] = h[n - i] \div 256 /\ h[n - i] \in Int
    <3>1. n - i + 1 \in 1 .. n /\ n - i \in 0 .. n /\ (n - i + 1) - 1 = n - i
      BY <1>6
    <3> QED
      BY <1>2, <3>1
  <2>3. g[i + 1] = 256 * g[i] + s[i + 1] /\ s[i + 1] = h[n - i] % 256
    <3>1. i + 1 \in 2 .. w /\ i + 1 \in 1 .. w /\ w - (i + 1) = n - i /\ (i + 1) - 1 = i
      BY <1>6
    <3>2. g[i + 1] = 256 * g[(i + 1) - 1] + s[i + 1]
      BY <1>4, <3>1
    <3>3. s[i + 1] = h[w - (i + 1)] % 256
      BY <1>1, <3>1
    <3> QED
      BY <3>1, <3>2, <3>3, Zenon
  <2>5. g[i + 1] = h[n - i]
    <3>1. g[i] = h[n - i] \div 256
      BY <2>1, <2>2
    <3>2. 256 * g[i] + s[i + 1] = h[n - i]
      <4>1. Divided(h[n - i], h[n - i] \div 256, h[n - i] % 256)
        BY <2>2, Division, Zenon
      <4>2. 256 * (h[n - i] \div 256) + (h[n - i] % 256) = h[n - i]
        BY <4>1, Zenon DEF Divided
      <4>3. s[i + 1] = h[n - i] % 256
        BY <2>3
      <4> QED
        BY <3>1, <4>2, <4>3, Zenon
    <3> QED
      BY <2>3, <3>2, Zenon
  <2> QED
    BY <1>6, <2>5
<1> HIDE DEF Z
<1>9. 0 .. n \subseteq Z
  BY <1>6, <1>7, <1>8, InductionUpTo
<1>10. g[n + 1] = h[n - n]
  BY <1>6, <1>9 DEF Z
<1> QED
  BY <1>2, <1>5, <1>6, <1>10 DEF s

\* The lengths that pack_bin and pack_aggregate choose a width for.
IsLength(n, w) == Fits(n, w, FALSE)

\* A length below 256 fits a byte and one below 65536 two.
LEMMA LengthsFit ==
  ASSUME NEW n \in Nat
  PROVE  /\ n <= 255 => IsLength(n, 1)
         /\ n <= 65535 => IsLength(n, 2)
<1>1. Shifts(n, 1)[0] = n /\ Shifts(n, 2)[0] = n
  BY ShiftsLoop
<1>2. Shifts(n, 2)[1] = n \div 256
  <2>1. 1 \in 1 .. 2 - 1 /\ 1 - 1 = 0
    OBVIOUS
  <2> QED
    BY <1>1, <2>1, ShiftsLoop
<1>3. n <= 65535 => n \div 256 \in 0 .. 255
  OBVIOUS
<1>4. 1 - 1 = 0 /\ 2 - 1 = 1
  OBVIOUS
<1> QED
  BY <1>1, <1>2, <1>3, <1>4 DEF Fits, IsLength
-----------------------------------------------------------------------------
\* The calls to a visitor, and what is left to do around a value.

VisitNext == <<"visit">>
Kinds == {"array", "map"}
\* The call at the start or the end of a part.
Edge(e, kind, i) == <<e>> \o Part(kind, i)
Around == {Edge(e, kind, i) : e \in {"start", "end"}, kind \in Kinds, i \in Nat}
            \cup {<<"end", kind>> : kind \in Kinds}
Todo == Around \cup {VisitNext}

\* t is a and then b.
Joins(T, a, b, t) ==
  /\ t \in Seq(T) /\ Len(t) = Len(a) + Len(b)
  /\ \A k \in 1 .. Len(a) + Len(b) : t[k] = IF k <= Len(a) THEN a[k] ELSE b[k - Len(a)]

\* The items of a concatenation.
LEMMA Concatenated ==
  ASSUME NEW T, NEW a \in Seq(T), NEW b \in Seq(T)
  PROVE  Joins(T, a, b, a \o b)
<1>1. /\ a \o b \in Seq(T) /\ Len(a \o b) = Len(a) + Len(b)
      /\ \A k \in 1 .. Len(a) + Len(b) : (a \o b)[k] = IF k <= Len(a) THEN a[k] ELSE b[k - Len(a)]
  BY ConcatProperties
<1> QED
  BY <1>1, Zenon DEF Joins

\* What a call around a part looks like.
Bracket(call) == Len(call) = 3 /\ call[1] \in {"start", "end"} /\ call[2] \in {"array_item", "map_key", "map_value"}

Tri(e, s, x) == <<e>> \o <<s, x>>

\* A call around a part is a triple.
LEMMA TripleLength ==
  ASSUME NEW e, NEW s, NEW x
  PROVE  Len(Tri(e, s, x)) = 3
BY DEF Tri

\* Its event and its kind of part.
LEMMA TripleItems ==
  ASSUME NEW e, NEW s, NEW x
  PROVE  /\ Tri(e, s, x)[1] = e
         /\ Tri(e, s, x)[2] = s
BY DEF Tri

\* So it looks like one.
LEMMA Triple ==
  ASSUME NEW e \in {"start", "end"}, NEW s \in {"array_item", "map_key", "map_value"}, NEW x
  PROVE  Bracket(Tri(e, s, x))
BY TripleLength, TripleItems DEF Bracket

\* A part has a name and a number.
LEMMA PartIs ==
  ASSUME NEW kind, NEW i
  PROVE  \E s \in {"array_item", "map_key", "map_value"} : \E x : Part(kind, i) = <<s, x>>
<1>1. CASE kind = "array"
  BY <1>1 DEF Part
<1>2. CASE kind # "array" /\ i % 2 = 0
  BY <1>2 DEF Part
<1>3. CASE kind # "array" /\ i % 2 # 0
  BY <1>3 DEF Part
<1> QED
  BY <1>1, <1>2, <1>3

\* What looks like a call around a part is no value and no visit.
LEMMA BracketIs ==
  ASSUME NEW call, Bracket(call)
  PROVE  call # VisitNext /\ ~IsValue(call) /\ ~Beyond(call)
<1>1. Len(VisitNext) = 1
  BY DEF VisitNext
<1>2. Len(call) = 3 /\ call[1] \in {"start", "end"} /\ call[2] \in {"array_item", "map_key", "map_value"}
  BY DEF Bracket
<1>3. call # VisitNext
  <2>1. Len(call) # Len(VisitNext)
    <3>1. Len(call) = 3
      BY <1>2
    <3> QED
      BY <1>1, <3>1
  <2> QED
    BY <2>1, Zenon
<1> QED
  BY <1>2, <1>3 DEF IsValue, Beyond

\* The calls around the parts are no values and no visits.
LEMMA AroundIs ==
  ASSUME NEW call \in Around
  PROVE  call # VisitNext /\ ~IsValue(call) /\ ~Beyond(call)
<1>1. CASE call \in {<<"end", kind>> : kind \in Kinds}
  BY <1>1 DEF VisitNext, IsValue, Beyond
<1>2. CASE call \in {Edge(e, kind, i) : e \in {"start", "end"}, kind \in Kinds, i \in Nat}
  <2>1. PICK e \in {"start", "end"}, kind \in Kinds, i \in Nat : call = Edge(e, kind, i)
    BY <1>2
  <2>2. PICK s \in {"array_item", "map_key", "map_value"} : \E x : Part(kind, i) = <<s, x>>
    BY PartIs, Zenon
  <2>3. Bracket(call)
    BY <2>1, <2>2, Triple, Zenon DEF Edge, Tri
  <2> QED
    BY <2>3, BracketIs
<1> QED
  BY <1>1, <1>2 DEF Around

\* The rest of a container: kind, with that many parts.
Agenda(kind, parts) ==
  FlattenSeq([i \in 1 .. parts |->
                << Edge("start", kind, i - 1), VisitNext, Edge("end", kind, i - 1) >>])
    \o << <<"end", kind>> >>

\* Its first i parts.
PartsDone(t, kind, i) ==
  /\ t \in Seq(Todo) /\ Len(t) = 3 * i
  /\ \A j \in 0 .. i - 1 : /\ t[3 * j + 1] = Edge("start", kind, j)
                           /\ t[3 * j + 2] = VisitNext
                           /\ t[3 * j + 3] = Edge("end", kind, j)

Longer(t, a, kind, i) == PartsDone(t \o a, kind, i)

\* The agenda of i parts is that of i - 1 and three things more.
LEMMA OnePartMore ==
  ASSUME NEW kind \in Kinds, NEW i \in Nat \ {0}, NEW t, PartsDone(t, kind, i - 1),
         NEW a, a = << Edge("start", kind, i - 1), VisitNext, Edge("end", kind, i - 1) >>
  PROVE  Longer(t, a, kind, i)
<1> DEFINE st == Edge("start", kind, i - 1)
           en == Edge("end", kind, i - 1)
<1>1. i - 1 \in Nat
  OBVIOUS
<1>2. st \in Todo /\ en \in Todo /\ VisitNext \in Todo
  BY <1>1 DEF Todo, Around
<1> HIDE DEF st, en
<1>3. a = <<st, VisitNext, en>>
  BY DEF st, en
<1>4. a \in Seq(Todo) /\ Len(a) = 3 /\ a[1] = st /\ a[2] = VisitNext /\ a[3] = en
  <2> DEFINE b == <<st, VisitNext, en>>
  <2>1. b \in Seq(Todo) /\ Len(b) = 3 /\ b[1] = st /\ b[2] = VisitNext /\ b[3] = en
    BY <1>2
  <2> HIDE DEF b
  <2>2. a = b
    BY <1>3 DEF b
  <2> QED
    BY <2>1, <2>2
<1>5. /\ t \in Seq(Todo) /\ Len(t) = 3 * (i - 1)
      /\ \A j \in 0 .. (i - 1) - 1 : /\ t[3 * j + 1] = Edge("start", kind, j)
                                     /\ t[3 * j + 2] = VisitNext
                                     /\ t[3 * j + 3] = Edge("end", kind, j)
  BY Zenon DEF PartsDone
<1> DEFINE u == t \o a
<1>6. /\ u \in Seq(Todo) /\ Len(u) = Len(t) + Len(a)
      /\ \A k \in 1 .. Len(t) + Len(a) : u[k] = IF k <= Len(t) THEN t[k] ELSE a[k - Len(t)]
  <2>1. Joins(Todo, t, a, u)
    BY <1>4, <1>5, Concatenated, Zenon
  <2> HIDE DEF u
  <2> QED
    BY <2>1, Zenon DEF Joins
<1> HIDE DEF u
<1>7. Len(u) = 3 * i /\ Len(t) + Len(a) = 3 * i
  BY <1>4, <1>5, <1>6
<1>8. ASSUME NEW j \in 0 .. i - 1
      PROVE  /\ u[3 * j + 1] = Edge("start", kind, j)
             /\ u[3 * j + 2] = VisitNext
             /\ u[3 * j + 3] = Edge("end", kind, j)
  <2>1. CASE j < i - 1
    <3>1. /\ j \in 0 .. (i - 1) - 1
          /\ 3 * j + 1 \in 1 .. 3 * i /\ 3 * j + 2 \in 1 .. 3 * i /\ 3 * j + 3 \in 1 .. 3 * i
          /\ 3 * j + 1 <= 3 * (i - 1) /\ 3 * j + 2 <= 3 * (i - 1) /\ 3 * j + 3 <= 3 * (i - 1)
      BY <2>1
    <3>2. u[3 * j + 1] = t[3 * j + 1] /\ u[3 * j + 2] = t[3 * j + 2] /\ u[3 * j + 3] = t[3 * j + 3]
      BY <1>5, <1>6, <1>7, <3>1
    <3> QED
      BY <1>5, <3>1, <3>2, Zenon
  <2>2. CASE j = i - 1
    <3>1. /\ 3 * j + 1 \in 1 .. 3 * i /\ 3 * j + 2 \in 1 .. 3 * i /\ 3 * j + 3 \in 1 .. 3 * i
          /\ ~(3 * j + 1 <= 3 * (i - 1)) /\ ~(3 * j + 2 <= 3 * (i - 1)) /\ ~(3 * j + 3 <= 3 * (i - 1))
          /\ 3 * j + 1 - 3 * (i - 1) = 1 /\ 3 * j + 2 - 3 * (i - 1) = 2 /\ 3 * j + 3 - 3 * (i - 1) = 3
      BY <2>2
    <3>2. u[3 * j + 1] = a[1] /\ u[3 * j + 2] = a[2] /\ u[3 * j + 3] = a[3]
      BY <1>5, <1>6, <1>7, <3>1
    <3> QED
      BY <1>4, <2>2, <3>2, Zenon DEF st, en
  <2> QED
    BY <2>1, <2>2
<1>9. PartsDone(u, kind, i)
  BY <1>6, <1>7, <1>8 DEF PartsDone
<1> QED
  BY <1>9, Zenon DEF u, Longer

\* Nothing comes before the first part.
LEMMA EmptyFirst ==
  ASSUME NEW x, NEW y, NEW z
  PROVE  <<>> \o <<x, y, z>> = <<x, y, z>>
<1> DEFINE s == <<x, y, z>>
<1>1. s \in Seq({x, y, z})
  OBVIOUS
<1> HIDE DEF s
<1>2. <<>> \o s = s
  BY <1>1, ConcatEmptySeq
<1> QED
  BY <1>2 DEF s

\* FlattenSeq joins its sequences one after the other.
LEMMA FlattenLoop ==
  ASSUME NEW ss, NEW n \in Nat \ {0}, Len(ss) = n
  PROVE  \E f : /\ FlattenSeq(ss) = f[n] /\ f[1] = ss[1]
                /\ \A i \in 2 .. n : f[i] = f[i - 1] \o ss[i]
<1> DEFINE Unfolds(g, j) == g = [i \in 1 .. j |-> IF i = 1 THEN ss[i] ELSE g[i - 1] \o ss[i]]
           Z == {j \in Nat : \E g : Unfolds(g, j)}
<1>1. n \in Nat
  OBVIOUS
<1>2. 0 \in Z
  <2>1. Unfolds([i \in 1 .. 0 |-> 0], 0)
    OBVIOUS
  <2> QED
    BY <2>1
<1>3. ASSUME NEW j \in 1 .. n, j - 1 \in Z PROVE j \in Z
  <2>1. PICK g : Unfolds(g, j - 1)
    BY <1>3
  <2> DEFINE h == [i \in 1 .. j |-> IF i < j THEN g[i] ELSE IF j = 1 THEN ss[j] ELSE g[j - 1] \o ss[j]]
  <2>2. ASSUME NEW i \in 1 .. j
        PROVE  h[i] = IF i = 1 THEN ss[i] ELSE h[i - 1] \o ss[i]
    <3>1. CASE i < j
      <4>1. h[i] = g[i] /\ (i # 1 => h[i - 1] = g[i - 1])
        BY <3>1
      <4> DEFINE G(k) == IF k = 1 THEN ss[k] ELSE g[k - 1] \o ss[k]
      <4>2. g[i] = G(i)
        <5>1. g = [k \in 1 .. j - 1 |-> G(k)]
          BY <2>1
        <5> HIDE DEF G
        <5> QED
          BY <3>1, <5>1
      <4> HIDE DEF h
      <4> QED
        BY <4>1, <4>2
    <3>2. CASE i = j
      <4>1. h[i] = (IF j = 1 THEN ss[j] ELSE g[j - 1] \o ss[j]) /\ (i # 1 => h[i - 1] = g[i - 1])
        BY <3>2
      <4> HIDE DEF h
      <4> QED
        BY <3>2, <4>1
    <3> QED
      BY <3>1, <3>2
  <2>3. h = [i \in 1 .. j |-> h[i]]
    OBVIOUS
  <2> HIDE DEF h
  <2>4. Unfolds(h, j)
    BY <2>2, <2>3
  <2> HIDE DEF Unfolds
  <2> QED
    BY <1>1, <2>4
<1>4. n \in Z
  <2> HIDE DEF Z
  <2>1. 0 .. n \subseteq Z
    BY <1>1, <1>2, <1>3, InductionUpTo
  <2> QED
    BY <2>1
<1>5. \E g : g = [i \in 1 .. n |-> IF i = 1 THEN ss[i] ELSE g[i - 1] \o ss[i]]
  BY <1>4
<1> DEFINE f == CHOOSE g : g = [i \in 1 .. n |-> IF i = 1 THEN ss[i] ELSE g[i - 1] \o ss[i]]
<1>6. f = [i \in 1 .. n |-> IF i = 1 THEN ss[i] ELSE f[i - 1] \o ss[i]]
  BY <1>5
<1>7. FlattenSeq(ss) = f[n]
  BY DEF FlattenSeq
<1> HIDE DEF f
<1> DEFINE F(i) == IF i = 1 THEN ss[i] ELSE f[i - 1] \o ss[i]
<1>8. f[1] = ss[1] /\ \A i \in 2 .. n : f[i] = f[i - 1] \o ss[i]
  <2>1. \A i \in 1 .. n : f[i] = F(i)
    <3>1. f = [i \in 1 .. n |-> F(i)]
      BY <1>6
    <3> HIDE DEF F
    <3> QED
      BY <3>1
  <2>2. 1 \in 1 .. n /\ \A i \in 2 .. n : i \in 1 .. n /\ i # 1
    OBVIOUS
  <2> QED
    BY <2>1, <2>2, Zenon
<1> QED
  BY <1>7, <1>8

\* The agenda of a container is its parts and then the end.
LEMMA AgendaIs ==
  ASSUME NEW kind \in Kinds, NEW n \in Nat
  PROVE  \E t : PartsDone(t, kind, n) /\ Agenda(kind, n) = t \o << <<"end", kind>> >>
<1> DEFINE ss == [i \in 1 .. n |-> << Edge("start", kind, i - 1), VisitNext, Edge("end", kind, i - 1) >>]
           t == FlattenSeq(ss)
<1>1. Agenda(kind, n) = t \o << <<"end", kind>> >>
  BY DEF Agenda
<1>2. CASE n = 0
  <2>1. ss = <<>>
    BY <1>2
  <2>2. t = <<>>
    BY <2>1 DEF FlattenSeq
  <2>3. PartsDone(<<>>, kind, 0)
    BY DEF PartsDone
  <2> QED
    BY <1>1, <1>2, <2>2, <2>3, Zenon
<1>3. CASE n # 0
  <2>1. n \in Nat \ {0} /\ Len(ss) = n
    BY <1>3
  <2>2. \A i \in 1 .. n : ss[i] = << Edge("start", kind, i - 1), VisitNext, Edge("end", kind, i - 1) >>
    OBVIOUS
  <2> HIDE DEF ss
  <2>3. PICK f : /\ t = f[n] /\ f[1] = ss[1]
                 /\ \A i \in 2 .. n : f[i] = f[i - 1] \o ss[i]
    BY <2>1, FlattenLoop
  <2> DEFINE Z == {i \in 0 .. n : i = 0 \/ PartsDone(f[i], kind, i)}
  <2>4. 0 \in Z
    OBVIOUS
  <2>5. ASSUME NEW i \in 1 .. n, i - 1 \in Z PROVE i \in Z
    <3>1. CASE i = 1
      <4>1. PartsDone(<<>>, kind, i - 1)
        BY <3>1 DEF PartsDone
      <4>2. Longer(<<>>, ss[i], kind, i)
        <5>1. i \in Nat \ {0}
          OBVIOUS
        <5> QED
          BY <2>2, <4>1, <5>1, OnePartMore, Zenon
      <4>3. <<>> \o ss[i] = ss[i]
        BY <2>2, EmptyFirst, Zenon
      <4>4. PartsDone(ss[i], kind, i)
        BY <4>2, <4>3, Zenon DEF Longer
      <4> QED
        BY <2>3, <3>1, <4>4
    <3>2. CASE i # 1
      <4>1. PartsDone(f[i - 1], kind, i - 1)
        BY <2>5, <3>2
      <4>2. Longer(f[i - 1], ss[i], kind, i)
        BY <2>2, <4>1, OnePartMore
      <4>3. f[i] = f[i - 1] \o ss[i]
        <5>1. i \in 2 .. n
          BY <3>2
        <5> QED
          BY <2>3, <5>1, Zenon
      <4>4. PartsDone(f[i], kind, i)
        BY <4>2, <4>3, Zenon DEF Longer
      <4> QED
        BY <4>4
    <3> QED
      BY <3>1, <3>2
  <2> HIDE DEF Z
  <2>6. 0 .. n \subseteq Z
    BY <2>4, <2>5, InductionUpTo
  <2>7. PartsDone(t, kind, n)
    BY <2>1, <2>3, <2>6 DEF Z
  <2> QED
    BY <1>1, <2>7
<1> QED
  BY <1>2, <1>3

-----------------------------------------------------------------------------
\* Containers in containers: what is left to do in all of them.

Container == [kind : Kinds, parts : Nat \ {0}, done : Nat]

\* What is left of the agenda of c once the part it is in was visited.
RestFrom(c) == SubSeq(Agenda(c.kind, c.parts), 3 * c.done + 3, 3 * c.parts + 1)
NextPart(c) == [c EXCEPT !.done = @ + 1]

\* So what stands at each place of it is known.
LEMMA AgendaItems ==
  ASSUME NEW kind \in Kinds, NEW n \in Nat
  PROVE  /\ Agenda(kind, n) \in Seq(Todo) /\ Len(Agenda(kind, n)) = 3 * n + 1 /\ Agenda(kind, n)[3 * n + 1] = <<"end", kind>>
         /\ \A j \in 0 .. n - 1 : /\ Agenda(kind, n)[3 * j + 1] = Edge("start", kind, j)
                                  /\ Agenda(kind, n)[3 * j + 2] = VisitNext
                                  /\ Agenda(kind, n)[3 * j + 3] = Edge("end", kind, j)
<1> DEFINE t == Agenda(kind, n)
           last == <<"end", kind>>
           a == <<last>>
<1>1. PICK s : PartsDone(s, kind, n) /\ Agenda(kind, n) = s \o a
  BY AgendaIs
<1>2. last \in Todo
  BY DEF Todo, Around
<1> HIDE DEF last
<1>3. a \in Seq(Todo) /\ Len(a) = 1 /\ a[1] = last
  BY <1>2
<1> HIDE DEF a
<1>4. /\ s \in Seq(Todo) /\ Len(s) = 3 * n
      /\ \A j \in 0 .. n - 1 : /\ s[3 * j + 1] = Edge("start", kind, j)
                               /\ s[3 * j + 2] = VisitNext
                               /\ s[3 * j + 3] = Edge("end", kind, j)
  BY <1>1, Zenon DEF PartsDone
<1> HIDE DEF t
<1>5. Joins(Todo, s, a, t)
  <2>1. Joins(Todo, s, a, s \o a)
    BY <1>3, <1>4, Concatenated
  <2> QED
    BY <1>1, <2>1, Zenon DEF t
<1>6. /\ t \in Seq(Todo) /\ Len(t) = Len(s) + Len(a)
      /\ \A k \in 1 .. Len(s) + Len(a) : t[k] = IF k <= Len(s) THEN s[k] ELSE a[k - Len(s)]
  BY <1>5, Zenon DEF Joins
<1>7. Len(s) + Len(a) = 3 * n + 1
  BY <1>3, <1>4
<1>8. t[3 * n + 1] = last
  <2>1. 3 * n + 1 \in 1 .. 3 * n + 1 /\ ~(3 * n + 1 <= 3 * n) /\ 3 * n + 1 - 3 * n = 1
    OBVIOUS
  <2> QED
    BY <1>3, <1>4, <1>6, <1>7, <2>1
<1>9. ASSUME NEW j \in 0 .. n - 1
      PROVE  t[3 * j + 1] = s[3 * j + 1] /\ t[3 * j + 2] = s[3 * j + 2] /\ t[3 * j + 3] = s[3 * j + 3]
  <2>1. /\ 3 * j + 1 \in 1 .. 3 * n + 1 /\ 3 * j + 2 \in 1 .. 3 * n + 1 /\ 3 * j + 3 \in 1 .. 3 * n + 1
        /\ 3 * j + 1 <= 3 * n /\ 3 * j + 2 <= 3 * n /\ 3 * j + 3 <= 3 * n
    OBVIOUS
  <2> QED
    BY <1>4, <1>6, <1>7, <2>1
<1>10. \A j \in 0 .. n - 1 : /\ t[3 * j + 1] = Edge("start", kind, j)
                             /\ t[3 * j + 2] = VisitNext
                             /\ t[3 * j + 3] = Edge("end", kind, j)
  BY <1>4, <1>9, Zenon
<1> QED
  BY <1>6, <1>7, <1>8, <1>10, Zenon DEF last, t

\* Concatenation, with what is needed of it here.
Cat(a, b) == a \o b

\* The type and the length of a concatenation.
LEMMA CatTyped ==
  ASSUME NEW T, NEW a \in Seq(T), NEW b \in Seq(T)
  PROVE  Cat(a, b) \in Seq(T) /\ Len(Cat(a, b)) = Len(a) + Len(b)
BY ConcatProperties DEF Cat

\* Nothing is joined.
LEMMA CatEmpty ==
  ASSUME NEW T, NEW a \in Seq(T)
  PROVE  Cat(<<>>, a) = a /\ Cat(a, <<>>) = a
BY ConcatEmptySeq DEF Cat

\* Concatenation is associative.
LEMMA CatAssoc ==
  ASSUME NEW T, NEW a \in Seq(T), NEW b \in Seq(T), NEW c \in Seq(T)
  PROVE  Cat(Cat(a, b), c) = Cat(a, Cat(b, c))
<1>1. (a \o b) \o c = a \o (b \o c)
  BY ConcatAssociative
<1> QED
  BY <1>1, Zenon DEF Cat

\* A sequence of one.
LEMMA One ==
  ASSUME NEW T, NEW x \in T
  PROVE  <<x>> \in Seq(T) /\ Len(<<x>>) = 1 /\ <<x>>[1] = x
OBVIOUS

\* ... also behind a single item.
LEMMA CatAssocOne ==
  ASSUME NEW T, NEW x \in T, NEW b \in Seq(T), NEW c \in Seq(T)
  PROVE  Cat(Cat(<<x>>, b), c) = Cat(<<x>>, Cat(b, c))
<1> DEFINE a == <<x>>
<1>1. a \in Seq(T)
  OBVIOUS
<1> HIDE DEF a
<1>2. Cat(Cat(a, b), c) = Cat(a, Cat(b, c))
  BY <1>1, CatAssoc
<1> QED
  BY <1>2, Zenon DEF a

\* A pair is one and then one.
LEMMA Pair ==
  ASSUME NEW x, NEW y
  PROVE  <<x, y>> = Cat(<<x>>, <<y>>)
<1> DEFINE T == {x, y}
           s == <<x>>
           t == <<y>>
           u == <<x, y>>
<1>1. s \in Seq(T) /\ t \in Seq(T) /\ u \in Seq(T)
  OBVIOUS
<1>2. Len(s) = 1 /\ Len(t) = 1 /\ Len(u) = 2 /\ s[1] = x /\ t[1] = y /\ u[1] = x /\ u[2] = y
  OBVIOUS
<1> DEFINE d == s \o t
<1> HIDE DEF T, s, t, u, d
<1>3. Joins(T, s, t, d)
  BY <1>1, Concatenated DEF d
<1>4. d \in Seq(T) /\ Len(d) = Len(u) /\ \A k \in 1 .. Len(u) : d[k] = u[k]
  BY <1>2, <1>3 DEF Joins
<1>5. d = u
  BY <1>1, <1>4, SeqEqual
<1> QED
  BY <1>5, Zenon DEF d, s, t, u, Cat

\* ... before anything else.
LEMMA PairThen ==
  ASSUME NEW T, NEW x \in T, NEW y \in T, NEW s \in Seq(T)
  PROVE  Cat(<<x, y>>, s) = Cat(<<x>>, Cat(<<y>>, s))
<1> DEFINE b == <<y>>
<1>1. b \in Seq(T)
  OBVIOUS
<1> HIDE DEF b
<1>2. Cat(Cat(<<x>>, b), s) = Cat(<<x>>, Cat(b, s))
  BY <1>1, CatAssocOne
<1> QED
  BY <1>2, Pair, Zenon DEF b

\* What is done with the head of a sequence of at least one item.
LEMMA HeadOf ==
  ASSUME NEW T, NEW x \in T, NEW s \in Seq(T)
  PROVE  /\ Cat(<<x>>, s) \in Seq(T) /\ Cat(<<x>>, s) # <<>>
         /\ Head(Cat(<<x>>, s)) = x /\ Tail(Cat(<<x>>, s)) = s
<1> DEFINE a == <<x>>
           t == Cat(a, s)
<1>1. a \in Seq(T) /\ Len(a) = 1 /\ a[1] = x
  BY One
<1> HIDE DEF a, t
<1>2. Joins(T, a, s, t)
  BY <1>1, Concatenated, Zenon DEF Cat, t
<1>3. t \in Seq(T) /\ Len(t) = 1 + Len(s) /\ Len(s) \in Nat
  BY <1>1, <1>2, LenProperties DEF Joins
<1>4. \A k \in 1 .. 1 + Len(s) : t[k] = IF k <= 1 THEN x ELSE s[k - 1]
  BY <1>1, <1>2 DEF Joins
<1>5. t # <<>>
  BY <1>3
<1>6. Head(t) = x
  BY <1>3, <1>4
<1>7. Tail(t) \in Seq(T) /\ Len(Tail(t)) = Len(t) - 1 /\ \A k \in 1 .. Len(Tail(t)) : Tail(t)[k] = t[k + 1]
  BY <1>3, <1>5, HeadTailProperties
<1>8. Len(Tail(t)) = Len(s)
  BY <1>3, <1>7
<1>9. ASSUME NEW k \in 1 .. Len(s) PROVE Tail(t)[k] = s[k]
  <2>1. k + 1 \in 1 .. 1 + Len(s) /\ ~(k + 1 <= 1) /\ (k + 1) - 1 = k
    BY <1>3
  <2>2. t[k + 1] = s[k]
    BY <1>4, <2>1
  <2> QED
    BY <1>7, <1>8, <2>2
<1>10. Tail(t) = s
  BY <1>7, <1>8, <1>9, SeqEqual
<1> QED
  BY <1>3, <1>5, <1>6, <1>10, Zenon DEF t, a

\* A tail of a sequence, one item from its start.
LEMMA OneItem ==
  ASSUME NEW T, NEW s \in Seq(T), NEW i \in 1 .. Len(s)
  PROVE  SubSeq(s, i, Len(s)) = Cat(<<s[i]>>, SubSeq(s, i + 1, Len(s)))
<1>1. Len(s) \in i .. Len(s)
  BY LenProperties
<1>2. SubSeq(s, i, Len(s)) = <<s[i]>> \o SubSeq(s, i + 1, Len(s))
  BY <1>1, SubSeqRecursiveFirst
<1> QED
  BY <1>2, Zenon DEF Cat

\* The calls around parts and containers are things to do.
LEMMA CallsAround ==
  /\ \A e \in {"start", "end"}, kind \in Kinds, i \in Nat : Edge(e, kind, i) \in Around
  /\ \A kind \in Kinds : <<"end", kind>> \in Around
  /\ Around \subseteq Todo /\ VisitNext \in Todo
<1>1. ASSUME NEW e \in {"start", "end"}, NEW kind \in Kinds, NEW i \in Nat
      PROVE  Edge(e, kind, i) \in Around
  BY DEF Around
<1>2. \A kind \in Kinds : <<"end", kind>> \in Around
  BY DEF Around
<1>3. Around \subseteq Todo /\ VisitNext \in Todo
  BY Zenon DEF Todo
<1> QED
  BY <1>1, <1>2, <1>3

Filled == {c \in Container : c.done < c.parts}
First(kind, n) == [kind |-> kind, parts |-> n, done |-> 0]
PartEnd(c) == Edge("end", c.kind, c.done)

\* The calls around the part that the client is in.
LEMMA PartEdges ==
  ASSUME NEW c \in Container
  PROVE  /\ StartPart(c) = Edge("start", c.kind, c.done) /\ StartPart(c) \in Around
         /\ PartEnd(c) \in Around
<1>1. c.kind \in Kinds /\ c.done \in Nat
  BY DEF Container
<1>2. StartPart(c) = Edge("start", c.kind, c.done)
  BY Zenon DEF StartPart, Edge
<1>3. Edge("start", c.kind, c.done) \in Around /\ Edge("end", c.kind, c.done) \in Around
  BY <1>1, CallsAround
<1> QED
  BY <1>2, <1>3, Zenon DEF PartEnd

\* RestFrom(c) is a sequence of things to do, and so is the agenda.
LEMMA RestTyped ==
  ASSUME NEW c \in Filled
  PROVE  RestFrom(c) \in Seq(Todo)
<1> DEFINE a == Agenda(c.kind, c.parts)
           m == 3 * c.done + 3
           n == 3 * c.parts + 1
<1>1. c.kind \in Kinds /\ c.parts \in Nat /\ c.done \in Nat
  BY DEF Filled, Container
<1>2. a \in Seq(Todo) /\ Len(a) = n
  BY <1>1, AgendaItems
<1>3. m \in Int /\ n \in Int /\ 1 <= m
  BY <1>1
<1> HIDE DEF a, m, n
<1>4. \A i \in m .. n : a[i] \in Todo
  <2>1. \A i \in m .. n : i \in 1 .. n
    BY <1>3
  <2> QED
    BY <1>2, <2>1, ElementOfSeq
<1>5. SubSeq(a, m, n) \in Seq(Todo)
  BY <1>3, <1>4, SubSeqProperties
<1> QED
  BY <1>5 DEF RestFrom, a, m, n

\* The agenda of a container with parts: the first is started and visited.
LEMMA AgendaStarts ==
  ASSUME NEW kind \in Kinds, NEW n \in Nat \ {0}
  PROVE  Agenda(kind, n) = Cat(<<StartPart(First(kind, n))>>, Cat(<<VisitNext>>, RestFrom(First(kind, n))))
<1> DEFINE a == Agenda(kind, n)
           m == 3 * n + 1
           c == First(kind, n)
<1>1. /\ a \in Seq(Todo) /\ Len(a) = m
      /\ \A j \in 0 .. n - 1 : /\ a[3 * j + 1] = Edge("start", kind, j)
                               /\ a[3 * j + 2] = VisitNext
  BY AgendaItems
<1>2. a[1] = Edge("start", kind, 0) /\ a[2] = VisitNext
  <2>1. 0 \in 0 .. n - 1 /\ 3 * 0 + 1 = 1 /\ 3 * 0 + 2 = 2
    OBVIOUS
  <2> HIDE DEF a
  <2> QED
    BY <1>1, <2>1
<1>3. 1 \in 1 .. m /\ 2 \in 1 .. m
  OBVIOUS
<1>4. c.kind = kind /\ c.parts = n /\ c.done = 0 /\ c \in Container
  BY DEF First, Container
<1>5. RestFrom(c) = SubSeq(a, 3, m)
  <2>1. 3 * c.done + 3 = 3
    BY <1>4
  <2> QED
    BY <1>4, <2>1, Zenon DEF RestFrom
<1>6. StartPart(c) = a[1]
  BY <1>2, <1>4, PartEdges
<1> HIDE DEF a, c, m
<1>7. SubSeq(a, 1, m) = Cat(<<a[1]>>, SubSeq(a, 2, m))
  BY <1>1, <1>3, OneItem
<1>8. SubSeq(a, 2, m) = Cat(<<a[2]>>, SubSeq(a, 3, m))
  BY <1>1, <1>3, OneItem
<1>9. SubSeq(a, 1, m) = a
  BY <1>1, SubSeqFull
<1> QED
  BY <1>2, <1>5, <1>6, <1>7, <1>8, <1>9, Zenon DEF a, c

\* The agenda of an empty container is its end.
LEMMA AgendaEmpty ==
  ASSUME NEW kind \in Kinds
  PROVE  Agenda(kind, 0) = << <<"end", kind>> >>
<1> DEFINE a == Agenda(kind, 0)
           last == <<"end", kind>>
           b == <<last>>
<1>1. a \in Seq(Todo) /\ Len(a) = 1 /\ a[1] = last
  <2>1. 3 * 0 + 1 = 1 /\ 0 \in Nat
    OBVIOUS
  <2> QED
    BY <2>1, AgendaItems
<1>2. last \in Todo
  BY CallsAround
<1> HIDE DEF a, last
<1>3. b \in Seq(Todo) /\ Len(b) = 1 /\ b[1] = last
  BY <1>2, One
<1> HIDE DEF b
<1>4. a = b
  BY <1>1, <1>3, SeqEqual
<1> QED
  BY <1>4 DEF a, b, last

\* What is left after a part that is not the last, and after the last.
LEMMA RestContinues ==
  ASSUME NEW c \in Filled, c.done + 1 < c.parts
  PROVE  RestFrom(c) = Cat(<<PartEnd(c)>>, Cat(<<StartPart(NextPart(c))>>, Cat(<<VisitNext>>, RestFrom(NextPart(c)))))
<1> DEFINE kind == c.kind
           n == c.parts
           d == c.done
           a == Agenda(kind, n)
           m == 3 * n + 1
           x == NextPart(c)
<1>1. kind \in Kinds /\ n \in Nat /\ d \in Nat /\ d + 1 < n
  BY DEF Filled, Container
<1>2. x.kind = kind /\ x.parts = n /\ x.done = d + 1 /\ x \in Container
  BY DEF Filled, Container, NextPart
<1>3. /\ a \in Seq(Todo) /\ Len(a) = m
      /\ \A j \in 0 .. n - 1 : /\ a[3 * j + 1] = Edge("start", kind, j)
                               /\ a[3 * j + 2] = VisitNext
                               /\ a[3 * j + 3] = Edge("end", kind, j)
  BY <1>1, AgendaItems
<1>4. RestFrom(c) = SubSeq(a, 3 * d + 3, m) /\ RestFrom(x) = SubSeq(a, 3 * (d + 1) + 3, m)
  BY <1>2, Zenon DEF RestFrom
<1>5. StartPart(x) = Edge("start", kind, d + 1) /\ PartEnd(c) = Edge("end", kind, d)
  BY <1>2, PartEdges, Zenon DEF PartEnd
<1>6. m \in Nat
  BY <1>1
<1>7. /\ 3 * d + 3 \in 1 .. m /\ 3 * d + 4 \in 1 .. m /\ 3 * d + 5 \in 1 .. m
      /\ (3 * d + 3) + 1 = 3 * d + 4 /\ (3 * d + 4) + 1 = 3 * d + 5
      /\ (3 * d + 5) + 1 = 3 * (d + 1) + 3
      /\ 3 * (d + 1) + 1 = 3 * d + 4 /\ 3 * (d + 1) + 2 = 3 * d + 5
      /\ d \in 0 .. n - 1 /\ d + 1 \in 0 .. n - 1
  BY <1>1
<1> HIDE DEF kind, n, d, a, m, x
<1>8. a[3 * d + 3] = Edge("end", kind, d) /\ a[3 * d + 4] = Edge("start", kind, d + 1) /\ a[3 * d + 5] = VisitNext
  <2>1. a[3 * d + 3] = Edge("end", kind, d)
    BY <1>3, <1>7
  <2>2. a[3 * (d + 1) + 1] = Edge("start", kind, d + 1) /\ a[3 * (d + 1) + 2] = VisitNext
    BY <1>3, <1>7
  <2> QED
    BY <1>7, <2>1, <2>2
<1>9. SubSeq(a, 3 * d + 3, m) = Cat(<<a[3 * d + 3]>>, SubSeq(a, (3 * d + 3) + 1, m))
  BY <1>3, <1>7, OneItem
<1>10. SubSeq(a, 3 * d + 4, m) = Cat(<<a[3 * d + 4]>>, SubSeq(a, (3 * d + 4) + 1, m))
  BY <1>3, <1>7, OneItem
<1>11. SubSeq(a, 3 * d + 5, m) = Cat(<<a[3 * d + 5]>>, SubSeq(a, (3 * d + 5) + 1, m))
  BY <1>3, <1>7, OneItem
<1>12. SubSeq(a, 3 * d + 5, m) = Cat(<<VisitNext>>, RestFrom(x))
  BY <1>4, <1>7, <1>8, <1>11, Zenon
<1>13. SubSeq(a, 3 * d + 4, m) = Cat(<<StartPart(x)>>, Cat(<<VisitNext>>, RestFrom(x)))
  BY <1>5, <1>7, <1>8, <1>10, <1>12, Zenon
<1>14. SubSeq(a, 3 * d + 3, m) = Cat(<<PartEnd(c)>>, Cat(<<StartPart(x)>>, Cat(<<VisitNext>>, RestFrom(x))))
  BY <1>5, <1>7, <1>8, <1>9, <1>13, Zenon
<1> QED
  BY <1>4, <1>14, Zenon DEF x

\* Behind the last part: the end of the container.
LEMMA RestEnds ==
  ASSUME NEW c \in Filled, ~(c.done + 1 < c.parts)
  PROVE  RestFrom(c) = Cat(<<PartEnd(c)>>, << <<"end", c.kind>> >>)
<1> DEFINE kind == c.kind
           n == c.parts
           d == c.done
           a == Agenda(kind, n)
           m == 3 * n + 1
<1>1. kind \in Kinds /\ n \in Nat /\ d \in Nat /\ n = d + 1
  BY DEF Filled, Container
<1>2. /\ a \in Seq(Todo) /\ Len(a) = m /\ a[m] = <<"end", kind>>
      /\ \A j \in 0 .. n - 1 : /\ a[3 * j + 3] = Edge("end", kind, j)
  BY <1>1, AgendaItems
<1>3. RestFrom(c) = SubSeq(a, 3 * d + 3, m) /\ PartEnd(c) = Edge("end", kind, d)
  BY Zenon DEF RestFrom, PartEnd
<1>4. /\ 3 * d + 3 \in 1 .. m /\ m \in 1 .. m /\ (3 * d + 3) + 1 = m /\ d \in 0 .. n - 1 /\ m + 1 \in Int /\ m < m + 1
  BY <1>1
<1> HIDE DEF a, m, d, n
<1>5. SubSeq(a, 3 * d + 3, m) = Cat(<<a[3 * d + 3]>>, SubSeq(a, (3 * d + 3) + 1, m))
  BY <1>2, <1>4, OneItem
<1>6. SubSeq(a, m, m) = Cat(<<a[m]>>, SubSeq(a, m + 1, m))
  BY <1>2, <1>4, OneItem
<1>7. SubSeq(a, m + 1, m) = <<>>
  BY <1>4, SubSeqEmpty
<1> DEFINE b == <<a[m]>>
<1>8. b \in Seq(Todo)
  <2>1. a[m] \in Todo
    BY <1>2, <1>4, ElementOfSeq
  <2> QED
    BY <2>1, One
<1> HIDE DEF b
<1>9. Cat(b, <<>>) = b
  BY <1>8, CatEmpty
<1>10. a[3 * d + 3] = PartEnd(c)
  BY <1>2, <1>3, <1>4
<1> QED
  BY <1>2, <1>3, <1>4, <1>5, <1>6, <1>7, <1>9, <1>10, Zenon DEF b, kind

-----------------------------------------------------------------------------
\* Containers in containers, after a value.

AfterNothing == [calls |-> <<>>, open |-> <<>>]
AfterStep(cs, d, r) ==
  IF NextPart(cs[d]).done < cs[d].parts
  THEN [calls |-> <<PartEnd(cs[d]), StartPart(NextPart(cs[d]))>>, open |-> Append(SubSeq(cs, 1, d - 1), NextPart(cs[d]))]
  ELSE [calls |-> <<PartEnd(cs[d]), <<"end", cs[d].kind>>>> \o r.calls, open |-> r.open]

\* The recursion of AfterUpTo, unfolded.
LEMMA AfterLoop ==
  ASSUME NEW T, NEW cs \in Seq(T)
  PROVE  /\ AfterUpTo(cs)[0] = AfterNothing
         /\ \A d \in 1 .. Len(cs) : AfterUpTo(cs)[d] = AfterStep(cs, d, AfterUpTo(cs)[d - 1])
<1> DEFINE n == Len(cs)
           Unfolds(g, j) == g = [d \in 0 .. j |-> IF d = 0 THEN AfterNothing ELSE AfterStep(cs, d, g[d - 1])]
           Z == {j \in Nat : \E g : Unfolds(g, j)}
<1>1. n \in Nat
  BY LenProperties
<1> HIDE DEF n
<1>2. 0 \in Z
  <2>1. Unfolds([d \in 0 .. 0 |-> AfterNothing], 0)
    OBVIOUS
  <2> QED
    BY <2>1
<1>3. ASSUME NEW j \in 1 .. n, j - 1 \in Z PROVE j \in Z
  <2>1. PICK g : Unfolds(g, j - 1)
    BY <1>3
  <2> DEFINE h == [d \in 0 .. j |-> IF d < j THEN g[d] ELSE AfterStep(cs, j, g[j - 1])]
  <2>2. ASSUME NEW d \in 0 .. j
        PROVE  h[d] = IF d = 0 THEN AfterNothing ELSE AfterStep(cs, d, h[d - 1])
    <3>1. CASE d < j
      <4>1. h[d] = g[d] /\ (d # 0 => h[d - 1] = g[d - 1])
        BY <3>1
      <4> DEFINE G(k) == IF k = 0 THEN AfterNothing ELSE AfterStep(cs, k, g[k - 1])
      <4>2. g[d] = G(d)
        <5>1. g = [k \in 0 .. j - 1 |-> G(k)]
          BY <2>1
        <5> HIDE DEF G
        <5> QED
          BY <3>1, <5>1
      <4> HIDE DEF h
      <4> QED
        BY <4>1, <4>2
    <3>2. CASE d = j
      <4>1. h[d] = AfterStep(cs, j, g[j - 1]) /\ h[d - 1] = g[d - 1] /\ d # 0
        BY <3>2
      <4> HIDE DEF h
      <4> QED
        BY <3>2, <4>1
    <3> QED
      BY <3>1, <3>2
  <2>3. h = [d \in 0 .. j |-> h[d]]
    OBVIOUS
  <2> HIDE DEF h
  <2>4. Unfolds(h, j)
    BY <2>2, <2>3
  <2> HIDE DEF Unfolds
  <2> QED
    BY <1>1, <2>4
<1> HIDE DEF Z
<1>4. n \in Z
  <2>1. 0 .. n \subseteq Z
    BY <1>1, <1>2, <1>3, InductionUpTo
  <2> QED
    BY <1>1, <2>1
<1>5. \E g : g = [d \in 0 .. n |-> IF d = 0 THEN AfterNothing ELSE AfterStep(cs, d, g[d - 1])]
  BY <1>4 DEF Z
<1> DEFINE f == CHOOSE g : g = [d \in 0 .. n |-> IF d = 0 THEN AfterNothing ELSE AfterStep(cs, d, g[d - 1])]
<1>6. f = [d \in 0 .. n |-> IF d = 0 THEN AfterNothing ELSE AfterStep(cs, d, f[d - 1])]
  BY <1>5
<1>7. AfterUpTo(cs) = f
  BY Zenon DEF AfterUpTo, AfterNothing, AfterStep, PartEnd, Edge, NextPart, n
<1> HIDE DEF f
<1> DEFINE F(d) == IF d = 0 THEN AfterNothing ELSE AfterStep(cs, d, f[d - 1])
<1>8. \A d \in 0 .. n : f[d] = F(d)
  <2>1. f = [d \in 0 .. n |-> F(d)]
    BY <1>6
  <2> HIDE DEF F
  <2> QED
    BY <2>1
<1>9. 0 \in 0 .. n /\ \A d \in 1 .. n : d \in 0 .. n /\ d # 0
  BY <1>1
<1>10. f[0] = AfterNothing /\ \A d \in 1 .. n : f[d] = AfterStep(cs, d, f[d - 1])
  BY <1>8, <1>9, Zenon
<1> QED
  BY <1>7, <1>10, Zenon DEF n

\* p[d] is what is left to do in the first d of the containers cs.
Piles(cs, p) == p[0] = <<>> /\ \A d \in 1 .. Len(cs) : p[d] = Cat(RestFrom(cs[d]), p[d - 1])
IsPending(cs, t) == \E p : Piles(cs, p) /\ t = p[Len(cs)]

\* With the value that is visited next in the innermost of them.
Onward(cs, u) == IF cs = <<>> THEN <<>> ELSE Cat(<<VisitNext>>, u)

\* Nothing is pending outside of every container.
LEMMA PendingEmpty == IsPending(<<>>, <<>>)
<1> DEFINE p == [d \in 0 .. 0 |-> <<>>]
<1>1. p[0] = <<>> /\ Len(<<>>) = 0
  OBVIOUS
<1> HIDE DEF p
<1>2. Piles(<<>>, p)
  BY <1>1 DEF Piles
<1> QED
  BY <1>1, <1>2, Zenon DEF IsPending

\* What is pending are things to do.
LEMMA PilesTyped ==
  ASSUME NEW cs \in Seq(Filled), NEW p, Piles(cs, p)
  PROVE  \A d \in 0 .. Len(cs) : p[d] \in Seq(Todo)
<1> DEFINE n == Len(cs)
           Z == {d \in 0 .. n : p[d] \in Seq(Todo)}
<1>1. n \in Nat /\ \A d \in 1 .. n : cs[d] \in Filled
  BY LenProperties, ElementOfSeq
<1>2. p[0] = <<>> /\ \A d \in 1 .. n : p[d] = Cat(RestFrom(cs[d]), p[d - 1])
  BY DEF Piles
<1> HIDE DEF n
<1>3. 0 \in Z
  <2>1. <<>> \in Seq(Todo)
    OBVIOUS
  <2> QED
    <3>1. p[0] \in Seq(Todo)
      BY <1>2, <2>1, Zenon
    <3> QED
      BY <1>1, <3>1
<1>4. ASSUME NEW d \in 1 .. n, d - 1 \in Z PROVE d \in Z
  <2>1. RestFrom(cs[d]) \in Seq(Todo) /\ p[d - 1] \in Seq(Todo)
    BY <1>1, <1>4, RestTyped
  <2>2. Cat(RestFrom(cs[d]), p[d - 1]) \in Seq(Todo)
    BY <2>1, CatTyped
  <2> QED
    BY <1>1, <1>2, <2>2
<1> HIDE DEF Z
<1>5. 0 .. n \subseteq Z
  BY <1>1, <1>3, <1>4, InductionUpTo
<1> QED
  BY <1>5 DEF Z, n

\* ... in all the containers together, and none without a container.
LEMMA PendingTyped ==
  ASSUME NEW cs \in Seq(Filled), NEW t, IsPending(cs, t)
  PROVE  t \in Seq(Todo) /\ (cs = <<>> => t = <<>>)
<1>1. PICK p : Piles(cs, p) /\ t = p[Len(cs)]
  BY Zenon DEF IsPending
<1>2. Len(cs) \in 0 .. Len(cs)
  BY LenProperties
<1>3. cs = <<>> => Len(cs) = 0
  OBVIOUS
<1>4. p[0] = <<>>
  BY <1>1 DEF Piles
<1> QED
  BY <1>1, <1>2, <1>3, <1>4, PilesTyped

\* A further container, in place of those behind the first m.
LEMMA PendingAppend ==
  ASSUME NEW cs \in Seq(Filled), NEW p, Piles(cs, p), NEW m \in 0 .. Len(cs), NEW c \in Filled
  PROVE  /\ Append(SubSeq(cs, 1, m), c) \in Seq(Filled) /\ Append(SubSeq(cs, 1, m), c) # <<>>
         /\ IsPending(Append(SubSeq(cs, 1, m), c), Cat(RestFrom(c), p[m]))
<1> DEFINE s == SubSeq(cs, 1, m)
           a == Append(s, c)
           n == Len(cs)
           v == Cat(RestFrom(c), p[m])
           q == [d \in 0 .. m + 1 |-> IF d <= m THEN p[d] ELSE v]
<1>1. n \in Nat /\ m \in Nat /\ m <= n /\ \A d \in 1 .. n : cs[d] \in Filled
  BY LenProperties, ElementOfSeq
<1>2. s \in Seq(Filled) /\ Len(s) = m /\ \A d \in 1 .. m : s[d] = cs[d]
  <2>1. \A d \in 1 .. m : cs[d] \in Filled
    BY <1>1
  <2>2. s \in Seq(Filled) /\ Len(s) = (IF 1 <= m THEN m - 1 + 1 ELSE 0) /\ \A d \in 1 .. m - 1 + 1 : s[d] = cs[1 + d - 1]
    BY <1>1, <2>1, SubSeqProperties
  <2> QED
    BY <1>1, <2>2
<1> HIDE DEF s
<1>3. /\ a \in Seq(Filled) /\ a # <<>> /\ Len(a) = m + 1
      /\ (\A d \in 1 .. m : a[d] = s[d]) /\ a[m + 1] = c
  BY <1>2, AppendProperties
<1>4. p[0] = <<>> /\ \A d \in 1 .. n : p[d] = Cat(RestFrom(cs[d]), p[d - 1])
  BY DEF Piles
<1> HIDE DEF a, n, v
<1>5. q[0] = <<>> /\ q[m + 1] = v /\ q[m] = p[m]
  BY <1>1, <1>4
<1>6. ASSUME NEW d \in 1 .. m + 1
      PROVE  q[d] = Cat(RestFrom(a[d]), q[d - 1])
  <2>1. CASE d <= m
    <3>1. q[d] = p[d] /\ q[d - 1] = p[d - 1]
      BY <1>1, <2>1
    <3>2. a[d] = cs[d]
      BY <1>1, <1>2, <1>3, <2>1
    <3>3. p[d] = Cat(RestFrom(cs[d]), p[d - 1])
      BY <1>1, <1>4, <2>1
    <3> HIDE DEF q
    <3> QED
      BY <3>1, <3>2, <3>3, Zenon
  <2>2. CASE d = m + 1
    <3>1. d - 1 = m
      BY <1>1, <2>2
    <3> HIDE DEF q
    <3>2. a[d] = c /\ q[d] = v /\ q[d - 1] = p[m]
      BY <1>3, <1>5, <2>2, <3>1, Zenon
    <3> QED
      BY <3>2, Zenon DEF v
  <2> QED
    BY <1>1, <2>1, <2>2
<1> HIDE DEF q
<1>7. Piles(a, q)
  BY <1>3, <1>5, <1>6 DEF Piles
<1>8. IsPending(a, v)
  BY <1>3, <1>5, <1>7, Zenon DEF IsPending
<1> QED
  BY <1>3, <1>8, Zenon DEF a, s, v

\* t is what After says, and then to go on.
Leads(r, t) ==
  /\ r.calls \in Seq(Around) /\ r.open \in Seq(Filled)
  /\ \E u \in Seq(Todo) : IsPending(r.open, u) /\ t = Cat(r.calls, Onward(r.open, u))

\* Once a value is visited, what is pending is what After says and then the
\* rest of the containers that After leaves.
LEMMA AfterLeads ==
  ASSUME NEW cs \in Seq(Filled), NEW t, IsPending(cs, t)
  PROVE  Leads(After(cs), t)
<1> DEFINE n == Len(cs)
           f == AfterUpTo(cs)
<1>1. PICK p : Piles(cs, p) /\ t = p[n]
  BY Zenon DEF IsPending
<1>2. n \in Nat /\ \A d \in 1 .. n : cs[d] \in Filled
  BY LenProperties, ElementOfSeq
<1>3. f[0] = AfterNothing /\ \A d \in 1 .. n : f[d] = AfterStep(cs, d, f[d - 1])
  BY AfterLoop
<1>4. After(cs) = f[n]
  BY DEF After
<1>5. p[0] = <<>> /\ \A d \in 1 .. n : p[d] = Cat(RestFrom(cs[d]), p[d - 1])
  BY <1>1 DEF Piles
<1>6. \A d \in 0 .. n : p[d] \in Seq(Todo)
  BY <1>1, PilesTyped
<1> DEFINE Z == {d \in 0 .. n : Leads(f[d], p[d])}
<1> HIDE DEF n, f
<1>7. 0 \in Z
  <2>1. <<>> \in Seq(Around) /\ <<>> \in Seq(Filled) /\ <<>> \in Seq(Todo)
    OBVIOUS
  <2>2. Cat(<<>>, <<>>) = <<>>
    BY <2>1, CatEmpty
  <2>3. AfterNothing.calls = <<>> /\ AfterNothing.open = <<>>
    BY DEF AfterNothing
  <2>4. Leads(AfterNothing, <<>>)
    BY <2>1, <2>2, <2>3, PendingEmpty, Zenon DEF Leads, Onward
  <2> QED
    BY <1>2, <1>3, <1>5, <2>4
<1>8. ASSUME NEW d \in 1 .. n, d - 1 \in Z PROVE d \in Z
  <2> DEFINE c == cs[d]
             x == NextPart(c)
             r == f[d - 1]
             e == PartEnd(c)
             rest == p[d - 1]
  <2>1. c \in Filled /\ c \in Container /\ c.kind \in Kinds
    BY <1>2 DEF Filled, Container
  <2>2. rest \in Seq(Todo) /\ Leads(r, rest)
    BY <1>2, <1>6, <1>8
  <2>3. f[d] = AfterStep(cs, d, r) /\ p[d] = Cat(RestFrom(c), rest)
    BY <1>3, <1>5
  <2>4. e \in Around /\ e \in Todo
    BY <2>1, PartEdges, CallsAround
  <2>5. x.done = c.done + 1 /\ x \in Container /\ x.parts = c.parts
    BY <2>1 DEF NextPart, Container
  <2> HIDE DEF c, x, r, e, rest
  <2>6. CASE x.done < c.parts
    <3> DEFINE b == StartPart(x)
               o == Append(SubSeq(cs, 1, d - 1), x)
               u == Cat(RestFrom(x), rest)
    <3>1. x \in Filled /\ c.done + 1 < c.parts
      BY <2>5, <2>6 DEF Filled
    <3>2. b \in Around /\ b \in Todo /\ RestFrom(x) \in Seq(Todo)
      BY <2>5, <3>1, PartEdges, CallsAround, RestTyped
    <3>3. o \in Seq(Filled) /\ o # <<>> /\ IsPending(o, u)
      <4>1. d - 1 \in 0 .. n
        BY <1>2
      <4> QED
        BY <1>1, <3>1, <4>1, PendingAppend, Zenon DEF n, rest
    <3>4. f[d] = [calls |-> <<e, b>>, open |-> o]
      BY <2>3, <2>6, Zenon DEF AfterStep, c, x, e
    <3>5. RestFrom(c) = Cat(<<e>>, Cat(<<b>>, Cat(<<VisitNext>>, RestFrom(x))))
      BY <2>1, <3>1, RestContinues, Zenon DEF x, e
    <3>6. <<e>> \in Seq(Todo) /\ <<b>> \in Seq(Todo) /\ <<VisitNext>> \in Seq(Todo)
      BY <2>4, <3>2, CallsAround, One
    <3>7. Cat(<<VisitNext>>, RestFrom(x)) \in Seq(Todo) /\ u \in Seq(Todo)
      BY <2>2, <3>2, <3>6, CatTyped
    <3>8. Cat(<<b>>, Cat(<<VisitNext>>, RestFrom(x))) \in Seq(Todo) /\ Cat(<<VisitNext>>, u) \in Seq(Todo)
      BY <3>6, <3>7, CatTyped
    <3>19. Cat(Cat(<<e>>, Cat(<<b>>, Cat(<<VisitNext>>, RestFrom(x)))), rest)
              = Cat(<<e>>, Cat(Cat(<<b>>, Cat(<<VisitNext>>, RestFrom(x))), rest))
      BY <2>2, <2>4, <3>8, CatAssocOne
    <3>9. p[d] = Cat(<<e>>, Cat(Cat(<<b>>, Cat(<<VisitNext>>, RestFrom(x))), rest))
      BY <2>3, <3>5, <3>19, Zenon
    <3>10. Cat(Cat(<<b>>, Cat(<<VisitNext>>, RestFrom(x))), rest) = Cat(<<b>>, Cat(Cat(<<VisitNext>>, RestFrom(x)), rest))
      BY <2>2, <3>2, <3>7, CatAssocOne
    <3>11. Cat(Cat(<<VisitNext>>, RestFrom(x)), rest) = Cat(<<VisitNext>>, u)
      BY <2>2, <3>2, CallsAround, CatAssocOne
    <3>12. Cat(<<e, b>>, Cat(<<VisitNext>>, u)) = Cat(<<e>>, Cat(<<b>>, Cat(<<VisitNext>>, u)))
      BY <2>4, <3>2, <3>8, PairThen
    <3>14. p[d] = Cat(<<e, b>>, Cat(<<VisitNext>>, u))
      BY <3>9, <3>10, <3>11, <3>12, Zenon
    <3>15. Onward(o, u) = Cat(<<VisitNext>>, u)
      BY <3>3, Zenon DEF Onward
    <3>16. <<e, b>> \in Seq(Around)
      BY <2>4, <3>2
    <3> HIDE DEF b, o, u
    <3>17. f[d].calls = <<e, b>> /\ f[d].open = o
      BY <3>4
    <3>18. Leads(f[d], p[d])
      BY <3>3, <3>7, <3>14, <3>15, <3>16, <3>17, Zenon DEF Leads
    <3> QED
      BY <1>2, <3>18
  <2>7. CASE ~(x.done < c.parts)
    <3> DEFINE b == <<"end", c.kind>>
    <3>1. ~(c.done + 1 < c.parts)
      BY <2>5, <2>7
    <3>2. b \in Around /\ b \in Todo
      BY <2>1, CallsAround
    <3>3. RestFrom(c) = Cat(<<e>>, <<b>>)
      BY <2>1, <3>1, RestEnds, Zenon DEF e
    <3>4. f[d] = [calls |-> <<e, b>> \o r.calls, open |-> r.open]
      BY <2>3, <2>7, Zenon DEF AfterStep, c, x, e
    <3>5. PICK u \in Seq(Todo) : IsPending(r.open, u) /\ rest = Cat(r.calls, Onward(r.open, u))
      BY <2>2, Zenon DEF Leads
    <3>6. r.calls \in Seq(Around) /\ r.open \in Seq(Filled)
      BY <2>2, Zenon DEF Leads
    <3> DEFINE o == Onward(r.open, u)
               eb == <<e, b>>
               g == Cat(eb, r.calls)
    <3>7. o \in Seq(Todo)
      <4>1. <<>> \in Seq(Todo) /\ <<VisitNext>> \in Seq(Todo)
        BY CallsAround, One
      <4>2. Cat(<<VisitNext>>, u) \in Seq(Todo)
        BY <3>5, <4>1, CatTyped
      <4> QED
        BY <4>1, <4>2, Zenon DEF Onward
    <3>8. eb \in Seq(Around) /\ eb \in Seq(Todo)
      BY <2>4, <3>2
    <3>9. r.calls \in Seq(Todo)
      BY <3>6, CallsAround
    <3> HIDE DEF o, b, eb
    <3>10. g \in Seq(Around)
      BY <3>6, <3>8, CatTyped
    <3>11. Cat(g, o) = Cat(eb, Cat(r.calls, o))
      BY <3>7, <3>8, <3>9, CatAssoc
    <3>12. p[d] = Cat(eb, rest)
      BY <2>3, <3>3, Pair, Zenon DEF eb
    <3>13. p[d] = Cat(g, o)
      BY <3>5, <3>11, <3>12, Zenon DEF o
    <3>14. f[d].calls = g /\ f[d].open = r.open
      <4>1. f[d] = [calls |-> g, open |-> r.open]
        BY <3>4, Zenon DEF Cat, eb
      <4> HIDE DEF g
      <4> QED
        BY <4>1
    <3> HIDE DEF g
    <3>15. Leads(f[d], p[d])
      BY <3>5, <3>6, <3>10, <3>13, <3>14, Zenon DEF Leads, o
    <3> QED
      BY <1>2, <3>15
  <2> QED
    BY <2>6, <2>7
<1> HIDE DEF Z
<1>9. 0 .. n \subseteq Z
  BY <1>2, <1>7, <1>8, InductionUpTo
<1>10. Leads(f[n], p[n])
  BY <1>2, <1>9 DEF Z
<1> QED
  BY <1>1, <1>4, <1>10

-----------------------------------------------------------------------------
\* Integers as they are read.

IntNames == {"int8", "uint8", "int16", "uint16", "int32", "uint32", "int64", "uint64"}

\* Every type of integer has a format of its own.
LEMMA Formats ==
  /\ IntTypes = IntNames /\ DOMAIN Width = IntNames
  /\ \A t \in IntNames : Width[t] \in {1, 2, 4, 8} /\ IntFormat[t] \in 204 .. 211 /\ TypeOf(IntFormat[t]) = t
<1>1. IntTypes = IntNames /\ DOMAIN Width = IntNames
  BY DEF IntTypes, IntFormat, Width, IntNames
<1>2. \A t \in IntNames : Width[t] \in {1, 2, 4, 8}
  BY DEF Width, IntNames
<1>3. \A t \in IntNames : IntFormat[t] \in 204 .. 211
  BY DEF IntFormat, IntNames
<1>4. \A t, u \in IntNames : IntFormat[t] = IntFormat[u] => t = u
  BY DEF IntFormat, IntNames
<1>5. ASSUME NEW t \in IntNames PROVE TypeOf(IntFormat[t]) = t
  BY <1>1, <1>4 DEF TypeOf
<1> QED
  BY <1>1, <1>2, <1>3, <1>5

\* r is the w bytes of s behind p.
Behind(s, p, w, r) == /\ r \in Seq(0 .. 255) /\ Len(r) = w
                      /\ \A i \in 1 .. w : r[i] = s[p + i]

\* The number in the w bytes of s behind p.
LEMMA BytesBehind ==
  ASSUME NEW s \in Seq(0 .. 255), NEW p \in Nat, NEW w \in Nat \ {0}, p + w <= Len(s)
  PROVE  Behind(s, p, w, SubSeq(s, p + 1, p + w))
<1> DEFINE a == p + 1
           b == p + w
           r == SubSeq(s, a, b)
<1>1. a \in Int /\ b \in Int /\ a <= b /\ b - a + 1 = w
  OBVIOUS
<1>2. \A i \in a .. b : s[i] \in 0 .. 255
  <2>1. \A i \in a .. b : i \in 1 .. Len(s)
    BY LenProperties
  <2> QED
    BY <2>1, ElementOfSeq
<1>3. \A i \in 1 .. w : a + i - 1 = p + i
  OBVIOUS
<1> HIDE DEF a, b
<1>4. /\ SubSeq(s, a, b) \in Seq(0 .. 255) /\ Len(SubSeq(s, a, b)) = (IF a <= b THEN b - a + 1 ELSE 0)
      /\ \A i \in 1 .. b - a + 1 : SubSeq(s, a, b)[i] = s[a + i - 1]
  BY <1>1, <1>2, SubSeqProperties
<1>5. r \in Seq(0 .. 255) /\ Len(r) = w /\ \A i \in 1 .. w : r[i] = s[a + i - 1]
  BY <1>1, <1>4, Zenon
<1> QED
  BY <1>3, <1>5 DEF a, b, Behind

\* What unpack_int returns when it succeeds.
Unpacks(x, v, next) == x = [v |-> v, next |-> next]

\* The parts of what unpack_int returns, which is then not a failure.
LEMMA UnpacksIs ==
  ASSUME NEW x, NEW v \in Int, NEW next \in Nat, Unpacks(x, v, next)
  PROVE  x.v = v /\ x.next = next /\ Unpacks(x, x.v, x.next) /\ x # NoInt
BY DEF Unpacks, NoInt

\* unpack_int fails or returns a number and a place in the buffer behind it.
LEMMA UnpackIntTyped ==
  ASSUME buf \in Seq(0 .. 255), NEW p \in Nat, NEW types \in SUBSET IntTypes
  PROVE  \/ UnpackInt(p, types) = NoInt
         \/ \E v \in Int, next \in p + 1 .. Len(buf) :
              Unpacks(UnpackInt(p, types), v, next) /\ (types \cap Signed = {} => v >= -32)
<1>1. CASE ~Has(p, 1)
  BY <1>1 DEF UnpackInt
<1>2. CASE Has(p, 1)
  <2> DEFINE f == buf[p + 1]
  <2>1. f \in 0 .. 255 /\ p + 1 <= Len(buf) /\ Len(buf) \in Nat
    <3>1. p + 1 \in 1 .. Len(buf)
      BY <1>2 DEF Has
    <3> QED
      BY <3>1, ElementOfSeq, LenProperties
  <2> HIDE DEF f
  <2>2. CASE f <= 127
    <3>1. Unpacks(UnpackInt(p, types), f, p + 1)
      BY <1>2, <2>2 DEF UnpackInt, f, Unpacks
    <3>2. p + 1 \in p + 1 .. Len(buf) /\ f \in Int /\ f >= -32
      BY <2>1
    <3> QED
      BY <3>1, <3>2
  <2>3. CASE f >= 224
    <3>1. Unpacks(UnpackInt(p, types), f - 256, p + 1)
      <4>1. ~(f <= 127)
        BY <2>1, <2>3
      <4> QED
        BY <1>2, <2>3, <4>1, Zenon DEF UnpackInt, f, Unpacks
    <3>2. p + 1 \in p + 1 .. Len(buf) /\ f - 256 \in Int /\ f - 256 >= -32
      BY <2>1, <2>3
    <3> QED
      BY <3>1, <3>2
  <2>4. CASE ~(f <= 127) /\ ~(f >= 224) /\ \E t \in types : IntFormat[t] = f /\ Has(p + 1, Width[t])
    <3>1. PICK t \in types : IntFormat[t] = f /\ Has(p + 1, Width[t])
      BY <2>4
    <3>2. TypeOf(f) = t /\ Width[t] \in {1, 2, 4, 8}
      BY <3>1, Formats
    <3> DEFINE x == Number(SubSeq(buf, p + 2, p + 1 + Width[t]), t \in Signed)
    <3>3. Unpacks(UnpackInt(p, types), x, p + 1 + Width[t])
      BY <1>2, <2>4, <3>1, <3>2, Zenon DEF UnpackInt, f, Unpacks
    <3>4. x \in Int /\ p + 1 + Width[t] \in p + 1 .. Len(buf) /\ (types \cap Signed = {} => x >= -32)
      <4> DEFINE w == Width[t]
                 q == p + 1
      <4>1. w \in Nat \ {0} /\ q \in Nat /\ q + w <= Len(buf) /\ p + 2 = q + 1
        BY <3>1, <3>2 DEF Has
      <4> HIDE DEF w, q
      <4> DEFINE s == SubSeq(buf, q + 1, q + w)
                 m == Number(s, t \in Signed)
      <4>2. Behind(buf, q, w, s)
        BY <4>1, BytesBehind, Zenon
      <4>3. (t \in Signed) \in BOOLEAN /\ w # 0
        BY <4>1
      <4>4. m \in Int /\ (types \cap Signed = {} => m >= -32)
        <5> HIDE DEF s
        <5>1. m \in Int /\ (~(t \in Signed) => m \in Nat)
          <6>1. s \in Seq(0 .. 255) /\ Len(s) # 0
            BY <4>2, <4>3, Zenon DEF Behind
          <6>2. OfType(m, t \in Signed)
            BY <4>3, <6>1, NumberTyped, Zenon
          <6> QED
            BY <6>2, Zenon DEF OfType
        <5>2. types \cap Signed = {} => ~(t \in Signed)
          OBVIOUS
        <5> HIDE DEF m
        <5> QED
          BY <5>1, <5>2
      <4>5. p + 1 + w \in p + 1 .. Len(buf) /\ m = x
        BY <4>1, <2>1 DEF q, w
      <4> QED
        BY <4>1, <4>4, <4>5 DEF q, w
    <3> QED
      BY <3>3, <3>4
  <2>5. CASE ~(f <= 127) /\ ~(f >= 224) /\ ~(\E t \in types : IntFormat[t] = f /\ Has(p + 1, Width[t]))
    BY <1>2, <2>5, Zenon DEF UnpackInt, f
  <2> QED
    BY <2>1, <2>2, <2>3, <2>4, <2>5
<1> QED
  BY <1>1, <1>2

\* A length that is read is a natural number: the cast keeps it from being
\* negative.
LEMMA UnpackSizeTyped ==
  ASSUME buf \in Seq(0 .. 255), pos \in Nat, NEW k \in 1 .. 3
  PROVE  \/ UnpackSize(k) = NoInt
         \/ \E v \in Nat, next \in pos + 2 .. Len(buf) : Unpacks(UnpackSize(k), v, next)
<1> DEFINE types == {SizeType[k]}
           x == UnpackInt(pos + 1, types)
<1>1. types \in SUBSET IntTypes /\ types \cap Signed = {}
  <2>1. SizeType[k] \in {"uint8", "uint16", "uint32"}
    BY DEF SizeType
  <2> QED
    BY <2>1, Formats DEF IntNames, Signed
<1>2. pos + 1 \in Nat /\ (pos + 1) + 1 = pos + 2
  OBVIOUS
<1> HIDE DEF types
<1>3. \/ x = NoInt
      \/ \E v \in Int, next \in (pos + 1) + 1 .. Len(buf) : Unpacks(x, v, next) /\ (types \cap Signed = {} => v >= -32)
  BY <1>1, <1>2, UnpackIntTyped
<1>4. UnpackSize(k) = IF x.v < 0 THEN [x EXCEPT !.v = @ + Limit(k)] ELSE x
  BY DEF UnpackSize, types
<1> HIDE DEF x
<1>5. CASE x = NoInt
  BY <1>4, <1>5 DEF NoInt
<1>6. CASE x # NoInt
  <2>1. PICK v \in Int, next \in pos + 2 .. Len(buf) : Unpacks(x, v, next) /\ v >= -32
    BY <1>1, <1>2, <1>3, <1>6
  <2>2. x.v = v
    BY <2>1 DEF Unpacks
  <2>3. CASE v >= 0
    <3>1. UnpackSize(k) = x /\ v \in Nat
      BY <1>4, <2>1, <2>2, <2>3
    <3> QED
      BY <2>1, <3>1
  <2>4. CASE v < 0
    <3>1. Limit(k) \in Nat /\ Limit(k) >= 256
      BY DEF Limit
    <3>2. v + Limit(k) \in Nat
      BY <2>1, <3>1
    <3>3. Unpacks(UnpackSize(k), v + Limit(k), next)
      BY <1>4, <2>1, <2>2, <2>4 DEF Unpacks
    <3> QED
      BY <3>2, <3>3
  <2> QED
    BY <2>1, <2>3, <2>4
<1> QED
  BY <1>5, <1>6

-----------------------------------------------------------------------------
\* What a visitor is called with.

Payloads == {"str", "bin"} \X Nat \X Nat
Exts == {"ext"} \X (0 .. 255) \X Nat \X Nat
Starts == {"start"} \X Kinds \X Nat
Scalars == {<<"nil">>} \cup ({"bool"} \X BOOLEAN) \cup ({"int"} \X Int)
Calls == Around \cup Scalars \cup Payloads \cup Exts \cup Starts

\* The calls with a payload are beyond the buffer if the payload is.
LEMMA PayloadBeyond ==
  ASSUME NEW p \in Nat, NEW n \in Nat, NEW t
  PROVE  /\ \A kind \in {"str", "bin"} : Beyond(<<kind, p, n>>) <=> p + n > Len(buf)
         /\ Beyond(<<"ext", t, p, n>>) <=> p + n > Len(buf)
<1>1. ASSUME NEW kind \in {"str", "bin"}
      PROVE  Beyond(<<kind, p, n>>) <=> p + n > Len(buf)
  <2> DEFINE c == <<kind, p, n>>
  <2>1. Len(c) = 3 /\ c[1] = kind /\ c[3 - 1] = p /\ c[3] = n
    OBVIOUS
  <2> HIDE DEF c
  <2>2. Beyond(c) <=> p + n > Len(buf)
    BY <2>1 DEF Beyond, Last
  <2> QED
    BY <2>2 DEF c
<1>2. Beyond(<<"ext", t, p, n>>) <=> p + n > Len(buf)
  <2> DEFINE c == <<"ext", t, p, n>>
  <2>1. Len(c) = 4 /\ c[1] = "ext" /\ c[4 - 1] = p /\ c[4] = n
    OBVIOUS
  <2> HIDE DEF c
  <2>2. Beyond(c) <=> p + n > Len(buf)
    BY <2>1 DEF Beyond, Last
  <2> QED
    BY <2>2 DEF c
<1> QED
  BY <1>1, <1>2

\* The others are not.
LEMMA OthersNotBeyond ==
  ASSUME NEW x, NEW kind, NEW n
  PROVE  ~Beyond(<<"nil">>) /\ ~Beyond(<<"bool", x>>) /\ ~Beyond(<<"int", x>>) /\ ~Beyond(<<"start", kind, n>>)
BY DEF Beyond

\* A call with a payload, of three.
LEMMA OneAndTwo ==
  ASSUME NEW a, NEW p, NEW n
  PROVE  <<a>> \o <<p, n>> = <<a, p, n>>
<1> DEFINE T == {a, p, n}
           s == <<a>>
           t == <<p, n>>
           u == <<a, p, n>>
           d == s \o t
<1>1. s \in Seq(T) /\ t \in Seq(T) /\ u \in Seq(T)
  OBVIOUS
<1>2. Len(s) = 1 /\ Len(t) = 2 /\ Len(u) = 3 /\ s[1] = a /\ t[1] = p /\ t[2] = n /\ u[1] = a /\ u[2] = p /\ u[3] = n
  OBVIOUS
<1> HIDE DEF T, s, t, u, d
<1>3. Joins(T, s, t, d)
  BY <1>1, Concatenated DEF d
<1>4. d \in Seq(T) /\ Len(d) = Len(u) /\ \A k \in 1 .. Len(u) : d[k] = u[k]
  BY <1>2, <1>3 DEF Joins
<1>5. d = u
  BY <1>1, <1>4, SeqEqual
<1> QED
  BY <1>5 DEF d, s, t, u

\* ... and of four.
LEMMA TwoAndTwo ==
  ASSUME NEW a, NEW b, NEW p, NEW n
  PROVE  <<a, b>> \o <<p, n>> = <<a, b, p, n>>
<1> DEFINE T == {a, b, p, n}
           s == <<a, b>>
           t == <<p, n>>
           u == <<a, b, p, n>>
           d == s \o t
<1>1. s \in Seq(T) /\ t \in Seq(T) /\ u \in Seq(T)
  OBVIOUS
<1>2. /\ Len(s) = 2 /\ Len(t) = 2 /\ Len(u) = 4 /\ s[1] = a /\ s[2] = b /\ t[1] = p /\ t[2] = n
      /\ u[1] = a /\ u[2] = b /\ u[3] = p /\ u[4] = n
  OBVIOUS
<1> HIDE DEF T, s, t, u, d
<1>3. Joins(T, s, t, d)
  BY <1>1, Concatenated DEF d
<1>4. d \in Seq(T) /\ Len(d) = Len(u) /\ \A k \in 1 .. Len(u) : d[k] = u[k]
  BY <1>2, <1>3 DEF Joins
<1>5. d = u
  BY <1>1, <1>4, SeqEqual
<1> QED
  BY <1>5 DEF d, s, t, u

\* Everything the visitor may be called with.
LEMMA CallsAre ==
  /\ <<"nil">> \in Calls
  /\ \A b \in BOOLEAN : <<"bool", b>> \in Calls
  /\ \A v \in Int : <<"int", v>> \in Calls
  /\ \A kind \in {"str", "bin"}, p \in Nat, n \in Nat : <<kind, p, n>> \in Calls
  /\ \A t \in 0 .. 255, p \in Nat, n \in Nat : <<"ext", t, p, n>> \in Calls
  /\ \A kind \in Kinds, n \in Nat : <<"start", kind, n>> \in Calls
  /\ Around \subseteq Calls
<1>1. /\ <<"nil">> \in Scalars
      /\ \A b \in BOOLEAN : <<"bool", b>> \in Scalars
      /\ \A v \in Int : <<"int", v>> \in Scalars
  BY DEF Scalars
<1>2. \A kind \in {"str", "bin"}, p \in Nat, n \in Nat : <<kind, p, n>> \in Payloads
  BY DEF Payloads
<1>3. \A t \in 0 .. 255, p \in Nat, n \in Nat : <<"ext", t, p, n>> \in Exts
  BY DEF Exts
<1>4. \A kind \in Kinds, n \in Nat : <<"start", kind, n>> \in Starts
  BY DEF Starts
<1> QED
  BY <1>1, <1>2, <1>3, <1>4, Zenon DEF Calls

-----------------------------------------------------------------------------
\* The end of the buffer: what a value that is visited leaves.

Fresh(call, next) == /\ Beyond(call) <=> next > Len(buf)
                     /\ Beyond(call) => call[1] = "str"

\* A step over a value.
Reads == \/ Ended("failed")
         \/ \E call \in Calls, next \in Nat, rest \in Seq(Todo) : Fresh(call, next) /\ Call(call, next, rest)

\* A payload is read, or its end is missing.
LEMMA PayloadReads ==
  ASSUME buf \in Seq(0 .. 255), todo \in Seq(Todo), todo # <<>>,
         NEW kind \in {"str", "bin", "ext"}, NEW t \in 0 .. 255, NEW p \in Nat, NEW n \in Nat,
         kind # "str" => p <= Len(buf),
         CallPayload(kind, IF kind = "ext" THEN <<"ext", t>> ELSE <<kind>>, p, n)
  PROVE  Reads
<1> DEFINE head == IF kind = "ext" THEN <<"ext", t>> ELSE <<kind>>
           call == head \o <<p, n>>
<1>1. CASE ~HasPayload(kind, p, n)
  <2>1. Ended("failed")
    BY <1>1 DEF CallPayload
  <2> QED
    BY <2>1 DEF Reads
<1>2. CASE HasPayload(kind, p, n)
  <2>1. Call(call, p + n, Tail(todo))
    BY <1>2, Zenon DEF CallPayload
  <2>2. Tail(todo) \in Seq(Todo)
    BY HeadTailProperties
  <2>3. call = IF kind = "ext" THEN <<"ext", t, p, n>> ELSE <<kind, p, n>>
    <3>1. CASE kind = "ext"
      BY <3>1, TwoAndTwo
    <3>2. CASE kind # "ext"
      BY <3>2, OneAndTwo
    <3> QED
      BY <3>1, <3>2
  <2> HIDE DEF call
  <2>4. call \in Calls
    BY <2>3, CallsAre
  <2>5. Beyond(call) <=> p + n > Len(buf)
    BY <2>3, PayloadBeyond, Zenon
  <2>6. kind # "str" => ~(p + n > Len(buf))
    BY <1>2, LenProperties DEF HasPayload, Has
  <2>7. kind = "str" => call[1] = "str"
    BY <2>3
  <2>8. Fresh(call, p + n) /\ p + n \in Nat
    BY <2>5, <2>6, <2>7 DEF Fresh
  <2> QED
    BY <2>1, <2>2, <2>4, <2>8, Zenon DEF Reads
<1> QED
  BY <1>1, <1>2

\* A format that is read is a byte of the buffer.
LEMMA AtFormat ==
  ASSUME buf \in Seq(0 .. 255), pos \in Nat, ~AtEnd
  PROVE  Format \in 0 .. 255 /\ pos + 1 <= Len(buf) /\ Len(buf) \in Nat
<1>1. Len(buf) \in Nat /\ pos + 1 \in 1 .. Len(buf)
  BY LenProperties DEF AtEnd
<1> QED
  BY <1>1, ElementOfSeq DEF Format

\* The actions of visit over a value, one by one: an integer,
LEMMA IntReads ==
  ASSUME buf \in Seq(0 .. 255), todo \in Seq(Todo), pos \in Nat, VisitInt
  PROVE  Reads
<1> DEFINE x == UnpackInt(pos, IntTypes)
<1>1. todo # <<>> /\ IF x = NoInt THEN Ended("failed") ELSE Call(<<"int", x.v>>, x.next, Tail(todo))
  BY DEF VisitInt, AtValue
<1>2. Tail(todo) \in Seq(Todo) /\ Len(buf) \in Nat
  BY <1>1, HeadTailProperties, LenProperties
<1>3. \/ x = NoInt
      \/ \E v \in Int, next \in pos + 1 .. Len(buf) : Unpacks(x, v, next)
  BY UnpackIntTyped
<1> HIDE DEF x
<1>4. CASE x = NoInt
  BY <1>1, <1>4, Zenon DEF Reads
<1>5. CASE x # NoInt
  <2>1. PICK v \in Int, next \in pos + 1 .. Len(buf) : Unpacks(x, v, next)
    BY <1>3, <1>5
  <2>2. x.v = v /\ x.next = next
    BY <2>1 DEF Unpacks
  <2>3. Call(<<"int", v>>, next, Tail(todo))
    BY <1>1, <1>5, <2>2, Zenon
  <2>4. Fresh(<<"int", v>>, next) /\ next \in Nat
    <3>1. ~Beyond(<<"int", v>>)
      BY OthersNotBeyond
    <3>2. next \in Nat /\ ~(next > Len(buf))
      BY <1>2
    <3> QED
      BY <3>1, <3>2, Zenon DEF Fresh
  <2> QED
    BY <1>2, <2>3, <2>4, CallsAre, Zenon DEF Reads
<1> QED
  BY <1>4, <1>5

\* nil and the booleans,
LEMMA ConstantReads ==
  ASSUME buf \in Seq(0 .. 255), todo \in Seq(Todo), pos \in Nat, VisitConstant
  PROVE  Reads
<1>1. todo # <<>> /\ ~AtEnd
  BY DEF VisitConstant, AtValue
<1>2. Tail(todo) \in Seq(Todo) /\ Len(buf) \in Nat /\ pos + 1 <= Len(buf)
  BY <1>1, HeadTailProperties, AtFormat
<1> DEFINE call == IF Format = 192 THEN <<"nil">> ELSE <<"bool", Format = 195>>
<1>3. Call(call, pos + 1, Tail(todo))
  BY DEF VisitConstant
<1>4. call \in Calls /\ ~Beyond(call)
  <2>1. (Format = 195) \in BOOLEAN
    OBVIOUS
  <2> QED
    BY <2>1, CallsAre, OthersNotBeyond, Zenon
<1> HIDE DEF call
<1>5. Fresh(call, pos + 1) /\ pos + 1 \in Nat
  BY <1>2, <1>4 DEF Fresh
<1> QED
  BY <1>2, <1>3, <1>4, <1>5, Zenon DEF Reads

\* a string or a binary,
LEMMA StrBinReads ==
  ASSUME buf \in Seq(0 .. 255), todo \in Seq(Todo), pos \in Nat, VisitStrBin
  PROVE  Reads
<1>1. todo # <<>> /\ ~AtEnd
  BY DEF VisitStrBin, AtValue
<1>2. Format \in 0 .. 255
  BY <1>1, AtFormat
<1>3. CASE Format \in 160 .. 191 /\ CallPayload("str", <<"str">>, pos + 1, Format - 160)
  <2>1. Format - 160 \in Nat /\ pos + 1 \in Nat /\ 0 \in 0 .. 255
    BY <1>2, <1>3
  <2>2. CallPayload("str", IF "str" = "ext" THEN <<"ext", 0>> ELSE <<"str">>, pos + 1, Format - 160)
    BY <1>3
  <2> QED
    BY <1>1, <2>1, <2>2, PayloadReads
<1>4. ASSUME NEW kind \in {"str", "bin"}, NEW k \in 1 .. 3,
             IF UnpackSize(k) = NoInt THEN Ended("failed")
             ELSE CallPayload(kind, <<kind>>, UnpackSize(k).next, UnpackSize(k).v)
      PROVE  Reads
  <2>1. CASE UnpackSize(k) = NoInt
    BY <1>4, <2>1, Zenon DEF Reads
  <2>2. CASE UnpackSize(k) # NoInt
    <3>1. PICK v \in Nat, next \in pos + 2 .. Len(buf) : Unpacks(UnpackSize(k), v, next)
      BY <2>2, UnpackSizeTyped
    <3>2. UnpackSize(k).v = v /\ UnpackSize(k).next = next
      BY <3>1 DEF Unpacks
    <3>3. CallPayload(kind, <<kind>>, next, v)
      BY <1>4, <2>2, <3>2, Zenon
    <3>4. CallPayload(kind, IF kind = "ext" THEN <<"ext", 0>> ELSE <<kind>>, next, v)
      BY <3>3
    <3>5. next \in Nat /\ next <= Len(buf) /\ 0 \in 0 .. 255 /\ kind \in {"str", "bin", "ext"}
      BY LenProperties
    <3> QED
      BY <1>1, <3>4, <3>5, PayloadReads
  <2> QED
    BY <2>1, <2>2
<1> QED
  BY <1>3, <1>4, Zenon DEF VisitStrBin

\* an extension.
LEMMA ExtReads ==
  ASSUME buf \in Seq(0 .. 255), todo \in Seq(Todo), pos \in Nat, VisitExt
  PROVE  Reads
<1> DEFINE e == "ext"
<1> HIDE DEF e
<1>1. todo # <<>> /\ ~AtEnd
  BY DEF VisitExt, AtValue
<1>2. Len(buf) \in Nat /\ pos + 1 <= Len(buf)
  BY <1>1, AtFormat
<1>3. ASSUME NEW n \in {1, 2, 4, 8},
             IF Has(pos, 2) THEN CallPayload("ext", <<"ext", buf[pos + 2]>>, pos + 2, n) ELSE Ended("failed")
      PROVE  Reads
  <2>1. CASE ~Has(pos, 2)
    BY <1>3, <2>1, Zenon DEF Reads
  <2>2. CASE Has(pos, 2)
    <3>1. pos + 2 \in 1 .. Len(buf) /\ n \in Nat /\ pos + 2 \in Nat
      BY <1>2, <2>2 DEF Has
    <3>2. buf[pos + 2] \in 0 .. 255
      BY <3>1, ElementOfSeq
    <3>3. CallPayload(e, IF e = "ext" THEN <<"ext", buf[pos + 2]>> ELSE <<e>>, pos + 2, n)
      BY <1>3, <2>2 DEF e
    <3>4. e \in {"str", "bin", "ext"} /\ e # "str"
      BY DEF e
    <3>5. pos + 2 <= Len(buf)
      BY <1>2, <3>1
    <3> QED
      BY <1>1, <3>1, <3>2, <3>3, <3>4, <3>5, PayloadReads, Zenon
  <2> QED
    BY <2>1, <2>2
<1>4. ASSUME NEW k \in 1 .. 3,
             IF UnpackSize(k) # NoInt /\ Has(UnpackSize(k).next, 1)
             THEN CallPayload("ext", <<"ext", buf[UnpackSize(k).next + 1]>>, UnpackSize(k).next + 1, UnpackSize(k).v)
             ELSE Ended("failed")
      PROVE  Reads
  <2>1. CASE ~(UnpackSize(k) # NoInt /\ Has(UnpackSize(k).next, 1))
    BY <1>4, <2>1, Zenon DEF Reads
  <2>2. CASE UnpackSize(k) # NoInt /\ Has(UnpackSize(k).next, 1)
    <3>1. PICK v \in Nat, next \in pos + 2 .. Len(buf) : Unpacks(UnpackSize(k), v, next)
      BY <2>2, UnpackSizeTyped
    <3>2. UnpackSize(k).v = v /\ UnpackSize(k).next = next
      BY <3>1 DEF Unpacks
    <3>3. CallPayload("ext", <<"ext", buf[next + 1]>>, next + 1, v) /\ Has(next, 1)
      BY <1>4, <2>2, <3>2, Zenon
    <3>4. next + 1 \in 1 .. Len(buf) /\ next + 1 \in Nat
      BY <1>2, <3>3 DEF Has
    <3>5. buf[next + 1] \in 0 .. 255
      BY <3>4, ElementOfSeq
    <3>6. CallPayload(e, IF e = "ext" THEN <<"ext", buf[next + 1]>> ELSE <<e>>, next + 1, v)
      BY <3>3 DEF e
    <3>7. e \in {"str", "bin", "ext"} /\ e # "str"
      BY DEF e
    <3>8. next + 1 <= Len(buf)
      BY <1>2, <3>4
    <3> QED
      BY <1>1, <3>4, <3>5, <3>6, <3>7, <3>8, PayloadReads, Zenon
  <2> QED
    BY <2>1, <2>2
<1> QED
  BY <1>3, <1>4, Zenon DEF VisitExt

\* What VisitContainer adds is the agenda of the container.
LEMMA RestIs ==
  ASSUME NEW kind \in Kinds, NEW n \in Nat
  PROVE  Rest(kind, n) = Agenda(kind, Parts(kind, n)) /\ Parts(kind, n) \in Nat /\ Rest(kind, n) \in Seq(Todo)
<1>1. Rest(kind, n) = Agenda(kind, Parts(kind, n))
  BY Zenon DEF Rest, Agenda, Edge, VisitNext
<1>2. Parts(kind, n) \in Nat
  BY DEF Parts
<1>3. Agenda(kind, Parts(kind, n)) \in Seq(Todo)
  BY <1>2, AgendaItems
<1> QED
  BY <1>1, <1>2, <1>3

\* The formats of the containers.
Fix(kind) == IF kind = "array" THEN 144 ELSE 128
Long(kind) == IF kind = "array" THEN 220 ELSE 222

\* What VisitContainer does with a container of that kind.
Opens(kind, n, next) == Call(<<"start", kind, n>>, next, Rest(kind, n) \o Tail(todo))

\* VisitContainer, with its two ways of a size.
LEMMA ContainerStep ==
  ASSUME VisitContainer
  PROVE  \E kind \in Kinds :
        \/ Format \in Fix(kind) .. Fix(kind) + 15 /\ Opens(kind, Format - Fix(kind), pos + 1)
        \/ \E k \in {0, 1} :
             /\ Format = Long(kind) + k
             /\ IF Has(pos + 1, 2 * (k + 1))
                THEN Opens(kind, Number(SubSeq(buf, pos + 2, pos + 1 + 2 * (k + 1)), FALSE), pos + 1 + 2 * (k + 1))
                ELSE Ended("failed")
<1>1. PICK kind \in {"array", "map"} :
        \/ Format \in Fix(kind) .. Fix(kind) + 15 /\ Opens(kind, Format - Fix(kind), pos + 1)
        \/ \E k \in {0, 1} :
             /\ Format = Long(kind) + k
             /\ IF Has(pos + 1, 2 * (k + 1))
                THEN Opens(kind, Number(SubSeq(buf, pos + 2, pos + 1 + 2 * (k + 1)), FALSE), pos + 1 + 2 * (k + 1))
                ELSE Ended("failed")
  BY DEF VisitContainer, Fix, Long, Opens
<1> QED
  BY <1>1, Zenon DEF Kinds

\* The last of the actions over a value: a container.
LEMMA ContainerReads ==
  ASSUME buf \in Seq(0 .. 255), todo \in Seq(Todo), pos \in Nat, VisitContainer
  PROVE  Reads
<1>1. todo # <<>> /\ ~AtEnd
  BY DEF VisitContainer, AtValue
<1>2. Len(buf) \in Nat /\ pos + 1 <= Len(buf) /\ Format \in 0 .. 255 /\ Tail(todo) \in Seq(Todo)
  BY <1>1, AtFormat, HeadTailProperties
<1>3. ASSUME NEW kind \in Kinds, NEW n \in Nat, NEW next \in 0 .. Len(buf), Opens(kind, n, next)
      PROVE  Reads
  <2> DEFINE call == <<"start", kind, n>>
             rest == Rest(kind, n) \o Tail(todo)
  <2>1. call \in Calls /\ ~Beyond(call)
    BY CallsAre, OthersNotBeyond, Zenon
  <2>2. rest \in Seq(Todo)
    BY <1>2, RestIs, ConcatProperties
  <2>3. Call(call, next, rest)
    BY <1>3, Zenon DEF Opens
  <2>4. next \in Nat /\ ~(next > Len(buf))
    BY <1>2
  <2> HIDE DEF call, rest
  <2> QED
    BY <2>1, <2>2, <2>3, <2>4, Zenon DEF Reads, Fresh
<1>4. PICK kind \in Kinds :
        \/ Format \in Fix(kind) .. Fix(kind) + 15 /\ Opens(kind, Format - Fix(kind), pos + 1)
        \/ \E k \in {0, 1} :
             IF Has(pos + 1, 2 * (k + 1))
             THEN Opens(kind, Number(SubSeq(buf, pos + 2, pos + 1 + 2 * (k + 1)), FALSE), pos + 1 + 2 * (k + 1))
             ELSE Ended("failed")
  BY ContainerStep, Zenon
<1>5. CASE Format \in Fix(kind) .. Fix(kind) + 15 /\ Opens(kind, Format - Fix(kind), pos + 1)
  <2>1. Fix(kind) \in Nat
    BY DEF Fix
  <2>2. Format - Fix(kind) \in Nat /\ pos + 1 \in 0 .. Len(buf)
    BY <1>2, <1>5, <2>1
  <2> QED
    BY <1>3, <1>5, <2>2
<1>6. ASSUME NEW k \in {0, 1},
             IF Has(pos + 1, 2 * (k + 1))
             THEN Opens(kind, Number(SubSeq(buf, pos + 2, pos + 1 + 2 * (k + 1)), FALSE), pos + 1 + 2 * (k + 1))
             ELSE Ended("failed")
      PROVE  Reads
  <2> DEFINE w == 2 * (k + 1)
  <2>1. CASE ~Has(pos + 1, w)
    BY <1>6, <2>1, Zenon DEF Reads
  <2>2. CASE Has(pos + 1, w)
    <3> DEFINE q == pos + 1
               m == Number(SubSeq(buf, pos + 2, pos + 1 + w), FALSE)
    <3>1. w \in Nat \ {0} /\ q \in Nat /\ pos + 2 = q + 1
      OBVIOUS
    <3>2. q + w <= Len(buf)
      BY <2>2, <3>1 DEF Has
    <3> HIDE DEF w, q
    <3>3. Behind(buf, q, w, SubSeq(buf, q + 1, q + w))
      BY <3>1, <3>2, BytesBehind, Zenon
    <3>4. Number(SubSeq(buf, q + 1, q + w), FALSE) \in Nat
      <4> DEFINE s == SubSeq(buf, q + 1, q + w)
      <4> HIDE DEF s
      <4>1. s \in Seq(0 .. 255) /\ Len(s) # 0
        BY <3>1, <3>3, Zenon DEF Behind, s
      <4>2. OfType(Number(s, FALSE), FALSE)
        BY <4>1, NumberTyped, Zenon
      <4> QED
        BY <4>2, Zenon DEF OfType, s
    <3>5. m \in Nat
      BY <3>1, <3>4 DEF q
    <3>6. q + w \in 0 .. Len(buf)
      BY <1>2, <3>1, <3>2
    <3>7. Opens(kind, m, q + w)
      BY <1>6, <2>2, Zenon DEF q, w
    <3> HIDE DEF m
    <3> QED
      BY <1>3, <3>5, <3>6, <3>7
  <2> QED
    BY <2>1, <2>2
<1> QED
  BY <1>4, <1>5, <1>6

-----------------------------------------------------------------------------
\* The bytes that are packed.

Byte == 0 .. 255

\* Bytes and then bytes.
LEMMA Chains ==
  ASSUME NEW T, NEW s \in Seq(T), NEW t \in Seq(T)
  PROVE  s \o t \in Seq(T) /\ Len(s \o t) = Len(s) + Len(t)
BY ConcatProperties

\* w bytes.
IsRow(s, w) == s \in Seq(Byte) /\ Len(s) = w

\* A number of w bytes is packed as w bytes.
LEMMA BytesRow ==
  ASSUME NEW v \in Int, NEW w \in Nat \ {0}
  PROVE  IsRow(Bytes(v, w), w)
<1>1. Bytes(v, w) \in Seq(0 .. 255) /\ Len(Bytes(v, w)) = w
  BY BytesAre, Zenon
<1> QED
  BY <1>1, Zenon DEF IsRow, Byte

\* A single byte.
LEMMA OneByte ==
  ASSUME NEW b \in Byte
  PROVE  <<b>> \in Seq(Byte) /\ Len(<<b>>) = 1 /\ <<b>>[1] = b
OBVIOUS

\* pack_int writes bytes, one at least.
LEMMA PackIntBytes ==
  ASSUME NEW type \in IntNames, NEW v \in Int
  PROVE  PackInt(type, v) \in Seq(Byte) /\ Len(PackInt(type, v)) >= 1
<1> DEFINE w == Width[type]
           f == IntFormat[type]
<1>1. w \in Nat \ {0} /\ f \in Byte
  BY Formats DEF Byte
<1>2. 1 \in Nat \ {0}
  OBVIOUS
<1>3. Bytes(v, 1) \in Seq(Byte) /\ Len(Bytes(v, 1)) = 1
  <2>1. IsRow(Bytes(v, 1), 1)
    BY <1>2, BytesRow, Zenon
  <2> QED
    BY <2>1, Zenon DEF IsRow
<1>4. Bytes(v, w) \in Seq(Byte) /\ Len(Bytes(v, w)) = w
  <2>1. IsRow(Bytes(v, w), w)
    BY <1>1, BytesRow, Zenon
  <2> QED
    BY <2>1, Zenon DEF IsRow
<1>5. <<f>> \in Seq(Byte) /\ Len(<<f>>) = 1
  BY <1>1, OneByte
<1>6. <<f>> \o Bytes(v, w) \in Seq(Byte) /\ Len(<<f>> \o Bytes(v, w)) = 1 + w
  BY <1>4, <1>5, Chains
<1>7. 1 + w >= 1
  BY <1>1
<1>8. PackInt(type, v) = Bytes(v, 1) \/ PackInt(type, v) = <<f>> \o Bytes(v, w)
  BY Zenon DEF PackInt
<1>9. Len(Bytes(v, 1)) >= 1
  <2>1. \A m \in {1} : m >= 1
    OBVIOUS
  <2> QED
    BY <1>3, <2>1, Zenon
<1>10. Len(<<f>> \o Bytes(v, w)) >= 1
  BY <1>6, <1>7
<1> QED
  BY <1>3, <1>6, <1>8, <1>9, <1>10, Zenon

\* So does what packs a length.
LEMMA SizedBytes ==
  ASSUME NEW f \in 0 .. 253, NEW n \in Nat
  PROVE  Sized(f, n) \in Seq(Byte) /\ Len(Sized(f, n)) >= 1
<1>1. ASSUME NEW b \in Byte, NEW type \in IntNames
      PROVE  <<b>> \o PackInt(type, n) \in Seq(Byte) /\ Len(<<b>> \o PackInt(type, n)) >= 1
  <2> DEFINE p == PackInt(type, n)
             d == <<b>> \o p
  <2>1. p \in Seq(Byte) /\ Len(p) >= 1
    BY PackIntBytes
  <2>2. <<b>> \in Seq(Byte) /\ Len(<<b>>) = 1
    BY OneByte
  <2> HIDE DEF p
  <2>3. d \in Seq(Byte) /\ Len(d) = 1 + Len(p)
    BY <2>1, <2>2, Chains
  <2>4. Len(p) \in Nat
    BY <2>1, LenProperties
  <2> HIDE DEF d
  <2>5. d \in Seq(Byte) /\ Len(d) >= 1
    BY <2>3, <2>4
  <2> QED
    BY <2>5 DEF d, p
<1>2. f \in Byte /\ f + 1 \in Byte /\ f + 2 \in Byte
  BY DEF Byte
<1>3. "uint8" \in IntNames /\ "uint16" \in IntNames /\ "uint32" \in IntNames
  BY DEF IntNames
<1> DEFINE D == \E b \in Byte, type \in IntNames : Sized(f, n) = <<b>> \o PackInt(type, n)
<1>4. D
  <2>1. CASE n <= 255
    <3>1. Sized(f, n) = <<f>> \o PackInt("uint8", n)
      BY <2>1 DEF Sized
    <3> QED
      BY <1>2, <1>3, <3>1, Zenon
  <2>2. CASE ~(n <= 255) /\ n <= 65535
    <3>1. Sized(f, n) = <<f + 1>> \o PackInt("uint16", n)
      BY <2>2 DEF Sized
    <3> QED
      BY <1>2, <1>3, <3>1, Zenon
  <2>3. CASE ~(n <= 255) /\ ~(n <= 65535)
    <3>1. Sized(f, n) = <<f + 2>> \o PackInt("uint32", n)
      BY <2>3 DEF Sized
    <3> QED
      BY <1>2, <1>3, <3>1, Zenon
  <2> HIDE DEF D
  <2> QED
    BY <2>1, <2>2, <2>3
<1> QED
  BY <1>1, <1>4

\* A payload is of the size it is packed with.
LEMMA PayloadBytes ==
  ASSUME NEW n \in Nat
  PROVE  Payload(n) \in Seq(Byte) /\ Len(Payload(n)) = n
BY DEF Payload, Byte

\* The bytes of a value that is packed at p, the call they stand for and what
\* is lost of it.
PackHead(kind, n) == IF kind = "array" THEN PackAggregate(144, 220, n) ELSE PackAggregate(128, 222, n)
Written(p, b, call, kinds) ==
  \/ b = <<192>> /\ call = <<"nil">> /\ kinds = {}
  \/ \E x \in BOOLEAN : b = <<IF x THEN 195 ELSE 194>> /\ call = <<"bool", x>> /\ kinds = {}
  \/ \E x \in Ints : /\ b = PackInt(x[1], x[2]) /\ call = <<"int", x[2]>>
                     /\ kinds = IF x[1] = "int8" /\ x[2] < -32 THEN {"int8"} ELSE {}
  \/ \E n \in Sizes["str"] : b = PackString(n) /\ call = <<"str", p + Len(b) - n, n>> /\ kinds = {}
  \/ \E n \in Sizes["bin"] : b = PackBin(n) /\ call = <<"bin", p + Len(b) - n, n>> /\ kinds = {}
  \/ \E n \in Sizes["ext"] : /\ b = PackExt(ExtType, n) /\ call = <<"ext", ExtType, p + Len(b) - n, n>>
                             /\ kinds = IF n = 16 THEN {"ext16"} ELSE {}
  \/ \E kind \in Kinds : \E n \in Sizes[kind] : b = PackHead(kind, n) /\ call = <<"start", kind, n>> /\ kinds = {}

\* The assumption on the constants, by the names used here.
LEMMA SizesAre ==
  /\ \A kind \in {"str", "bin", "ext", "array", "map"} : \A n \in Sizes[kind] : n \in Nat /\ Fits(n, 4, FALSE)
  /\ \A x \in Ints : x[1] \in IntNames /\ x[2] \in Int /\ Fits(x[2], Width[x[1]], x[1] \in Signed)
  /\ ExtType \in 0 .. 127
BY MsgPackAssumption, Formats, Zenon

\* A string or a binary is a head and its payload.
LEMMA StringBytes ==
  ASSUME NEW n \in Nat
  PROVE  /\ PackString(n) \in Seq(Byte) /\ Len(PackString(n)) >= n + 1
         /\ PackBin(n) \in Seq(Byte) /\ Len(PackBin(n)) >= n + 1
<1>1. ASSUME NEW h \in Seq(Byte), Len(h) >= 1
      PROVE  h \o Payload(n) \in Seq(Byte) /\ Len(h \o Payload(n)) >= n + 1
  <2>1. Payload(n) \in Seq(Byte) /\ Len(Payload(n)) = n
    BY PayloadBytes
  <2>2. h \o Payload(n) \in Seq(Byte) /\ Len(h \o Payload(n)) = Len(h) + n
    BY <2>1, Chains
  <2>3. Len(h) + n >= n + 1
    BY <1>1, LenProperties
  <2> QED
    BY <2>2, <2>3
<1>2. Sized(217, n) \in Seq(Byte) /\ Len(Sized(217, n)) >= 1
  <2>1. 217 \in 0 .. 253
    OBVIOUS
  <2> QED
    BY <2>1, SizedBytes
<1>3. Sized(196, n) \in Seq(Byte) /\ Len(Sized(196, n)) >= 1
  <2>1. 196 \in 0 .. 253
    OBVIOUS
  <2> QED
    BY <2>1, SizedBytes
<1>4. n <= 31 => <<160 + n>> \in Seq(Byte) /\ Len(<<160 + n>>) >= 1
  <2>1. n <= 31 => 160 + n \in Byte
    BY DEF Byte
  <2> QED
    BY <2>1, OneByte
<1>5. PackBin(n) = Sized(196, n) \o Payload(n)
  BY DEF PackBin
<1>6. PackString(n) = (IF n <= 31 THEN <<160 + n>> ELSE Sized(217, n)) \o Payload(n)
  BY DEF PackString
<1>7. PackBin(n) \in Seq(Byte) /\ Len(PackBin(n)) >= n + 1
  BY <1>1, <1>3, <1>5
<1>8. PackString(n) \in Seq(Byte) /\ Len(PackString(n)) >= n + 1
  <2> DEFINE h == IF n <= 31 THEN <<160 + n>> ELSE Sized(217, n)
  <2>1. h \in Seq(Byte) /\ Len(h) >= 1
    BY <1>2, <1>4
  <2> HIDE DEF h
  <2>2. h \o Payload(n) \in Seq(Byte) /\ Len(h \o Payload(n)) >= n + 1
    BY <1>1, <2>1
  <2> QED
    BY <1>6, <2>2, Zenon DEF h
<1> QED
  BY <1>7, <1>8

\* An extension is a head, its type and its payload.
LEMMA ExtBytes ==
  ASSUME NEW t \in Byte, NEW n \in Nat
  PROVE  PackExt(t, n) \in Seq(Byte) /\ Len(PackExt(t, n)) >= n + 2
<1> DEFINE h == IF n \in DOMAIN FixExt THEN <<FixExt[n]>> ELSE Sized(199, n)
<1>1. h \in Seq(Byte) /\ Len(h) >= 1
  <2>1. CASE n \in DOMAIN FixExt
    <3>1. FixExt[n] \in Byte
      BY <2>1 DEF FixExt, Byte
    <3>2. h = <<FixExt[n]>>
      BY <2>1
    <3> HIDE DEF h
    <3> QED
      BY <3>1, <3>2, OneByte
  <2>2. CASE n \notin DOMAIN FixExt
    <3>1. h = Sized(199, n) /\ 199 \in 0 .. 253
      BY <2>2
    <3> HIDE DEF h
    <3> QED
      BY <3>1, SizedBytes
  <2> QED
    BY <2>1, <2>2
<1>2. PackExt(t, n) = (h \o <<t>>) \o Payload(n)
  BY DEF PackExt
<1> HIDE DEF h
<1>3. <<t>> \in Seq(Byte) /\ Len(<<t>>) = 1
  BY OneByte
<1> DEFINE g == h \o <<t>>
<1>4. g \in Seq(Byte) /\ Len(g) = Len(h) + 1
  BY <1>1, <1>3, Chains
<1>5. Payload(n) \in Seq(Byte) /\ Len(Payload(n)) = n
  BY PayloadBytes
<1> HIDE DEF g
<1>6. g \o Payload(n) \in Seq(Byte) /\ Len(g \o Payload(n)) = Len(g) + n
  BY <1>4, <1>5, Chains
<1>7. Len(g) + n >= n + 2
  BY <1>1, <1>4, LenProperties
<1> QED
  BY <1>2, <1>6, <1>7 DEF g

\* One byte at least.
SomeBytes(s) == s \in Seq(Byte) /\ Len(s) >= 1

\* The head of a container is a byte at least.
LEMMA HeadBytes ==
  ASSUME NEW kind \in Kinds, NEW n \in Nat
  PROVE  PackHead(kind, n) \in Seq(Byte) /\ Len(PackHead(kind, n)) >= 1
<1>1. ASSUME NEW fix \in 0 .. 200, NEW f \in 0 .. 254
      PROVE  SomeBytes(PackAggregate(fix, f, n))
  <2>1. ASSUME NEW g \in Byte, NEW w \in Nat \ {0}
        PROVE  <<g>> \o Bytes(n, w) \in Seq(Byte) /\ Len(<<g>> \o Bytes(n, w)) >= 1
    <3>1. Bytes(n, w) \in Seq(Byte) /\ Len(Bytes(n, w)) = w
      <4>1. n \in Int
        OBVIOUS
      <4> QED
        <5>1. IsRow(Bytes(n, w), w)
          BY <4>1, BytesRow, Zenon
        <5> QED
          BY <5>1, Zenon DEF IsRow
    <3>2. <<g>> \in Seq(Byte) /\ Len(<<g>>) = 1
      BY OneByte
    <3>3. <<g>> \o Bytes(n, w) \in Seq(Byte) /\ Len(<<g>> \o Bytes(n, w)) = 1 + w
      BY <3>1, <3>2, Chains
    <3>4. 1 + w >= 1
      OBVIOUS
    <3> QED
      BY <3>3, <3>4, Zenon
  <2>2. CASE n <= 15
    <3>1. fix + n \in Byte
      BY <2>2 DEF Byte
    <3>2. PackAggregate(fix, f, n) = <<fix + n>>
      BY <2>2 DEF PackAggregate
    <3>3. \A m \in {1} : m >= 1
      OBVIOUS
    <3>4. <<fix + n>> \in Seq(Byte) /\ Len(<<fix + n>>) = 1
      BY <3>1, OneByte, Zenon
    <3> QED
      BY <3>2, <3>3, <3>4, Zenon DEF SomeBytes
  <2>3. CASE ~(n <= 15) /\ n <= 65535
    <3>1. PackAggregate(fix, f, n) = <<f>> \o Bytes(n, 2)
      BY <2>3 DEF PackAggregate
    <3>2. f \in Byte /\ 2 \in Nat \ {0}
      BY DEF Byte
    <3>3. <<f>> \o Bytes(n, 2) \in Seq(Byte) /\ Len(<<f>> \o Bytes(n, 2)) >= 1
      BY <2>1, <3>2
    <3> QED
      BY <3>1, <3>3, Zenon DEF SomeBytes
  <2>4. CASE ~(n <= 15) /\ ~(n <= 65535)
    <3> DEFINE g == f + 1
    <3>1. PackAggregate(fix, f, n) = <<g>> \o Bytes(n, 4)
      BY <2>4 DEF PackAggregate
    <3>2. g \in Byte /\ 4 \in Nat \ {0}
      BY DEF Byte
    <3> HIDE DEF g
    <3>3. <<g>> \o Bytes(n, 4) \in Seq(Byte) /\ Len(<<g>> \o Bytes(n, 4)) >= 1
      BY <2>1, <3>2
    <3> QED
      BY <3>1, <3>3, Zenon DEF SomeBytes
  <2> QED
    BY <2>2, <2>3, <2>4
<1>3. PackHead(kind, n) = PackAggregate(144, 220, n) \/ PackHead(kind, n) = PackAggregate(128, 222, n)
  BY Zenon DEF PackHead
<1> DEFINE array == PackAggregate(144, 220, n)
           map == PackAggregate(128, 222, n)
<1>4. 144 \in 0 .. 200 /\ 128 \in 0 .. 200 /\ 220 \in 0 .. 254 /\ 222 \in 0 .. 254
  OBVIOUS
<1>5. SomeBytes(array)
  BY <1>1, <1>4
<1>6. SomeBytes(map)
  BY <1>1, <1>4
<1>7. SomeBytes(PackHead(kind, n))
  <2> HIDE DEF array, map
  <2>1. PackHead(kind, n) = array \/ PackHead(kind, n) = map
    BY <1>3 DEF array, map
  <2> QED
    BY <2>1, <1>5, <1>6, Zenon
<1> QED
  BY <1>7, Zenon DEF SomeBytes

\* Whatever is written: bytes, one at least, and a call a visitor may get.
LEMMA WrittenIs ==
  ASSUME NEW p \in Nat, NEW b, NEW call, NEW kinds, Written(p, b, call, kinds)
  PROVE  b \in Seq(Byte) /\ Len(b) >= 1 /\ Len(b) \in Nat /\ call \in Calls
<1>0. \A s \in Seq(Byte) : Len(s) \in Nat
  BY LenProperties
<1>1. ASSUME NEW x \in Byte, b = <<x>> PROVE b \in Seq(Byte) /\ Len(b) >= 1
  <2>1. \A m \in {1} : m >= 1
    OBVIOUS
  <2> QED
    BY <1>1, <2>1, OneByte, Zenon
<1>2. CASE b = <<192>> /\ call = <<"nil">>
  <2>1. 192 \in Byte
    BY DEF Byte
  <2> QED
    BY <1>0, <1>1, <1>2, <2>1, CallsAre, Zenon
<1>3. ASSUME NEW x \in BOOLEAN, b = <<IF x THEN 195 ELSE 194>>, call = <<"bool", x>>
      PROVE  b \in Seq(Byte) /\ Len(b) >= 1 /\ Len(b) \in Nat /\ call \in Calls
  <2>1. (IF x THEN 195 ELSE 194) \in Byte
    BY DEF Byte
  <2> QED
    BY <1>0, <1>1, <1>3, <2>1, CallsAre, Zenon
<1>4. ASSUME NEW x \in Ints, b = PackInt(x[1], x[2]), call = <<"int", x[2]>>
      PROVE  b \in Seq(Byte) /\ Len(b) >= 1 /\ Len(b) \in Nat /\ call \in Calls
  BY <1>0, <1>4, SizesAre, PackIntBytes, CallsAre, Zenon
<1>5. ASSUME NEW n \in Nat, NEW t \in Byte, b \in Seq(Byte), Len(b) >= n
      PROVE  /\ <<"str", p + Len(b) - n, n>> \in Calls
             /\ <<"bin", p + Len(b) - n, n>> \in Calls
             /\ <<"ext", t, p + Len(b) - n, n>> \in Calls
  <2> DEFINE q == p + Len(b) - n
  <2>1. q \in Nat
    BY <1>0, <1>5
  <2>2. "str" \in {"str", "bin"} /\ "bin" \in {"str", "bin"}
    OBVIOUS
  <2> HIDE DEF q
  <2>3. <<"str", q, n>> \in Calls /\ <<"bin", q, n>> \in Calls /\ <<"ext", t, q, n>> \in Calls
    BY <2>1, <2>2, CallsAre, Zenon DEF Byte
  <2> QED
    BY <2>3 DEF q
<1>6. ASSUME NEW m \in Nat, NEW n \in Nat, m >= n + 1 PROVE m >= 1 /\ m >= n
  BY <1>6
<1>7. ASSUME NEW m \in Nat, NEW n \in Nat, m >= n + 2 PROVE m >= 1 /\ m >= n
  BY <1>7
<1>8. ASSUME NEW n \in Sizes["str"], b = PackString(n), call = <<"str", p + Len(b) - n, n>>
      PROVE  b \in Seq(Byte) /\ Len(b) >= 1 /\ Len(b) \in Nat /\ call \in Calls
  <2>1. n \in Nat
    BY SizesAre
  <2>2. b \in Seq(Byte) /\ Len(b) >= 1 /\ Len(b) >= n
    BY <1>0, <1>6, <1>8, <2>1, StringBytes, Zenon
  <2>3. 0 \in Byte
    BY DEF Byte
  <2> QED
    BY <1>0, <1>5, <1>8, <2>1, <2>2, <2>3, Zenon
<1>9. ASSUME NEW n \in Sizes["bin"], b = PackBin(n), call = <<"bin", p + Len(b) - n, n>>
      PROVE  b \in Seq(Byte) /\ Len(b) >= 1 /\ Len(b) \in Nat /\ call \in Calls
  <2>1. n \in Nat
    BY SizesAre
  <2>2. b \in Seq(Byte) /\ Len(b) >= 1 /\ Len(b) >= n
    BY <1>0, <1>6, <1>9, <2>1, StringBytes, Zenon
  <2>3. 0 \in Byte
    BY DEF Byte
  <2> QED
    BY <1>0, <1>5, <1>9, <2>1, <2>2, <2>3, Zenon
<1>10. ASSUME NEW n \in Sizes["ext"], b = PackExt(ExtType, n), call = <<"ext", ExtType, p + Len(b) - n, n>>
       PROVE  b \in Seq(Byte) /\ Len(b) >= 1 /\ Len(b) \in Nat /\ call \in Calls
  <2>1. n \in Nat /\ ExtType \in Byte
    <3>1. ExtType \in Byte
      BY SizesAre DEF Byte
    <3>2. n \in Nat
      BY SizesAre
    <3> QED
      BY <3>1, <3>2
  <2>2. b \in Seq(Byte) /\ Len(b) >= 1 /\ Len(b) >= n
    BY <1>0, <1>7, <1>10, <2>1, ExtBytes, Zenon
  <2> QED
    BY <1>0, <1>5, <1>10, <2>1, <2>2, Zenon
<1>11. ASSUME NEW kind \in Kinds, NEW n \in Sizes[kind], b = PackHead(kind, n), call = <<"start", kind, n>>
       PROVE  b \in Seq(Byte) /\ Len(b) >= 1 /\ Len(b) \in Nat /\ call \in Calls
  <2>1. n \in Nat
    BY SizesAre DEF Kinds
  <2> QED
    BY <1>0, <1>11, <2>1, HeadBytes, CallsAre, Zenon
<1> QED
  BY <1>2, <1>3, <1>4, <1>8, <1>9, <1>10, <1>11, Zenon DEF Written

-----------------------------------------------------------------------------
\* The steps of the client.

\* The calls that come after call, for a client inside the containers cs, and
\* the containers that are then left.
NotStart(call) == ~(\E kind \in Kinds, n \in Nat : call = <<"start", kind, n>>)
Follows(call, cs, q, left) ==
  \/ NotStart(call) /\ q = After(cs).calls /\ left = After(cs).open
  \/ \E kind \in Kinds :
       /\ call = <<"start", kind, 0>>
       /\ q = Cat(<< <<"end", kind>> >>, After(cs).calls) /\ left = After(cs).open
  \/ \E kind \in Kinds, n \in Nat \ {0} :
       /\ call = <<"start", kind, n>>
       /\ q = <<StartPart(First(kind, Parts(kind, n)))>> /\ left = Append(cs, First(kind, Parts(kind, n)))

\* The calls of values without parts do not start anything.
LEMMA ValuesNotStart ==
  ASSUME NEW x, NEW p, NEW n, NEW t
  PROVE  /\ NotStart(<<"nil">>) /\ NotStart(<<"bool", x>>) /\ NotStart(<<"int", x>>)
         /\ NotStart(<<"str", p, n>>) /\ NotStart(<<"bin", p, n>>) /\ NotStart(<<"ext", t, p, n>>)
BY DEF NotStart

\* One pack call.
Packs(b, call, kinds, calls, left) ==
  /\ Written(Len(buf), b, call, kinds) /\ Pack(b, calls, left, kinds)
  /\ After(open).calls \in Seq(Around) => \E q : Follows(call, open, q, left) /\ calls = Cat(<<call>>, q)

\* PackValue of a value without parts.
LEMMA ValuePacks ==
  ASSUME NEW b, NEW call, NEW kinds, Written(Len(buf), b, call, kinds), NotStart(call),
         PackValue(b, <<call>>, kinds)
  PROVE  \E calls, left : Packs(b, call, kinds, calls, left)
<1> DEFINE q == After(open).calls
           left == After(open).open
<1>1. Pack(b, <<call>> \o q, left, kinds)
  BY Zenon DEF PackValue
<1>2. Follows(call, open, q, left)
  BY Zenon DEF Follows
<1>3. <<call>> \o q = Cat(<<call>>, q)
  BY Zenon DEF Cat
<1>4. Packs(b, call, kinds, <<call>> \o q, left)
  BY <1>1, <1>2, <1>3, Zenon DEF Packs
<1> QED
  BY <1>4, Zenon

\* Every pack call of the client is one: of a container,
LEMMA ContainerPacks ==
  ASSUME PackContainer
  PROVE  \E b, call, kinds, calls, left : Packs(b, call, kinds, calls, left)
<1>0. PICK kind \in Kinds : \E n \in Sizes[kind] :
        IF n = 0 THEN PackValue(PackHead(kind, n), <<<<"start", kind, n>>, <<"end", kind>>>>, {})
        ELSE Pack(PackHead(kind, n), <<<<"start", kind, n>>, StartPart(First(kind, Parts(kind, n)))>>,
                  Append(open, First(kind, Parts(kind, n))), {})
  BY Zenon DEF PackContainer, Kinds, PackHead, First
<1>1. PICK n \in Sizes[kind] :
        IF n = 0 THEN PackValue(PackHead(kind, n), <<<<"start", kind, n>>, <<"end", kind>>>>, {})
        ELSE Pack(PackHead(kind, n), <<<<"start", kind, n>>, StartPart(First(kind, Parts(kind, n)))>>,
                  Append(open, First(kind, Parts(kind, n))), {})
  BY <1>0
<1> DEFINE b == PackHead(kind, n)
           call == <<"start", kind, n>>
           last == <<"end", kind>>
           c == First(kind, Parts(kind, n))
<1>2. Written(Len(buf), b, call, {})
  BY Zenon DEF Written
<1>3. n \in Nat
  BY SizesAre DEF Kinds
<1>4. CASE n = 0
  <2> DEFINE a == After(open).calls
             left == After(open).open
             q == Cat(<<last>>, a)
             calls == <<call, last>> \o a
  <2>1. Pack(b, calls, left, {})
    BY <1>1, <1>4, Zenon DEF PackValue
  <2>2. Follows(call, open, q, left)
    BY <1>4, Zenon DEF Follows
  <2>3. ASSUME a \in Seq(Around) PROVE calls = Cat(<<call>>, q)
    <3> DEFINE T == Around \cup {call, last}
    <3>1. call \in T /\ last \in T /\ a \in Seq(T)
      BY <2>3
    <3> HIDE DEF T, call, last, a
    <3>2. Cat(<<call, last>>, a) = Cat(<<call>>, Cat(<<last>>, a))
      BY <3>1, PairThen
    <3> QED
      BY <3>2, Zenon DEF Cat
  <2>4. Packs(b, call, {}, calls, left)
    <3> HIDE DEF b, call, q, calls, left
    <3> QED
      BY <1>2, <2>1, <2>2, <2>3, Zenon DEF Packs, a
  <2> QED
    BY <2>4, Zenon
<1>5. CASE n # 0
  <2>1. Pack(b, <<call, StartPart(c)>>, Append(open, c), {})
    BY <1>1, <1>5, Zenon
  <2>2. n \in Nat \ {0}
    BY <1>3, <1>5
  <2>3. Follows(call, open, <<StartPart(c)>>, Append(open, c))
    BY <2>2, Zenon DEF Follows
  <2>4. <<call, StartPart(c)>> = Cat(<<call>>, <<StartPart(c)>>)
    BY Pair
  <2>5. Packs(b, call, {}, <<call, StartPart(c)>>, Append(open, c))
    BY <1>2, <2>1, <2>3, <2>4, Zenon DEF Packs
  <2> QED
    BY <2>5, Zenon
<1> QED
  BY <1>4, <1>5

\* of nil, a boolean or an integer,
LEMMA ScalarPacks ==
  ASSUME PackScalar
  PROVE  \E b, call, kinds, calls, left : Packs(b, call, kinds, calls, left)
<1>1. CASE PackValue(<<192>>, << <<"nil">> >>, {})
  <2>1. Written(Len(buf), <<192>>, <<"nil">>, {})
    BY Zenon DEF Written
  <2> QED
    BY <1>1, <2>1, ValuesNotStart, ValuePacks
<1>2. ASSUME NEW x \in BOOLEAN, PackValue(<<IF x THEN 195 ELSE 194>>, << <<"bool", x>> >>, {})
      PROVE  \E b, call, kinds, calls, left : Packs(b, call, kinds, calls, left)
  <2> DEFINE b == <<IF x THEN 195 ELSE 194>>
             call == <<"bool", x>>
  <2>1. Written(Len(buf), b, call, {}) /\ NotStart(call)
    BY ValuesNotStart, Zenon DEF Written
  <2>2. PackValue(b, <<call>>, {})
    BY <1>2
  <2> HIDE DEF b, call
  <2> QED
    BY <2>1, <2>2, ValuePacks
<1>3. ASSUME NEW x \in Ints,
             PackValue(PackInt(x[1], x[2]), << <<"int", x[2]>> >>, IF x[1] = "int8" /\ x[2] < -32 THEN {"int8"} ELSE {})
      PROVE  \E b, call, kinds, calls, left : Packs(b, call, kinds, calls, left)
  <2> DEFINE b == PackInt(x[1], x[2])
             call == <<"int", x[2]>>
             kinds == IF x[1] = "int8" /\ x[2] < -32 THEN {"int8"} ELSE {}
  <2>1. Written(Len(buf), b, call, kinds) /\ NotStart(call)
    BY ValuesNotStart, Zenon DEF Written
  <2>2. PackValue(b, <<call>>, kinds)
    BY <1>3
  <2> HIDE DEF b, call, kinds
  <2> QED
    BY <2>1, <2>2, ValuePacks
<1> QED
  BY <1>1, <1>2, <1>3 DEF PackScalar

\* of a string, a binary or an extension.
LEMMA BytesPacks ==
  ASSUME PackBytes
  PROVE  \E b, call, kinds, calls, left : Packs(b, call, kinds, calls, left)
<1>1. ASSUME NEW n \in Sizes["str"],
             PackValue(PackString(n), << <<"str", Len(buf) + Len(PackString(n)) - n, n>> >>, {})
      PROVE  \E b, call, kinds, calls, left : Packs(b, call, kinds, calls, left)
  <2> DEFINE b == PackString(n)
             call == <<"str", Len(buf) + Len(b) - n, n>>
  <2>1. Written(Len(buf), b, call, {}) /\ NotStart(call)
    BY ValuesNotStart, Zenon DEF Written
  <2>2. PackValue(b, <<call>>, {})
    BY <1>1
  <2> HIDE DEF b, call
  <2> QED
    BY <2>1, <2>2, ValuePacks
<1>2. ASSUME NEW n \in Sizes["bin"],
             PackValue(PackBin(n), << <<"bin", Len(buf) + Len(PackBin(n)) - n, n>> >>, {})
      PROVE  \E b, call, kinds, calls, left : Packs(b, call, kinds, calls, left)
  <2> DEFINE b == PackBin(n)
             call == <<"bin", Len(buf) + Len(b) - n, n>>
  <2>1. Written(Len(buf), b, call, {}) /\ NotStart(call)
    BY ValuesNotStart, Zenon DEF Written
  <2>2. PackValue(b, <<call>>, {})
    BY <1>2
  <2> HIDE DEF b, call
  <2> QED
    BY <2>1, <2>2, ValuePacks
<1>3. ASSUME NEW n \in Sizes["ext"],
             PackValue(PackExt(ExtType, n), << <<"ext", ExtType, Len(buf) + Len(PackExt(ExtType, n)) - n, n>> >>,
                       IF n = 16 THEN {"ext16"} ELSE {})
      PROVE  \E b, call, kinds, calls, left : Packs(b, call, kinds, calls, left)
  <2> DEFINE b == PackExt(ExtType, n)
             call == <<"ext", ExtType, Len(buf) + Len(b) - n, n>>
             kinds == IF n = 16 THEN {"ext16"} ELSE {}
  <2>1. Written(Len(buf), b, call, kinds) /\ NotStart(call)
    BY ValuesNotStart, Zenon DEF Written
  <2>2. PackValue(b, <<call>>, kinds)
    BY <1>3
  <2> HIDE DEF b, call, kinds
  <2> QED
    BY <2>1, <2>2, ValuePacks
<1> QED
  BY <1>1, <1>2, <1>3, Zenon DEF PackBytes

\* So each of the client's actions is.
LEMMA PackStep ==
  ASSUME PackScalar \/ PackBytes \/ PackContainer
  PROVE  \E b, call, kinds, calls, left : Packs(b, call, kinds, calls, left)
BY ContainerPacks, ScalarPacks, BytesPacks, Zenon

-----------------------------------------------------------------------------
\* EndOfBuffer.

\* What EndOfBuffer says of the calls s, a position p and a buffer b, and the
\* converse of its second half.
Over(call, b) == call[1] \in {"str", "bin", "ext"} /\ call[Len(call) - 1] + Last(call) > Len(b)
EndIs(s, p, b) ==
  /\ \A i \in DOMAIN s : Over(s[i], b) => s[i][1] = "str" /\ \A j \in i + 1 .. Len(s) : ~IsValue(s[j])
  /\ p > Len(b) <=> \E i \in DOMAIN s : Over(s[i], b)

\* The inductive invariant of EndOfBuffer.
EInv == /\ buf \in Seq(Byte) /\ pos \in Nat /\ seen \in Seq(Calls) /\ todo \in Seq(Todo)
        /\ phase = "pack" => seen = <<>> /\ pos = 0 /\ todo = <<>>
        /\ EndIs(seen, pos, buf)

\* EndIs says EndOfBuffer, and Over is Beyond.
LEMMA EndIsEnd ==
  /\ EndIs(seen, pos, buf) => EndOfBuffer
  /\ \A call : Beyond(call) <=> Over(call, buf)
BY Zenon DEF EndIs, EndOfBuffer, Over, Beyond

\* EndIs holds before the first call.
LEMMA EndAtStart ==
  ASSUME NEW b \in Seq(Byte)
  PROVE  EndIs(<<>>, 0, b)
<1>1. Len(b) \in Nat /\ DOMAIN <<>> = {}
  BY LenProperties
<1>2. ~(0 > Len(b))
  BY <1>1
<1> QED
  BY <1>1, <1>2, Zenon DEF EndIs

\* One more call: of a value, while the position is in the buffer, or around
\* one.
LEMMA EndAppend ==
  ASSUME NEW s \in Seq(Calls), NEW p \in Nat, NEW b \in Seq(Byte), EndIs(s, p, b),
         NEW call \in Calls, NEW next \in Nat,
         \/ p <= Len(b) /\ (Over(call, b) <=> next > Len(b)) /\ (Over(call, b) => call[1] = "str")
         \/ next = p /\ ~IsValue(call) /\ ~Over(call, b)
  PROVE  EndIs(Append(s, call), next, b)
<1> DEFINE a == Append(s, call)
           n == Len(s)
<1>1. a \in Seq(Calls) /\ Len(a) = n + 1 /\ (\A i \in 1 .. n : a[i] = s[i]) /\ a[n + 1] = call
  BY AppendProperties
<1>2. n \in Nat /\ DOMAIN s = 1 .. n /\ DOMAIN a = 1 .. n + 1 /\ Len(b) \in Nat
  BY <1>1, LenProperties
<1>3. /\ \A i \in 1 .. n : Over(s[i], b) => s[i][1] = "str" /\ \A j \in i + 1 .. n : ~IsValue(s[j])
      /\ p > Len(b) <=> \E i \in 1 .. n : Over(s[i], b)
  BY <1>2, Zenon DEF EndIs
<1> HIDE DEF a, n
<1>4. CASE p <= Len(b) /\ (Over(call, b) <=> next > Len(b)) /\ (Over(call, b) => call[1] = "str")
  <2>1. \A i \in 1 .. n : ~Over(s[i], b)
    BY <1>2, <1>3, <1>4
  <2>2. \A i \in 1 .. n + 1 : Over(a[i], b) => i = n + 1
    BY <1>1, <1>2, <2>1
  <2>3. ASSUME NEW i \in 1 .. n + 1, Over(a[i], b)
        PROVE  a[i][1] = "str" /\ \A j \in i + 1 .. n + 1 : ~IsValue(a[j])
    <3>1. i = n + 1
      BY <2>2, <2>3
    <3>2. a[i] = call /\ call[1] = "str"
      BY <1>1, <1>4, <2>3, <3>1, Zenon
    <3>3. \A j \in i + 1 .. n + 1 : FALSE
      BY <1>2, <3>1
    <3> QED
      BY <3>2, <3>3, Zenon
  <2>4. next > Len(b) <=> \E i \in 1 .. n + 1 : Over(a[i], b)
    <3>1. n + 1 \in 1 .. n + 1
      BY <1>2
    <3> QED
      BY <1>1, <1>4, <2>2, <3>1, Zenon
  <2> QED
    BY <1>1, <1>2, <2>3, <2>4, Zenon DEF EndIs, a
<1>5. CASE next = p /\ ~IsValue(call) /\ ~Over(call, b)
  <2>1. ASSUME NEW i \in 1 .. n + 1, Over(a[i], b)
        PROVE  i \in 1 .. n /\ Over(s[i], b) /\ a[i] = s[i]
    BY <1>1, <1>2, <1>5, <2>1
  <2>2. ASSUME NEW i \in 1 .. n + 1, Over(a[i], b)
        PROVE  a[i][1] = "str" /\ \A j \in i + 1 .. n + 1 : ~IsValue(a[j])
    <3>1. i \in 1 .. n /\ Over(s[i], b) /\ a[i] = s[i]
      BY <2>1, <2>2
    <3>2. s[i][1] = "str" /\ \A j \in i + 1 .. n : ~IsValue(s[j])
      BY <1>3, <3>1, Zenon
    <3>3. ASSUME NEW j \in i + 1 .. n + 1 PROVE ~IsValue(a[j])
      <4>1. CASE j = n + 1
        BY <1>1, <1>5, <4>1, Zenon
      <4>2. CASE j # n + 1
        <5>1. j \in i + 1 .. n /\ j \in 1 .. n
          BY <1>2, <4>2
        <5> QED
          BY <1>1, <3>2, <5>1, Zenon
      <4> QED
        BY <4>1, <4>2
    <3> QED
      BY <3>1, <3>2, <3>3, Zenon
  <2>3. next > Len(b) <=> \E i \in 1 .. n + 1 : Over(a[i], b)
    <3>1. \A i \in 1 .. n : i \in 1 .. n + 1 /\ a[i] = s[i]
      BY <1>1, <1>2
    <3> QED
      BY <1>3, <1>5, <2>1, <3>1, Zenon
  <2> QED
    BY <1>1, <1>2, <2>2, <2>3, Zenon DEF EndIs, a
<1> QED
  BY <1>4, <1>5

\* The end of the visit moves nothing.
LEMMA EInvEnds ==
  ASSUME EInv, NEW how, Ended(how), how # "pack"
  PROVE  EInv'
<1>1. phase' = how /\ todo' = <<>> /\ buf' = buf /\ pos' = pos /\ seen' = seen
  BY DEF Ended
<1>2. <<>> \in Seq(Todo)
  OBVIOUS
<1> QED
  BY <1>1, <1>2, Zenon DEF EInv

\* A call to the visitor keeps EInv if it keeps EndIs.
LEMMA EInvCalls ==
  ASSUME EInv, phase = "visit", NEW call \in Calls, NEW next \in Nat, NEW rest \in Seq(Todo),
         Call(call, next, rest), EndIs(Append(seen, call), next, buf)
  PROVE  EInv'
<1>1. /\ seen' = Append(seen, call) /\ pos' = next /\ buf' = buf
      /\ (todo' = rest /\ phase' = phase) \/ (todo' = <<>> /\ phase' = "stopped")
  BY DEF Call
<1>2. <<>> \in Seq(Todo)
  OBVIOUS
<1>3. todo' \in Seq(Todo) /\ phase' # "pack"
  BY <1>1, <1>2
<1>4. Append(seen, call) \in Seq(Calls)
  BY AppendProperties DEF EInv
<1> QED
  BY <1>1, <1>3, <1>4, Zenon DEF EInv

\* EInv is inductive.
LEMMA EInvStep ==
  ASSUME EInv, [Next]_vars
  PROVE  EInv'
<1>1. buf \in Seq(Byte) /\ buf \in Seq(0 .. 255) /\ pos \in Nat /\ seen \in Seq(Calls) /\ todo \in Seq(Todo) /\ EndIs(seen, pos, buf)
  BY DEF EInv, Byte
<1>2. CASE PackScalar \/ PackBytes \/ PackContainer
  <2>1. PICK b, call, kinds, calls, left : Packs(b, call, kinds, calls, left)
    BY <1>2, PackStep
  <2>2. Len(buf) \in Nat /\ Written(Len(buf), b, call, kinds) /\ Pack(b, calls, left, kinds)
    BY <1>1, <2>1, LenProperties DEF Packs
  <2>3. b \in Seq(Byte)
    BY <2>2, WrittenIs
  <2>4. /\ phase = "pack" /\ buf' = buf \o b
        /\ pos' = pos /\ todo' = todo /\ phase' = phase /\ seen' = seen
    BY <2>2 DEF Pack
  <2>5. buf' \in Seq(Byte)
    BY <1>1, <2>3, <2>4, Chains
  <2>6. seen = <<>> /\ pos = 0
    BY <2>4 DEF EInv
  <2>7. EndIs(seen', pos', buf')
    BY <2>4, <2>5, <2>6, EndAtStart
  <2> QED
    BY <1>1, <2>4, <2>5, <2>6, <2>7, Zenon DEF EInv
<1>3. CASE Receive
  <2>1. PICK n \in Cuts : n <= Len(buf) /\ buf' = SubSeq(buf, 1, Len(buf) - n)
    BY <1>3 DEF Receive
  <2>2. phase = "pack" /\ phase' = "visit" /\ pos' = pos /\ todo' = todo /\ seen' = seen
    BY <1>3 DEF Receive
  <2>3. buf' \in Seq(Byte)
    <3> DEFINE m == Len(buf) - n
    <3>1. m \in Int /\ \A i \in 1 .. m : i \in 1 .. Len(buf)
      BY <1>1, LenProperties, MsgPackAssumption
    <3>2. \A i \in 1 .. m : buf[i] \in Byte
      BY <1>1, <3>1, ElementOfSeq
    <3> HIDE DEF m
    <3>3. SubSeq(buf, 1, m) \in Seq(Byte)
      BY <3>1, <3>2, SubSeqProperties
    <3> QED
      BY <2>1, <3>3 DEF m
  <2>4. seen = <<>> /\ pos = 0
    BY <2>2 DEF EInv
  <2>5. EndIs(seen', pos', buf')
    BY <2>2, <2>3, <2>4, EndAtStart
  <2> QED
    BY <1>1, <2>2, <2>3, <2>4, <2>5, Zenon DEF EInv
<1>4. CASE Loop
  <2>1. CASE Ended("done")
    BY <2>1, EInvEnds
  <2>2. CASE ~Ended("done")
    <3>1. todo' = << <<"visit">> >> /\ buf' = buf /\ pos' = pos /\ phase' = phase /\ seen' = seen /\ phase = "visit"
      BY <1>4, <2>2 DEF Loop
    <3>2. << <<"visit">> >> \in Seq(Todo)
      BY CallsAround DEF VisitNext
    <3> QED
      BY <1>1, <3>1, <3>2 DEF EInv
  <2> QED
    BY <2>1, <2>2
<1>5. CASE CallPart
  <2> DEFINE call == Head(todo)
             rest == Tail(todo)
  <2>1. phase = "visit" /\ todo # <<>> /\ call # VisitNext /\ Call(call, pos, rest)
    BY <1>5 DEF CallPart, VisitNext
  <2>2. call \in Todo /\ rest \in Seq(Todo)
    BY <1>1, <2>1, HeadTailProperties
  <2> HIDE DEF call, rest
  <2>3. call \in Around
    BY <2>1, <2>2 DEF Todo
  <2>4. ~IsValue(call) /\ ~Over(call, buf)
    BY <2>3, AroundIs, EndIsEnd
  <2>5. call \in Calls
    BY <2>3, CallsAre
  <2>6. EndIs(Append(seen, call), pos, buf)
    BY <1>1, <2>4, <2>5, EndAppend
  <2> QED
    BY <1>1, <2>1, <2>2, <2>5, <2>6, EInvCalls
<1>6. CASE VisitEnd
  <2>1. Ended("ended")
    BY <1>6 DEF VisitEnd
  <2> QED
    BY <2>1, EInvEnds
<1>7. CASE VisitInvalid
  <2>1. Ended("failed")
    BY <1>7 DEF VisitInvalid
  <2> QED
    BY <2>1, EInvEnds
<1>8. CASE VisitInt \/ VisitConstant \/ VisitStrBin \/ VisitExt \/ VisitContainer
  <2>1. Reads
    BY <1>1, <1>8, IntReads, ConstantReads, StrBinReads, ExtReads, ContainerReads
  <2>2. ~AtEnd /\ AtValue
    BY <1>8 DEF VisitInt, VisitConstant, VisitStrBin, VisitExt, VisitContainer
  <2>3. phase = "visit" /\ pos <= Len(buf)
    BY <1>1, <2>2, LenProperties DEF AtEnd, AtValue
  <2>4. ASSUME Ended("failed") PROVE EInv'
    BY <2>4, EInvEnds
  <2>5. ASSUME NEW call \in Calls, NEW next \in Nat, NEW rest \in Seq(Todo), Fresh(call, next), Call(call, next, rest)
        PROVE  EInv'
    <3>1. (Over(call, buf) <=> next > Len(buf)) /\ (Over(call, buf) => call[1] = "str")
      BY <2>5, EndIsEnd, Zenon DEF Fresh
    <3>2. EndIs(Append(seen, call), next, buf)
      BY <1>1, <2>3, <3>1, EndAppend
    <3> QED
      BY <2>3, <2>5, <3>2, EInvCalls
  <2> QED
    BY <2>1, <2>4, <2>5, Zenon DEF Reads
<1>9. CASE UNCHANGED vars
  BY <1>9 DEF EInv, vars
<1> QED
  BY <1>2, <1>3, <1>4, <1>5, <1>6, <1>7, <1>8, <1>9, Zenon DEF Next, Visit

\* EInv holds at the start.
LEMMA EInvInit ==
  ASSUME Init
  PROVE  EInv
<1>1. buf = <<>> /\ pos = 0 /\ seen = <<>> /\ todo = <<>>
  BY DEF Init
<1>2. <<>> \in Seq(Byte) /\ <<>> \in Seq(Calls) /\ <<>> \in Seq(Todo) /\ 0 \in Nat
  OBVIOUS
<1>3. EndIs(<<>>, 0, <<>>)
  BY <1>2, EndAtStart
<1> QED
  BY <1>1, <1>2, <1>3, Zenon DEF EInv

\* A binary or an extension that the visitor is given is in the buffer, a
\* string that goes on behind its end is the last value it is given, and the
\* position is in the buffer until then: whatever was packed, and wherever the
\* buffer was cut.
THEOREM NothingBeyond == Spec => []EndOfBuffer
<1>1. Init => EInv
  BY EInvInit
<1>2. EInv /\ [Next]_vars => EInv'
  BY EInvStep
<1>3. EInv => EndOfBuffer
  BY EndIsEnd DEF EInv
<1> QED
  BY <1>1, <1>2, <1>3, PTL DEF Spec

-----------------------------------------------------------------------------
\* Reading what was packed.

\* The bytes b were written behind p, and the buffer may have lost some of them.
Partly(p, b) == \A i \in 1 .. Len(b) : p + i <= Len(buf) => buf[p + i] = b[i]

\* What was written in two parts is there in two parts.
LEMMA PartlyCat ==
  ASSUME NEW p \in Nat, NEW a \in Seq(Byte), NEW b \in Seq(Byte), Partly(p, a \o b)
  PROVE  Partly(p, a) /\ Partly(p + Len(a), b)
<1> DEFINE c == a \o b
           m == Len(a)
           n == Len(b)
<1>1. /\ m \in Nat /\ n \in Nat /\ Len(c) = m + n
      /\ \A i \in 1 .. m + n : c[i] = IF i <= m THEN a[i] ELSE b[i - m]
  BY ConcatProperties, LenProperties
<1>2. \A i \in 1 .. Len(c) : p + i <= Len(buf) => buf[p + i] = c[i]
  BY Zenon DEF Partly
<1> HIDE DEF c, m, n
<1>3. ASSUME NEW i \in 1 .. m, p + i <= Len(buf) PROVE buf[p + i] = a[i]
  <2>1. i \in 1 .. m + n /\ i <= m
    BY <1>1
  <2> QED
    BY <1>1, <1>2, <1>3, <2>1
<1>4. ASSUME NEW i \in 1 .. n, p + m + i <= Len(buf) PROVE buf[p + m + i] = b[i]
  <2>1. m + i \in 1 .. m + n /\ ~(m + i <= m) /\ (m + i) - m = i /\ p + (m + i) = p + m + i
    BY <1>1
  <2>2. buf[p + (m + i)] = c[m + i] /\ c[m + i] = b[(m + i) - m]
    BY <1>1, <1>2, <1>4, <2>1
  <2> QED
    BY <2>1, <2>2
<1> QED
  BY <1>3, <1>4 DEF Partly, m, n

\* A byte that was written and not lost is read.
LEMMA PartlyOne ==
  ASSUME NEW p \in Nat, NEW x, Partly(p, <<x>>), p + 1 <= Len(buf)
  PROVE  buf[p + 1] = x
<1>1. Len(<<x>>) = 1 /\ <<x>>[1] = x
  OBVIOUS
<1>2. 1 \in 1 .. Len(<<x>>)
  BY <1>1
<1> QED
  BY <1>1, <1>2, Zenon DEF Partly

\* A row of bytes that is whole.
LEMMA PartlyWhole ==
  ASSUME buf \in Seq(Byte), NEW p \in Nat, NEW b \in Seq(Byte), Len(b) # 0, Partly(p, b), p + Len(b) <= Len(buf)
  PROVE  SubSeq(buf, p + 1, p + Len(b)) = b
<1> DEFINE w == Len(b)
           s == SubSeq(buf, p + 1, p + w)
<1>1. w \in Nat \ {0} /\ Len(buf) \in Nat
  BY LenProperties
<1>2. s \in Seq(0 .. 255) /\ Len(s) = w /\ \A i \in 1 .. w : s[i] = buf[p + i]
  <2>1. p + w <= Len(buf) /\ buf \in Seq(0 .. 255)
    BY DEF Byte
  <2> HIDE DEF w
  <2> HIDE DEF s
  <2>2. Behind(buf, p, w, s)
    BY <1>1, <2>1, BytesBehind, Zenon DEF s
  <2> QED
    BY <2>2, Zenon DEF Behind
<1>3. \A i \in 1 .. w : buf[p + i] = b[i]
  <2>1. \A i \in 1 .. w : p + i <= Len(buf)
    BY <1>1
  <2> QED
    BY <2>1, Zenon DEF Partly
<1> HIDE DEF s
<1>4. \A i \in 1 .. w : s[i] = b[i]
  BY <1>2, <1>3
<1>5. s = b
  BY <1>2, <1>4, SeqEqual DEF Byte
<1> QED
  BY <1>5 DEF s, w

\* An integer that is read where it was packed: it comes back, or its end is
\* gone.
IntBack(p, types, b, v) ==
  IF p + Len(b) <= Len(buf) THEN Unpacks(UnpackInt(p, types), v, p + Len(b)) ELSE UnpackInt(p, types) = NoInt

\* A number that fits a byte without a sign is one.
LEMMA ByteFits ==
  ASSUME NEW v \in Int, Fits(v, 1, FALSE)
  PROVE  v \in 0 .. 255
<1>1. Shifts(v, 1)[0] = v /\ 1 - 1 = 0
  BY ShiftsLoop
<1> QED
  BY <1>1, Zenon DEF Fits

\* Its bytes are itself.
LEMMA ByteBytes ==
  ASSUME NEW v \in 0 .. 255
  PROVE  Len(Bytes(v, 1)) = 1 /\ Bytes(v, 1)[1] = v
<1>1. Shifts(v, 1)[0] = v
  BY ShiftsLoop
<1>2. Len(Bytes(v, 1)) = 1 /\ Bytes(v, 1)[1] = Shifts(v, 1)[1 - 1] % 256
  BY DEF Bytes
<1>3. v % 256 = v /\ 1 - 1 = 0
  OBVIOUS
<1> QED
  BY <1>1, <1>2, <1>3, Zenon

\* unpack_int gives back what pack_int wrote, int8 below -32 apart.
LEMMA IntAt ==
  ASSUME buf \in Seq(Byte), NEW p \in Nat, NEW types \in SUBSET IntNames, NEW t \in types, NEW v \in Int,
         Fits(v, Width[t], t \in Signed), ~(t = "int8" /\ v < -32), Partly(p, PackInt(t, v))
  PROVE  IntBack(p, types, PackInt(t, v), v)
<1> DEFINE b == PackInt(t, v)
           w == Width[t]
           f == IntFormat[t]
<1>1. /\ w \in Nat \ {0} /\ f \in 204 .. 211 /\ f \in Byte /\ TypeOf(f) = t /\ t \in IntNames
  BY Formats DEF Byte
<1>2. Len(buf) \in Nat /\ b \in Seq(Byte) /\ Len(b) >= 1 /\ Len(b) \in Nat
  BY <1>1, PackIntBytes, LenProperties
<1>3. CASE ~Has(p, 1)
  <2>1. UnpackInt(p, types) = NoInt
    BY <1>3 DEF UnpackInt
  <2>2. ~(p + Len(b) <= Len(buf))
    BY <1>2, <1>3 DEF Has
  <2> QED
    BY <2>1, <2>2, Zenon DEF IntBack
<1>4. CASE Has(p, 1) /\ t = "uint8" /\ v < 128
  <2>1. Len(b) = 1 /\ b[1] = v /\ v \in 0 .. 127
    <3>1. b = Bytes(v, 1)
      BY <1>4 DEF PackInt
    <3>2. w = 1 /\ ~(t \in Signed)
      BY <1>4 DEF Width, Signed
    <3>3. v \in 0 .. 255
      <4>1. (t \in Signed) = FALSE
        BY <3>2
      <4>2. Fits(v, 1, FALSE)
        BY <3>2, <4>1, Zenon
      <4> QED
        BY <4>2, ByteFits
    <3>4. Len(Bytes(v, 1)) = 1 /\ Bytes(v, 1)[1] = v
      BY <3>3, ByteBytes
    <3> QED
      BY <1>4, <3>1, <3>3, <3>4
  <2>2. p + 1 <= Len(buf)
    BY <1>4 DEF Has
  <2>3. buf[p + 1] = v
    <3>1. 1 \in 1 .. Len(b)
      BY <2>1
    <3> HIDE DEF b
    <3> QED
      BY <2>1, <2>2, <3>1, Zenon DEF Partly, b
  <2>4. v <= 127
    BY <2>1
  <2>5. Unpacks(UnpackInt(p, types), v, p + 1)
    BY <1>4, <2>3, <2>4, Zenon DEF UnpackInt, Unpacks
  <2> QED
    BY <2>1, <2>2, <2>5, Zenon DEF IntBack
<1>5. CASE Has(p, 1) /\ ~(t = "uint8" /\ v < 128)
  <2> DEFINE h == <<f>>
             r == Bytes(v, w)
  <2>1. b = h \o r
    BY <1>5, Zenon DEF PackInt
  <2>2. h \in Seq(Byte) /\ Len(h) = 1 /\ r \in Seq(Byte) /\ Len(r) = w
    <3>1. IsRow(r, w)
      BY <1>1, BytesRow, Zenon
    <3>2. h \in Seq(Byte) /\ Len(h) = 1
      BY <1>1, OneByte, Zenon
    <3> QED
      BY <3>1, <3>2, Zenon DEF IsRow
  <2>3. Len(b) = 1 + w
    BY <2>1, <2>2, Chains
  <2>8. Partly(p, h \o r)
    BY <2>1, Zenon
  <2> HIDE DEF h, r
  <2>4. Partly(p, h) /\ Partly(p + 1, r)
    BY <2>2, <2>8, PartlyCat
  <2>5. buf[p + 1] = f /\ ~(f <= 127) /\ ~(f >= 224)
    <3>1. p + 1 <= Len(buf)
      BY <1>5 DEF Has
    <3>2. buf[p + 1] = f
      BY <2>4, <3>1, PartlyOne DEF h
    <3> QED
      BY <1>1, <3>2
  <2>6. CASE p + 1 + w <= Len(buf)
    <3>1. \E u \in types : IntFormat[u] = f /\ Has(p + 1, Width[u])
      BY <2>6 DEF Has
    <3>2. SubSeq(buf, (p + 1) + 1, (p + 1) + w) = r
      <4>1. p + 1 \in Nat /\ Len(r) # 0 /\ (p + 1) + Len(r) <= Len(buf)
        BY <1>1, <2>2, <2>6
      <4> QED
        BY <2>2, <2>4, <4>1, PartlyWhole
    <3>3. (p + 1) + 1 = p + 2
      OBVIOUS
    <3>4. Number(r, t \in Signed) = v
      <4>1. (t \in Signed) \in BOOLEAN
        OBVIOUS
      <4> QED
        BY <1>1, <4>1, NumberOfBytes DEF r
    <3> HIDE DEF f
    <3>5. UnpackInt(p, types) = [v |-> Number(SubSeq(buf, p + 2, p + 1 + w), t \in Signed), next |-> p + 1 + w]
      BY <1>1, <1>5, <2>5, <3>1, Zenon DEF UnpackInt
    <3>6. Unpacks(UnpackInt(p, types), v, p + 1 + w)
      BY <3>2, <3>3, <3>4, <3>5, Zenon DEF Unpacks
    <3>7. p + Len(b) = p + 1 + w
      BY <1>1, <2>3
    <3> QED
      BY <2>6, <3>6, <3>7, Zenon DEF IntBack
  <2>7. CASE ~(p + 1 + w <= Len(buf))
    <3>1. ~(\E u \in types : IntFormat[u] = f /\ Has(p + 1, Width[u]))
      <4>1. ASSUME NEW u \in types, IntFormat[u] = f, Has(p + 1, Width[u]) PROVE FALSE
        <5>1. u = t
          <6>1. TypeOf(IntFormat[u]) = u
            BY Formats
          <6> QED
            BY <1>1, <4>1, <6>1
        <5>2. Has(p + 1, w) /\ w # 0
          BY <1>1, <4>1, <5>1
        <5> QED
          BY <2>7, <5>2, Zenon DEF Has
      <4> QED
        BY <4>1
    <3> HIDE DEF f
    <3>2. UnpackInt(p, types) = NoInt
      BY <1>5, <2>5, <3>1, Zenon DEF UnpackInt
    <3>3. ~(p + Len(b) <= Len(buf))
      BY <1>1, <1>2, <2>3, <2>7
    <3> QED
      BY <3>2, <3>3, Zenon DEF IntBack
  <2> QED
    BY <2>6, <2>7
<1> QED
  BY <1>3, <1>4, <1>5

\* What pack_int wrote of an integer, unpack_int gives back, with the place
\* behind it, wherever in a buffer it is and whichever of the other types would
\* do as well; if its end is gone, nothing is read.  An int8 below -32 apart.
THEOREM IntegersComeBack ==
  ASSUME buf \in Seq(Byte), NEW p \in Nat, NEW types \in SUBSET IntNames, NEW t \in types, NEW v \in Int,
         Fits(v, Width[t], t \in Signed), ~(t = "int8" /\ v < -32), Partly(p, PackInt(t, v))
  PROVE  IF p + Len(PackInt(t, v)) <= Len(buf)
         THEN UnpackInt(p, types) = [v |-> v, next |-> p + Len(PackInt(t, v))]
         ELSE UnpackInt(p, types) = NoInt
<1>1. IntBack(p, types, PackInt(t, v), v)
  BY IntAt, Zenon
<1> QED
  BY <1>1, Zenon DEF IntBack, Unpacks

\* An int8 below -32 is packed as its byte alone, which is never read as a value
\* of one byte: unpack_int reads nothing, or takes bytes packed for another value.
THEOREM LowInt8IsLost ==
  ASSUME buf \in Seq(Byte), NEW p \in Nat, NEW types \in SUBSET IntNames, NEW v \in -128 .. -33,
         Partly(p, PackInt("int8", v))
  PROVE  UnpackInt(p, types) = NoInt \/ UnpackInt(p, types).next > p + Len(PackInt("int8", v))
<1> DEFINE b == Bytes(v, 1)
           f == buf[p + 1]
           w == Width[TypeOf(f)]
           n == Number(SubSeq(buf, p + 2, p + 1 + w), TypeOf(f) \in Signed)
           x == UnpackInt(p, types)
<1>1. PackInt("int8", v) = b
  <2>1. v < -32
    OBVIOUS
  <2> HIDE DEF b
  <2>2. "int8" = "int8"
    OBVIOUS
  <2> QED
    BY <2>1, <2>2, Zenon DEF PackInt, b
<1>2. Len(b) = 1 /\ b[1] = v + 256
  <2>1. Shifts(v, 1)[0] = v /\ 1 - 1 = 0
    BY ShiftsLoop
  <2>2. Len(b) = 1 /\ b[1] = Shifts(v, 1)[1 - 1] % 256
    BY DEF Bytes
  <2>3. v % 256 = v + 256
    OBVIOUS
  <2> HIDE DEF b
  <2> QED
    BY <2>1, <2>2, <2>3, Zenon
<1>3. Len(buf) \in Nat
  BY LenProperties
<1> HIDE DEF b
<1>4. CASE ~Has(p, 1)
  BY <1>4, Zenon DEF UnpackInt
<1>5. CASE Has(p, 1)
  <2>1. p + 1 <= Len(buf)
    BY <1>5, <1>3 DEF Has
  <2>2. f = v + 256
    <3>1. 1 \in 1 .. Len(b)
      BY <1>2
    <3>2. f = b[1]
      BY <1>1, <2>1, <3>1, Zenon DEF Partly
    <3> QED
      BY <1>2, <3>2
  <2>3. ~(f <= 127) /\ ~(f >= 224)
    BY <2>2
  <2>4. CASE \E u \in types : IntFormat[u] = f /\ Has(p + 1, Width[u])
    <3>1. w \in {1, 2, 4, 8}
      BY <2>4, Formats
    <3> HIDE DEF n, w, f
    <3>2. x = [v |-> n, next |-> p + 1 + w]
      BY <1>5, <2>3, <2>4, Zenon DEF UnpackInt, n, w, f
    <3>3. x.next = p + 1 + w
      BY <3>2
    <3> HIDE DEF x
    <3>4. x.next > p + 1
      BY <3>1, <3>3
    <3> QED
      BY <1>1, <1>2, <3>4, Zenon DEF x
  <2>5. CASE ~(\E u \in types : IntFormat[u] = f /\ Has(p + 1, Width[u]))
    BY <1>5, <2>3, <2>5, Zenon DEF UnpackInt
  <2> QED
    BY <2>4, <2>5, Zenon
<1> QED
  BY <1>4, <1>5, Zenon

-----------------------------------------------------------------------------
\* A step of visit over a value that was packed.

VisitValue == VisitInt \/ VisitConstant \/ VisitStrBin \/ VisitExt \/ VisitContainer \/ VisitInvalid

IntFormats == (0 .. 127) \cup (224 .. 255) \cup (204 .. 211)
StrBinFormats == (160 .. 191) \cup (196 .. 198) \cup (217 .. 219)
ExtFormats == (199 .. 201) \cup (212 .. 215)
ContainerFormats == (128 .. 159) \cup (220 .. 223)

\* Every format is of one kind of value.
LEMMA Dispatch ==
  ASSUME buf \in Seq(Byte), pos \in Nat, VisitValue
  PROVE  /\ AtValue /\ ~AtEnd
         /\ Format \in IntFormats => VisitInt
         /\ Format \in {192, 194, 195} => VisitConstant
         /\ Format \in StrBinFormats => VisitStrBin
         /\ Format \in ExtFormats => VisitExt
         /\ Format \in ContainerFormats => VisitContainer
         /\ Format = 216 => VisitInvalid
<1> DEFINE f == Format
           C == {192, 194, 195}
           I == {193, 202, 203, 216}
<1>1. AtValue /\ ~AtEnd
  BY DEF VisitValue, VisitInt, VisitConstant, VisitStrBin, VisitExt, VisitContainer, VisitInvalid
<1>2. f \in 0 .. 255
  BY <1>1, AtFormat DEF Byte
<1>3. VisitInt => f \in IntFormats
  <2>1. VisitInt => f <= 127 \/ f >= 224 \/ \E t \in IntNames : IntFormat[t] = f
    BY Formats DEF VisitInt
  <2> HIDE DEF f
  <2>2. (\E t \in IntNames : IntFormat[t] = f) => f \in 204 .. 211
    BY Formats
  <2> QED
    BY <1>2, <2>1, <2>2 DEF IntFormats
<1>4. VisitConstant => f \in C
  BY DEF VisitConstant
<1>5. VisitStrBin => f \in StrBinFormats
  <2>1. VisitStrBin => f \in 160 .. 191 \/ \E kind \in {"str", "bin"}, k \in 1 .. 3 : f = (IF kind = "str" THEN 216 ELSE 195) + k
    BY DEF VisitStrBin
  <2> HIDE DEF f
  <2>2. ASSUME NEW kind \in {"str", "bin"}, NEW k \in 1 .. 3, f = (IF kind = "str" THEN 216 ELSE 195) + k
        PROVE  f \in (196 .. 198) \cup (217 .. 219)
    <3>1. CASE kind = "str"
      BY <2>2, <3>1
    <3>2. CASE kind # "str"
      BY <2>2, <3>2
    <3> QED
      BY <3>1, <3>2
  <2> QED
    BY <2>1, <2>2 DEF StrBinFormats
<1>6. VisitExt => f \in ExtFormats
  <2>1. VisitExt => (\E n \in {1, 2, 4, 8} : f = FixExt[n]) \/ \E k \in 1 .. 3 : f = 198 + k
    BY DEF VisitExt
  <2> HIDE DEF f
  <2>2. \A n \in {1, 2, 4, 8} : FixExt[n] \in 212 .. 215
    BY DEF FixExt
  <2> QED
    BY <2>1, <2>2 DEF ExtFormats
<1>7. VisitContainer => f \in ContainerFormats
  <2>1. VisitContainer => \E kind \in Kinds : f \in Fix(kind) .. Fix(kind) + 15 \/ \E k \in {0, 1} : f = Long(kind) + k
    BY ContainerStep, Zenon
  <2> HIDE DEF f
  <2>2. ASSUME NEW kind \in Kinds, f \in Fix(kind) .. Fix(kind) + 15 \/ \E k \in {0, 1} : f = Long(kind) + k
        PROVE  f \in ContainerFormats
    <3>1. CASE kind = "array"
      <4>1. Fix(kind) = 144 /\ Long(kind) = 220
        BY <3>1 DEF Fix, Long
      <4> QED
        BY <2>2, <4>1 DEF ContainerFormats
    <3>2. CASE kind # "array"
      <4>1. Fix(kind) = 128 /\ Long(kind) = 222
        BY <3>2 DEF Fix, Long
      <4> QED
        BY <2>2, <4>1 DEF ContainerFormats
    <3> QED
      BY <3>1, <3>2
  <2> QED
    BY <2>1, <2>2
<1>8. VisitInvalid => f \in I
  BY DEF VisitInvalid
<1> HIDE DEF f, C, I
<1>9. f \in IntFormats => f \notin C /\ f \notin I
  BY <1>2 DEF C, I, IntFormats
<1>10. f \in IntFormats => f \notin StrBinFormats /\ f \notin ExtFormats
  BY <1>2 DEF IntFormats, StrBinFormats, ExtFormats
<1>11. f \in IntFormats => f \notin ContainerFormats
  BY <1>2 DEF IntFormats, ContainerFormats
<1>12. f \in C => f \notin StrBinFormats /\ f \notin ExtFormats /\ f \notin ContainerFormats /\ f \notin I
  BY DEF C, I, StrBinFormats, ExtFormats, ContainerFormats
<1>13. f \in StrBinFormats => f \notin ExtFormats /\ f \notin ContainerFormats /\ f \notin I
  BY DEF C, I, StrBinFormats, ExtFormats, ContainerFormats
<1>14. f \in ExtFormats => f \notin ContainerFormats /\ f \notin I
  BY DEF I, ExtFormats, ContainerFormats
<1>15. f \in ContainerFormats => f \notin I
  BY DEF C, I, ContainerFormats
<1>16. f = 216 => f \in I
  BY DEF I
<1>17. VisitInt \/ VisitConstant \/ VisitStrBin \/ VisitExt \/ VisitContainer \/ VisitInvalid
  BY Zenon DEF VisitValue
<1>18. f \in IntFormats => VisitInt
  BY <1>4, <1>5, <1>6, <1>7, <1>8, <1>9, <1>10, <1>11, <1>17, Zenon
<1>19. f \in C => VisitConstant
  BY <1>3, <1>5, <1>6, <1>7, <1>8, <1>9, <1>12, <1>17, Zenon
<1>20. f \in StrBinFormats => VisitStrBin
  BY <1>3, <1>4, <1>6, <1>7, <1>8, <1>10, <1>12, <1>13, <1>17, Zenon
<1>21. f \in ExtFormats => VisitExt
  BY <1>3, <1>4, <1>5, <1>7, <1>8, <1>10, <1>12, <1>13, <1>14, <1>17, Zenon
<1>22. f \in ContainerFormats => VisitContainer
  BY <1>3, <1>4, <1>5, <1>6, <1>8, <1>11, <1>12, <1>13, <1>14, <1>15, <1>17, Zenon
<1>23. f \in I => VisitInvalid
  BY <1>3, <1>4, <1>5, <1>6, <1>7, <1>9, <1>12, <1>13, <1>14, <1>15, <1>17, Zenon
<1> QED
  BY <1>1, <1>16, <1>18, <1>19, <1>20, <1>21, <1>22, <1>23 DEF f, C

\* What is left to do after a call, if t is left to do after the value.
Continues(call, t, r) ==
  \/ NotStart(call) /\ r = t
  \/ \E kind \in Kinds, n \in Nat : call = <<"start", kind, n>> /\ r = Cat(Rest(kind, n), t)

\* The call that was meant and the place behind its bytes; or the end is gone,
\* or it is one that is lost.
Outcome(b, call, kinds) ==
  \/ Ended("failed") /\ (pos + Len(b) > Len(buf) \/ kinds # {})
  \/ \E rest : Call(call, pos + Len(b), rest) /\ Continues(call, Tail(todo), rest)

\* A value without parts leaves the rest of the things to do.
LEMMA OutcomeValue ==
  ASSUME NEW b, NEW call, NEW kinds, NotStart(call), Call(call, pos + Len(b), Tail(todo))
  PROVE  Outcome(b, call, kinds)
BY Zenon DEF Outcome, Continues

ConstantCall(x) == IF x = 192 THEN <<"nil">> ELSE <<"bool", x = 195>>

\* nil and the booleans come back.
LEMMA ConstantBack ==
  ASSUME buf \in Seq(Byte), pos \in Nat, ~AtEnd, NEW x \in {192, 194, 195}, Partly(pos, <<x>>), VisitValue
  PROVE  Outcome(<<x>>, ConstantCall(x), {})
<1> DEFINE call == ConstantCall(x)
<1>1. pos + 1 <= Len(buf)
  BY AtFormat DEF Byte
<1>2. Format = x
  BY <1>1, PartlyOne DEF Format
<1>3. VisitConstant
  BY <1>2, Dispatch
<1>4. Call(call, pos + 1, Tail(todo))
  BY <1>2, <1>3, Zenon DEF VisitConstant, ConstantCall
<1>5. NotStart(call)
  <2> DEFINE y == x = 195
  <2>1. call = <<"nil">> \/ call = <<"bool", y>>
    BY Zenon DEF ConstantCall
  <2> HIDE DEF y, call
  <2> QED
    BY <2>1, ValuesNotStart, Zenon
<1>6. Len(<<x>>) = 1
  OBVIOUS
<1> HIDE DEF call
<1>7. Outcome(<<x>>, call, {})
  <2> DEFINE b == <<x>>
  <2>1. Call(call, pos + Len(b), Tail(todo))
    BY <1>4, <1>6, Zenon
  <2> HIDE DEF b
  <2>2. Outcome(b, call, {})
    BY <1>5, <2>1, OutcomeValue
  <2> QED
    BY <2>2 DEF b
<1> QED
  BY <1>7 DEF call

\* The format that is read is the first byte that was written.
LEMMA FormatIs ==
  ASSUME buf \in Seq(Byte), pos \in Nat, ~AtEnd, NEW b \in Seq(Byte), Len(b) >= 1, Partly(pos, b)
  PROVE  Format = b[1]
<1>1. pos + 1 <= Len(buf) /\ Len(b) \in Nat
  BY AtFormat, LenProperties DEF Byte
<1>2. 1 \in 1 .. Len(b)
  BY <1>1
<1> QED
  BY <1>1, <1>2, Zenon DEF Partly, Format

\* What pack_int writes begins with a format of an integer.
LEMMA IntHead ==
  ASSUME NEW t \in IntNames, NEW v \in Int, Fits(v, Width[t], t \in Signed), ~(t = "int8" /\ v < -32)
  PROVE  PackInt(t, v)[1] \in IntFormats
<1> DEFINE w == Width[t]
           f == IntFormat[t]
<1>1. w \in Nat \ {0} /\ f \in 204 .. 211 /\ f \in Byte
  BY Formats DEF Byte
<1>2. CASE t = "uint8" /\ v < 128
  <2>1. PackInt(t, v) = Bytes(v, 1)
    BY <1>2 DEF PackInt
  <2>2. w = 1 /\ (t \in Signed) = FALSE
    BY <1>2 DEF Width, Signed
  <2>3. v \in 0 .. 255
    <3>1. Fits(v, 1, FALSE)
      BY <2>2, Zenon
    <3> QED
      BY <3>1, ByteFits
  <2>4. Bytes(v, 1)[1] = v
    BY <2>3, ByteBytes
  <2> QED
    BY <1>2, <2>1, <2>3, <2>4 DEF IntFormats
<1>3. CASE ~(t = "uint8" /\ v < 128)
  <2> DEFINE h == <<f>>
             r == Bytes(v, w)
             c == h \o r
  <2>1. PackInt(t, v) = c
    BY <1>3, Zenon DEF PackInt
  <2>2. h \in Seq(Byte) /\ Len(h) = 1 /\ h[1] = f /\ r \in Seq(Byte) /\ Len(r) = w
    <3>1. IsRow(r, w)
      BY <1>1, BytesRow, Zenon
    <3>2. h \in Seq(Byte) /\ Len(h) = 1 /\ h[1] = f
      BY <1>1, OneByte, Zenon
    <3> QED
      BY <3>1, <3>2, Zenon DEF IsRow
  <2> HIDE DEF h, r
  <2>3. Joins(Byte, h, r, c)
    BY <2>2, Concatenated
  <2> HIDE DEF c
  <2>4. c[1] = f
    <3>1. 1 \in 1 .. Len(h) + Len(r) /\ 1 <= Len(h)
      BY <1>1, <2>2
    <3> QED
      BY <2>2, <2>3, <3>1, Zenon DEF Joins
  <2> QED
    BY <1>1, <2>1, <2>4 DEF IntFormats
<1> QED
  BY <1>2, <1>3

\* Integers come back.
LEMMA IntBackAt ==
  ASSUME buf \in Seq(Byte), pos \in Nat, ~AtEnd, NEW x \in Ints, ~(x[1] = "int8" /\ x[2] < -32),
         Partly(pos, PackInt(x[1], x[2])), VisitValue
  PROVE  Outcome(PackInt(x[1], x[2]), <<"int", x[2]>>, {})
<1> DEFINE t == x[1]
           v == x[2]
           b == PackInt(t, v)
           y == UnpackInt(pos, IntTypes)
<1>1. t \in IntNames /\ v \in Int /\ Fits(v, Width[t], t \in Signed)
  BY SizesAre
<1>2. Partly(pos, b) /\ ~(t = "int8" /\ v < -32)
  OBVIOUS
<1> HIDE DEF t, v
<1>3. b \in Seq(Byte) /\ Len(b) >= 1 /\ Len(b) \in Nat
  BY <1>1, PackIntBytes, LenProperties
<1>4. b[1] \in IntFormats
  BY <1>1, <1>2, IntHead
<1>5. Format = b[1]
  BY <1>2, <1>3, FormatIs
<1>6. VisitInt
  BY <1>4, <1>5, Dispatch
<1>7. IF y = NoInt THEN Ended("failed") ELSE Call(<<"int", y.v>>, y.next, Tail(todo))
  BY <1>6, Zenon DEF VisitInt
<1>8. IntBack(pos, IntTypes, b, v)
  BY <1>1, <1>2, IntAt, Formats
<1> HIDE DEF b, y
<1>9. CASE pos + Len(b) <= Len(buf)
  <2>1. Unpacks(y, v, pos + Len(b))
    BY <1>8, <1>9, Zenon DEF IntBack, y
  <2>2. pos + Len(b) \in Nat
    BY <1>3
  <2>3. y # NoInt /\ y.v = v /\ y.next = pos + Len(b)
    BY <1>1, <2>1, <2>2, UnpacksIs, Zenon
  <2>4. Call(<<"int", v>>, pos + Len(b), Tail(todo))
    BY <1>7, <2>3, Zenon
  <2>5. Outcome(b, <<"int", v>>, {})
    BY <2>4, ValuesNotStart, OutcomeValue, Zenon
  <2> QED
    BY <2>5 DEF b, t, v
<1>10. CASE ~(pos + Len(b) <= Len(buf))
  <2>1. y = NoInt
    BY <1>8, <1>10, Zenon DEF IntBack, y
  <2>2. Len(buf) \in Nat
    BY LenProperties
  <2>3. pos + Len(b) > Len(buf)
    BY <1>3, <1>10, <2>2
  <2>4. Outcome(b, <<"int", v>>, {})
    BY <1>7, <2>1, <2>3, Zenon DEF Outcome
  <2> QED
    BY <2>4 DEF b, t, v
<1> QED
  BY <1>9, <1>10

\* A length of a string, a binary or an extension: its format is the k-th of
\* its kind.
LEMMA SizedIs ==
  ASSUME NEW g \in Int, NEW n \in Nat, IsLength(n, 4)
  PROVE  \E k \in 1 .. 3 : /\ Sized(g + 1, n) = <<g + k>> \o PackInt(SizeType[k], n)
                           /\ IsLength(n, Width[SizeType[k]])
<1>1. /\ SizeType[1] = "uint8" /\ SizeType[2] = "uint16" /\ SizeType[3] = "uint32"
      /\ Width["uint8"] = 1 /\ Width["uint16"] = 2 /\ Width["uint32"] = 4
  BY DEF SizeType, Width
<1> DEFINE f == g + 1
<1>2. f = g + 1 /\ f + 1 = g + 2 /\ f + 2 = g + 3 /\ 1 \in 1 .. 3 /\ 2 \in 1 .. 3 /\ 3 \in 1 .. 3
  OBVIOUS
<1> DEFINE D == \E k \in 1 .. 3 : Sized(g + 1, n) = <<g + k>> \o PackInt(SizeType[k], n) /\ IsLength(n, Width[SizeType[k]])
<1> SUFFICES D
  OBVIOUS
<1> HIDE DEF D, f
<1>3. CASE n <= 255
  <2>1. Sized(f, n) = <<f>> \o PackInt("uint8", n)
    BY <1>3 DEF Sized
  <2>2. IsLength(n, 1)
    BY <1>3, LengthsFit
  <2>3. D
    BY <1>1, <1>2, <2>1, <2>2, Zenon DEF D, f
  <2> QED
    BY <2>3
<1>4. CASE ~(n <= 255) /\ n <= 65535
  <2>1. Sized(f, n) = <<f + 1>> \o PackInt("uint16", n)
    BY <1>4 DEF Sized
  <2>2. IsLength(n, 2)
    BY <1>4, LengthsFit
  <2>3. D
    BY <1>1, <1>2, <2>1, <2>2, Zenon DEF D, f
  <2> QED
    BY <2>3
<1>5. CASE ~(n <= 255) /\ ~(n <= 65535)
  <2>1. Sized(f, n) = <<f + 2>> \o PackInt("uint32", n)
    BY <1>5 DEF Sized
  <2>2. D
    BY <1>1, <1>2, <2>1, Zenon DEF D, f
  <2> QED
    BY <2>2
<1> QED
  BY <1>3, <1>4, <1>5

SizeBack(k, n) ==
  IF pos + 1 + Len(PackInt(SizeType[k], n)) <= Len(buf)
  THEN Unpacks(UnpackSize(k), n, pos + 1 + Len(PackInt(SizeType[k], n)))
  ELSE UnpackSize(k) = NoInt

\* UnpackSize gives back the length that was packed.
LEMMA SizeAt ==
  ASSUME buf \in Seq(Byte), pos \in Nat, NEW k \in 1 .. 3, NEW n \in Nat, IsLength(n, Width[SizeType[k]]),
         Partly(pos + 1, PackInt(SizeType[k], n))
  PROVE  SizeBack(k, n)
<1> DEFINE t == SizeType[k]
           s == PackInt(t, n)
           x == UnpackInt(pos + 1, {t})
<1>1. t \in {"uint8", "uint16", "uint32"}
  BY DEF SizeType
<1> HIDE DEF t
<1>2. t \in IntNames /\ (t \in Signed) = FALSE /\ t # "int8" /\ {t} \in SUBSET IntNames
  BY <1>1 DEF IntNames, Signed
<1>3. Fits(n, Width[t], t \in Signed)
  BY <1>2, Zenon DEF t, IsLength
<1>4. pos + 1 \in Nat /\ n \in Int
  OBVIOUS
<1>5. Partly(pos + 1, PackInt(t, n))
  BY DEF t
<1>6. IntBack(pos + 1, {t}, s, n)
  BY <1>2, <1>3, <1>4, <1>5, IntAt
<1>7. UnpackSize(k) = IF x.v < 0 THEN [x EXCEPT !.v = @ + Limit(k)] ELSE x
  BY Zenon DEF UnpackSize, t
<1>8. s \in Seq(Byte) /\ Len(s) \in Nat
  BY <1>2, <1>4, PackIntBytes, LenProperties
<1> HIDE DEF x, s
<1>9. CASE pos + 1 + Len(s) <= Len(buf)
  <2>1. Unpacks(x, n, pos + 1 + Len(s))
    BY <1>6, <1>9, Zenon DEF IntBack, x
  <2>2. x.v = n /\ ~(n < 0)
    <3>1. pos + 1 + Len(s) \in Nat
      BY <1>8
    <3> QED
      BY <1>4, <2>1, <3>1, UnpacksIs
  <2>3. UnpackSize(k) = x
    BY <1>7, <2>2, Zenon
  <2> QED
    BY <1>9, <2>1, <2>3, Zenon DEF SizeBack, s, t
<1>10. CASE ~(pos + 1 + Len(s) <= Len(buf))
  <2>1. x = NoInt
    BY <1>6, <1>10, Zenon DEF IntBack, x
  <2>2. ~(x.v < 0)
    BY <2>1 DEF NoInt
  <2>3. UnpackSize(k) = NoInt
    BY <1>7, <2>1, <2>2, Zenon
  <2> QED
    BY <1>10, <2>3, Zenon DEF SizeBack, s, t
<1> QED
  BY <1>9, <1>10

\* A payload at the end of the bytes b of a value.
LEMMA PayloadBack ==
  ASSUME buf \in Seq(Byte), pos \in Nat, NEW b \in Seq(Byte), NEW kind, NEW head, NEW p \in Nat, NEW n \in Nat,
         NEW call, NEW kinds, p + n = pos + Len(b), call = head \o <<p, n>>, NotStart(call),
         CallPayload(kind, head, p, n)
  PROVE  Outcome(b, call, kinds)
<1>1. CASE HasPayload(kind, p, n)
  <2>1. Call(call, p + n, Tail(todo))
    BY <1>1, Zenon DEF CallPayload
  <2>2. Call(call, pos + Len(b), Tail(todo))
    BY <2>1, Zenon
  <2> QED
    BY <2>2, OutcomeValue
<1>2. CASE ~HasPayload(kind, p, n)
  <2>1. Ended("failed")
    BY <1>2, Zenon DEF CallPayload
  <2>2. ~(p + n <= Len(buf))
    BY <1>2, Zenon DEF HasPayload, Has
  <2>3. Len(buf) \in Nat /\ Len(b) \in Nat
    BY LenProperties
  <2> DEFINE m == Len(b)
             l == Len(buf)
  <2> HIDE DEF m, l
  <2>4. pos + m > l
    <3>1. p + n = pos + m /\ ~(p + n <= l) /\ m \in Nat /\ l \in Nat
      BY <2>2, <2>3, Zenon DEF m, l
    <3> QED
      BY <3>1
  <2> QED
    BY <2>1, <2>4, Zenon DEF Outcome, m, l
<1> QED
  BY <1>1, <1>2

\* The parts of a value with a length of its own and what comes before the
\* payload: c is a type, or nothing.
Sizing(g, k, n, c) == ((<<g + k>> \o PackInt(SizeType[k], n)) \o c) \o Payload(n)

\* The parts of a value with a length of its own, in the buffer.
LEMMA SizedParts ==
  ASSUME buf \in Seq(Byte), pos \in Nat, ~AtEnd, NEW g \in 0 .. 250, NEW k \in 1 .. 3, NEW n \in Nat,
         NEW c \in Seq(Byte), IsLength(n, Width[SizeType[k]]), Partly(pos, Sizing(g, k, n, c))
  PROVE  /\ Format = g + k /\ SizeBack(k, n) /\ Sizing(g, k, n, c) \in Seq(Byte)
         /\ Len(Sizing(g, k, n, c)) = 1 + Len(PackInt(SizeType[k], n)) + Len(c) + n
         /\ Partly(pos + 1 + Len(PackInt(SizeType[k], n)), c)
<1> DEFINE f == g + k
           h == <<f>>
           s == PackInt(SizeType[k], n)
           d == Payload(n)
           hs == h \o s
           hsc == hs \o c
           b == Sizing(g, k, n, c)
<1>1. SizeType[k] \in IntNames /\ f \in Byte /\ n \in Int
  BY DEF SizeType, IntNames, Byte
<1>2. h \in Seq(Byte) /\ Len(h) = 1 /\ h[1] = f /\ s \in Seq(Byte) /\ d \in Seq(Byte) /\ Len(d) = n
  <2> HIDE DEF f
  <2>1. h \in Seq(Byte) /\ Len(h) = 1 /\ h[1] = f
    BY <1>1, OneByte
  <2>2. s \in Seq(Byte)
    BY <1>1, PackIntBytes
  <2>3. d \in Seq(Byte) /\ Len(d) = n
    BY PayloadBytes
  <2> QED
    BY <2>1, <2>2, <2>3
<1>3. b = hsc \o d
  BY Zenon DEF Sizing
<1>15. Partly(pos, b)
  OBVIOUS
<1> HIDE DEF f, s, d, b
<1>4. Len(s) \in Nat /\ Len(c) \in Nat
  BY <1>2, LenProperties
<1> HIDE DEF h
<1>5. hs \in Seq(Byte) /\ Len(hs) = 1 + Len(s)
  BY <1>2, Chains
<1> HIDE DEF hs
<1>6. hsc \in Seq(Byte) /\ Len(hsc) = 1 + Len(s) + Len(c)
  BY <1>5, Chains
<1> HIDE DEF hsc
<1> DEFINE e == hsc \o d
<1>7. e \in Seq(Byte) /\ Len(e) = 1 + Len(s) + Len(c) + n
  <2>1. hsc \in Seq(Byte) /\ d \in Seq(Byte)
    BY <1>2, <1>6
  <2>2. hsc \o d \in Seq(Byte) /\ Len(hsc \o d) = Len(hsc) + Len(d)
    BY <2>1, Chains, Zenon
  <2> QED
    BY <1>2, <1>6, <2>2
<1>14. b = e /\ Partly(pos, e)
  BY <1>3, <1>15, Zenon
<1>8. Partly(pos, hsc)
  BY <1>2, <1>6, <1>14, PartlyCat
<1>9. Partly(pos, hs) /\ Partly(pos + Len(hs), c)
  BY <1>5, <1>8, PartlyCat DEF hsc
<1>10. Partly(pos, h) /\ Partly(pos + 1, s)
  BY <1>2, <1>9, PartlyCat DEF hs
<1>11. Format = f
  <2>1. Len(h) >= 1
    BY <1>2
  <2> QED
    BY <1>2, <1>10, <2>1, FormatIs
<1>12. SizeBack(k, n)
  BY <1>10, SizeAt DEF s
<1>13. pos + Len(hs) = pos + 1 + Len(s)
  BY <1>4, <1>5
<1> QED
  BY <1>7, <1>9, <1>11, <1>12, <1>13, <1>14, Zenon DEF f, s, b

Base(kind) == IF kind = "str" THEN 216 ELSE 195

\* What VisitStrBin does with a length of its own.
LEMMA StrBinStep ==
  ASSUME VisitStrBin, NEW kind \in {"str", "bin"}, NEW k \in 1 .. 3, Format = Base(kind) + k
  PROVE  IF UnpackSize(k) = NoInt THEN Ended("failed")
         ELSE CallPayload(kind, <<kind>>, UnpackSize(k).next, UnpackSize(k).v)
<1> DEFINE f == Format
<1>1. Base("str") = 216 /\ Base("bin") = 195
  BY DEF Base
<1>2. \/ f \in 160 .. 191
      \/ \E kind2 \in {"str", "bin"}, k2 \in 1 .. 3 :
           /\ f = Base(kind2) + k2
           /\ IF UnpackSize(k2) = NoInt THEN Ended("failed")
              ELSE CallPayload(kind2, <<kind2>>, UnpackSize(k2).next, UnpackSize(k2).v)
  BY Zenon DEF VisitStrBin, Base
<1>3. f = Base(kind) + k
  OBVIOUS
<1> HIDE DEF f
<1>4. ~(f \in 160 .. 191)
  <2>1. Base(kind) \in {216, 195}
    BY <1>1
  <2> QED
    BY <1>3, <2>1
<1>5. \A kind2 \in {"str", "bin"}, k2 \in 1 .. 3 : f = Base(kind2) + k2 => kind2 = kind /\ k2 = k
  BY <1>1, <1>3
<1> QED
  BY <1>2, <1>4, <1>5, Zenon

SizedValue(kind, n) == Sized(Base(kind) + 1, n) \o Payload(n)

Plain(g, k, n) == Sizing(g, k, n, <<>>)

\* A string or binary with a length is one of three.
LEMMA SizedValueIs ==
  ASSUME NEW kind \in {"str", "bin"}, NEW n \in Nat, IsLength(n, 4)
  PROVE  \E k \in 1 .. 3 : SizedValue(kind, n) = Plain(Base(kind), k, n) /\ IsLength(n, Width[SizeType[k]])
<1> DEFINE g == Base(kind)
<1>1. g \in 0 .. 250 /\ g \in Int
  BY DEF Base
<1> HIDE DEF g
<1>2. PICK k \in 1 .. 3 : /\ Sized(g + 1, n) = <<g + k>> \o PackInt(SizeType[k], n)
                          /\ IsLength(n, Width[SizeType[k]])
  BY <1>1, SizedIs, Zenon
<1> DEFINE s == PackInt(SizeType[k], n)
           h == <<g + k>>
           hs == h \o s
<1>3. hs \in Seq(Byte)
  <2>1. SizeType[k] \in IntNames /\ n \in Int
    BY DEF SizeType, IntNames
  <2>2. s \in Seq(Byte)
    BY <2>1, PackIntBytes
  <2>3. g + k \in Byte
    BY <1>1 DEF Byte
  <2>4. h \in Seq(Byte)
    BY <2>3, OneByte
  <2> HIDE DEF s, h
  <2> QED
    BY <2>2, <2>4, Chains
<1>4. hs \o <<>> = hs
  <2> HIDE DEF hs
  <2> QED
    BY <1>3, ConcatEmptySeq
<1>5. SizedValue(kind, n) = Plain(g, k, n)
  BY <1>2, <1>4, Zenon DEF SizedValue, Sizing, Plain, g
<1> QED
  BY <1>2, <1>5, Zenon DEF g

\* Its parts, in the buffer.
LEMMA PlainParts ==
  ASSUME buf \in Seq(Byte), pos \in Nat, ~AtEnd, NEW g \in 0 .. 250, NEW k \in 1 .. 3, NEW n \in Nat,
         IsLength(n, Width[SizeType[k]]), Partly(pos, Plain(g, k, n))
  PROVE  /\ Format = g + k /\ SizeBack(k, n) /\ Plain(g, k, n) \in Seq(Byte)
         /\ Len(Plain(g, k, n)) = 1 + Len(PackInt(SizeType[k], n)) + n
<1> DEFINE c == <<>>
           m == Len(PackInt(SizeType[k], n))
<1>1. c \in Seq(Byte) /\ Len(c) = 0
  OBVIOUS
<1>2. Partly(pos, Sizing(g, k, n, c)) /\ Plain(g, k, n) = Sizing(g, k, n, c)
  BY Zenon DEF Plain
<1> HIDE DEF c
<1>3. /\ Format = g + k /\ SizeBack(k, n) /\ Sizing(g, k, n, c) \in Seq(Byte)
      /\ Len(Sizing(g, k, n, c)) = 1 + Len(PackInt(SizeType[k], n)) + Len(c) + n
      /\ Partly(pos + 1 + Len(PackInt(SizeType[k], n)), c)
  BY <1>1, <1>2, SizedParts, Zenon
<1>4. m \in Nat
  <2>1. SizeType[k] \in IntNames /\ n \in Int
    BY DEF SizeType, IntNames
  <2> QED
    BY <2>1, PackIntBytes, LenProperties
<1> DEFINE l == Len(Sizing(g, k, n, c))
<1> HIDE DEF m, l
<1>5. l = 1 + m + n
  <2>1. l = 1 + m + Len(c) + n
    BY <1>3, Zenon DEF l, m
  <2> QED
    BY <1>1, <1>4, <2>1
<1> QED
  BY <1>2, <1>3, <1>5, Zenon DEF l, m

\* Strings and binaries with a length come back.
LEMMA SizedBack ==
  ASSUME buf \in Seq(Byte), pos \in Nat, ~AtEnd, VisitValue, NEW kind \in {"str", "bin"}, NEW n \in Nat,
         IsLength(n, 4), Partly(pos, SizedValue(kind, n))
  PROVE  Outcome(SizedValue(kind, n), <<kind, pos + Len(SizedValue(kind, n)) - n, n>>, {})
<1> DEFINE g == Base(kind)
           b == SizedValue(kind, n)
<1>1. g \in {195, 216} /\ g \in 0 .. 250
  BY DEF Base
<1>2. PICK k \in 1 .. 3 : b = Plain(g, k, n) /\ IsLength(n, Width[SizeType[k]])
  BY SizedValueIs, Zenon
<1>4. Partly(pos, b)
  OBVIOUS
<1> HIDE DEF g, b
<1> DEFINE s == PackInt(SizeType[k], n)
           x == UnpackSize(k)
<1>5. s \in Seq(Byte) /\ Len(s) \in Nat
  <2>1. SizeType[k] \in IntNames /\ n \in Int
    BY DEF SizeType, IntNames
  <2> QED
    BY <2>1, PackIntBytes, LenProperties
<1>6. /\ Format = g + k /\ SizeBack(k, n) /\ b \in Seq(Byte)
      /\ Len(b) = 1 + Len(s) + n
  <2>1. g \in 0 .. 250 /\ IsLength(n, Width[SizeType[k]]) /\ Partly(pos, Plain(g, k, n))
    BY <1>1, <1>2, <1>4, Zenon
  <2>2. /\ Format = g + k /\ SizeBack(k, n) /\ Plain(g, k, n) \in Seq(Byte)
        /\ Len(Plain(g, k, n)) = 1 + Len(PackInt(SizeType[k], n)) + n
    BY <2>1, PlainParts, Zenon
  <2> QED
    BY <1>2, <2>2, Zenon DEF s
<1> HIDE DEF s, x
<1>7. Len(b) = 1 + Len(s) + n /\ Len(b) \in Nat /\ Len(buf) \in Nat
  BY <1>5, <1>6, LenProperties
<1>8. VisitStrBin
  <2>1. Format \in StrBinFormats
    BY <1>1, <1>6 DEF StrBinFormats
  <2> QED
    BY <2>1, Dispatch
<1>9. IF x = NoInt THEN Ended("failed") ELSE CallPayload(kind, <<kind>>, x.next, x.v)
  BY <1>6, <1>8, StrBinStep, Zenon DEF x, g
<1>10. IF pos + 1 + Len(s) <= Len(buf) THEN Unpacks(x, n, pos + 1 + Len(s)) ELSE x = NoInt
  BY <1>6, Zenon DEF SizeBack, x, s
<1>11. CASE pos + 1 + Len(s) <= Len(buf)
  <2> DEFINE p == pos + 1 + Len(s)
             call == <<kind, p, n>>
  <2>1. p \in Nat /\ p + n = pos + Len(b) /\ pos + Len(b) - n = p
    BY <1>5, <1>7
  <2>2. x # NoInt /\ x.v = n /\ x.next = p
    <3>1. Unpacks(x, n, p)
      BY <1>10, <1>11, Zenon
    <3>2. n \in Int
      OBVIOUS
    <3> HIDE DEF p
    <3> QED
      BY <2>1, <3>1, <3>2, UnpacksIs, Zenon
  <2> HIDE DEF p
  <2>3. CallPayload(kind, <<kind>>, p, n)
    BY <1>9, <2>2, Zenon
  <2>4. call = <<kind>> \o <<p, n>>
    BY OneAndTwo, Zenon
  <2>5. NotStart(call)
    BY ValuesNotStart, Zenon
  <2>6. Outcome(b, call, {})
    <3> DEFINE head == <<kind>>
    <3>1. CallPayload(kind, head, p, n) /\ call = head \o <<p, n>>
      BY <2>3, <2>4, Zenon
    <3> HIDE DEF head, call
    <3> QED
      BY <1>6, <2>1, <2>5, <3>1, PayloadBack
  <2> QED
    BY <2>1, <2>6, Zenon DEF b
<1>12. CASE ~(pos + 1 + Len(s) <= Len(buf))
  <2>1. Ended("failed")
    BY <1>9, <1>10, <1>12, Zenon
  <2>2. pos + Len(b) > Len(buf)
    BY <1>5, <1>7, <1>12
  <2> QED
    BY <2>1, <2>2, Zenon DEF Outcome, b
<1> QED
  BY <1>11, <1>12

\* All strings come back.
LEMMA StringBack ==
  ASSUME buf \in Seq(Byte), pos \in Nat, ~AtEnd, VisitValue, NEW n \in Nat, IsLength(n, 4),
         Partly(pos, PackString(n))
  PROVE  Outcome(PackString(n), <<"str", pos + Len(PackString(n)) - n, n>>, {})
<1>1. CASE n <= 31
  <2> DEFINE h == <<160 + n>>
             d == Payload(n)
             c == h \o d
             p == pos + 1
             call == <<"str", p, n>>
             head == <<"str">>
  <2>1. PackString(n) = c
    BY <1>1, Zenon DEF PackString
  <2>2. 160 + n \in Byte
    BY <1>1 DEF Byte
  <2>3. h \in Seq(Byte) /\ Len(h) = 1 /\ h[1] = 160 + n /\ d \in Seq(Byte) /\ Len(d) = n
    <3>1. h \in Seq(Byte) /\ Len(h) = 1 /\ h[1] = 160 + n
      BY <2>2, OneByte
    <3>2. d \in Seq(Byte) /\ Len(d) = n
      BY PayloadBytes
    <3> QED
      BY <3>1, <3>2
  <2>11. call = head \o <<p, n>>
    BY OneAndTwo
  <2>12. NotStart(call)
    BY ValuesNotStart
  <2> HIDE DEF h, d, call
  <2>4. Partly(pos, h \o d)
    BY <2>1
  <2>5. c \in Seq(Byte) /\ Len(c) = 1 + n
    <3>1. h \o d \in Seq(Byte) /\ Len(h \o d) = Len(h) + Len(d)
      BY <2>3, Chains, Zenon
    <3> QED
      BY <2>3, <3>1
  <2>6. Partly(pos, h)
    BY <2>3, <2>4, PartlyCat
  <2>7. Format = 160 + n
    <3>1. Len(h) >= 1
      BY <2>3
    <3>2. Format = h[1]
      BY <2>3, <2>6, <3>1, FormatIs
    <3> QED
      BY <2>3, <3>2
  <2> HIDE DEF c
  <2>8. VisitStrBin
    <3>1. Format \in StrBinFormats
      BY <1>1, <2>7 DEF StrBinFormats
    <3> QED
      BY <3>1, Dispatch
  <2>9. CallPayload("str", head, pos + 1, Format - 160)
    <3> DEFINE f == Format
    <3>1. \/ f \in 160 .. 191 /\ CallPayload("str", head, pos + 1, f - 160)
          \/ \E kind2 \in {"str", "bin"}, k2 \in 1 .. 3 : f = Base(kind2) + k2
      BY <2>8 DEF VisitStrBin, Base
    <3>2. f = 160 + n
      BY <2>7
    <3> HIDE DEF f, head
    <3>3. ~ \E kind2 \in {"str", "bin"}, k2 \in 1 .. 3 : f = Base(kind2) + k2
      <4>1. Base("str") = 216 /\ Base("bin") = 195
        BY DEF Base
      <4> QED
        BY <1>1, <3>2, <4>1
    <3> QED
      BY <3>1, <3>3, Zenon DEF f
  <2> HIDE DEF head
  <2>10. CallPayload("str", head, p, n)
    <3>1. Format - 160 = n
      BY <2>7
    <3> QED
      BY <2>9, <3>1, Zenon
  <2>13. p \in Nat /\ p + n = pos + Len(c) /\ pos + Len(c) - n = p
    BY <2>5
  <2> HIDE DEF p
  <2>14. Outcome(c, call, {})
    BY <2>5, <2>10, <2>11, <2>12, <2>13, PayloadBack
  <2> QED
    BY <2>1, <2>13, <2>14, Zenon DEF call
<1>2. CASE ~(n <= 31)
  <2>1. Base("str") + 1 = 217
    BY DEF Base
  <2>2. PackString(n) = SizedValue("str", n)
    BY <1>2, <2>1, Zenon DEF PackString, SizedValue
  <2>3. "str" \in {"str", "bin"}
    OBVIOUS
  <2> QED
    BY <2>2, <2>3, SizedBack, Zenon
<1> QED
  BY <1>1, <1>2

\* All binaries come back.
LEMMA BinBack ==
  ASSUME buf \in Seq(Byte), pos \in Nat, ~AtEnd, VisitValue, NEW n \in Nat, IsLength(n, 4),
         Partly(pos, PackBin(n))
  PROVE  Outcome(PackBin(n), <<"bin", pos + Len(PackBin(n)) - n, n>>, {})
<1>1. Base("bin") + 1 = 196
  BY DEF Base
<1>2. PackBin(n) = SizedValue("bin", n)
  BY <1>1, Zenon DEF PackBin, SizedValue
<1>3. "bin" \in {"str", "bin"}
  OBVIOUS
<1> QED
  BY <1>2, <1>3, SizedBack, Zenon

\* What VisitExt does with a size of its own, and with one that has a format.
LEMMA ExtStep ==
  ASSUME VisitExt, NEW k \in 1 .. 3, Format = 198 + k
  PROVE  IF UnpackSize(k) # NoInt /\ Has(UnpackSize(k).next, 1)
         THEN CallPayload("ext", <<"ext", buf[UnpackSize(k).next + 1]>>, UnpackSize(k).next + 1, UnpackSize(k).v)
         ELSE Ended("failed")
<1> DEFINE f == Format
<1>1. \/ \E n \in {1, 2, 4, 8} : f = FixExt[n]
      \/ \E k2 \in 1 .. 3 :
           /\ f = 198 + k2
           /\ IF UnpackSize(k2) # NoInt /\ Has(UnpackSize(k2).next, 1)
              THEN CallPayload("ext", <<"ext", buf[UnpackSize(k2).next + 1]>>, UnpackSize(k2).next + 1, UnpackSize(k2).v)
              ELSE Ended("failed")
  BY Zenon DEF VisitExt
<1>2. f = 198 + k
  OBVIOUS
<1> HIDE DEF f
<1>3. ~ \E n \in {1, 2, 4, 8} : f = FixExt[n]
  <2>1. \A n \in {1, 2, 4, 8} : FixExt[n] \in 212 .. 215
    BY DEF FixExt
  <2> QED
    BY <1>2, <2>1
<1>4. \A k2 \in 1 .. 3 : f = 198 + k2 => k2 = k
  BY <1>2
<1> QED
  BY <1>1, <1>3, <1>4, Zenon

\* The formats of extensions of a fixed size differ.
LEMMA FixFormats ==
  /\ \A n \in {1, 2, 4, 8} : FixExt[n] \in 212 .. 215
  /\ \A n \in DOMAIN FixExt : n \in Nat /\ FixExt[n] \in 212 .. 216
BY DEF FixExt

\* ... from each other too.
LEMMA FixDiffer ==
  ASSUME NEW m \in {1, 2, 4, 8}, NEW n \in {1, 2, 4, 8}, FixExt[m] = FixExt[n]
  PROVE  m = n
BY DEF FixExt

\* ... so VisitExt takes the size that was meant.
LEMMA FixExtStep ==
  ASSUME VisitExt, NEW n \in {1, 2, 4, 8}, Format = FixExt[n]
  PROVE  IF Has(pos, 2) THEN CallPayload("ext", <<"ext", buf[pos + 2]>>, pos + 2, n) ELSE Ended("failed")
<1> DEFINE f == Format
<1>1. \/ \E m \in {1, 2, 4, 8} :
           /\ f = FixExt[m]
           /\ IF Has(pos, 2) THEN CallPayload("ext", <<"ext", buf[pos + 2]>>, pos + 2, m) ELSE Ended("failed")
      \/ \E k \in 1 .. 3 : f = 198 + k
  BY Zenon DEF VisitExt
<1>2. f = FixExt[n]
  OBVIOUS
<1> HIDE DEF f
<1>3. f \in 212 .. 215
  BY <1>2, FixFormats
<1>4. ~ \E k \in 1 .. 3 : f = 198 + k
  BY <1>3
<1>5. \A m \in {1, 2, 4, 8} : f = FixExt[m] => m = n
  BY <1>2, FixDiffer
<1> QED
  BY <1>1, <1>4, <1>5

\* An extension with a size of its own: PackExt.
Typed(k, n, t) == Sizing(198, k, n, <<t>>)

\* The parts of an extension with a length, in the buffer.
LEMMA TypedParts ==
  ASSUME buf \in Seq(Byte), pos \in Nat, ~AtEnd, NEW k \in 1 .. 3, NEW n \in Nat, NEW t \in Byte,
         IsLength(n, Width[SizeType[k]]), Partly(pos, Typed(k, n, t))
  PROVE  /\ Format = 198 + k /\ SizeBack(k, n) /\ Typed(k, n, t) \in Seq(Byte)
         /\ Len(Typed(k, n, t)) = 1 + Len(PackInt(SizeType[k], n)) + 1 + n
         /\ Partly(pos + 1 + Len(PackInt(SizeType[k], n)), <<t>>)
<1> DEFINE c == <<t>>
           m == Len(PackInt(SizeType[k], n))
           g == 198
           b == Typed(k, n, t)
<1>1. c \in Seq(Byte) /\ Len(c) = 1
  BY OneByte
<1>2. Partly(pos, Sizing(g, k, n, c)) /\ b = Sizing(g, k, n, c)
  BY Zenon DEF Typed
<1>3. g \in 0 .. 250
  OBVIOUS
<1> HIDE DEF c, g, b
<1>4. /\ Format = g + k /\ SizeBack(k, n) /\ Sizing(g, k, n, c) \in Seq(Byte)
      /\ Len(Sizing(g, k, n, c)) = 1 + Len(PackInt(SizeType[k], n)) + Len(c) + n
      /\ Partly(pos + 1 + Len(PackInt(SizeType[k], n)), c)
  BY <1>1, <1>2, <1>3, SizedParts, Zenon
<1>5. m \in Nat
  <2>1. SizeType[k] \in IntNames /\ n \in Int
    BY DEF SizeType, IntNames
  <2> QED
    BY <2>1, PackIntBytes, LenProperties
<1> HIDE DEF m
<1>6. Len(b) = 1 + m + 1 + n
  <2>1. Len(b) = 1 + m + Len(c) + n
    BY <1>2, <1>4, Zenon DEF m
  <2> QED
    BY <1>1, <1>5, <2>1
<1> QED
  BY <1>2, <1>4, <1>6, Zenon DEF m, g, b, c

\* An extension without a fixed size is one of three.
LEMMA TypedIs ==
  ASSUME NEW n \in Nat, IsLength(n, 4), NEW t \in Byte, n \notin DOMAIN FixExt
  PROVE  \E k \in 1 .. 3 : PackExt(t, n) = Typed(k, n, t) /\ IsLength(n, Width[SizeType[k]])
<1> DEFINE g == 198
<1>1. g \in Int /\ g + 1 = 199
  OBVIOUS
<1> HIDE DEF g
<1>2. PICK k \in 1 .. 3 : /\ Sized(g + 1, n) = <<g + k>> \o PackInt(SizeType[k], n)
                          /\ IsLength(n, Width[SizeType[k]])
  <2>1. g \in Int
    BY <1>1
  <2> QED
    BY <2>1, SizedIs, Zenon
<1>3. PackExt(t, n) = (Sized(g + 1, n) \o <<t>>) \o Payload(n)
  BY <1>1, Zenon DEF PackExt
<1>4. PackExt(t, n) = Typed(k, n, t)
  BY <1>2, <1>3, Zenon DEF Typed, Sizing, g
<1> QED
  BY <1>2, <1>4, Zenon

\* Extensions with a length come back.
LEMMA TypedBack ==
  ASSUME buf \in Seq(Byte), pos \in Nat, ~AtEnd, VisitValue, NEW n \in Nat, IsLength(n, 4),
         NEW t \in Byte, n \notin DOMAIN FixExt, Partly(pos, PackExt(t, n))
  PROVE  Outcome(PackExt(t, n), <<"ext", t, pos + Len(PackExt(t, n)) - n, n>>, {})
<1> DEFINE b == PackExt(t, n)
<1>1. PICK k \in 1 .. 3 : b = Typed(k, n, t) /\ IsLength(n, Width[SizeType[k]])
  BY TypedIs, Zenon
<1>2. Partly(pos, Typed(k, n, t))
  BY <1>1, Zenon
<1> HIDE DEF b
<1> DEFINE m == Len(PackInt(SizeType[k], n))
           x == UnpackSize(k)
           p0 == pos + 1 + m
           p == p0 + 1
           c == <<t>>
           call == <<"ext", t, p, n>>
<1>3. m \in Nat
  <2>1. SizeType[k] \in IntNames /\ n \in Int
    BY DEF SizeType, IntNames
  <2> QED
    BY <2>1, PackIntBytes, LenProperties
<1>4. /\ Format = 198 + k /\ SizeBack(k, n) /\ Typed(k, n, t) \in Seq(Byte)
      /\ Len(Typed(k, n, t)) = 1 + Len(PackInt(SizeType[k], n)) + 1 + n
      /\ Partly(pos + 1 + Len(PackInt(SizeType[k], n)), <<t>>)
  BY <1>1, <1>2, TypedParts, Zenon
<1>5. Format = 198 + k /\ b \in Seq(Byte) /\ Len(b) = 1 + m + 1 + n /\ Partly(p0, c)
  BY <1>1, <1>4, Zenon
<1>6. IF p0 <= Len(buf) THEN Unpacks(x, n, p0) ELSE x = NoInt
  BY <1>4, Zenon DEF SizeBack
<1>7. Len(buf) \in Nat
  BY LenProperties
<1> HIDE DEF m, x, c
<1>8. VisitExt
  <2>1. Format \in ExtFormats
    BY <1>5 DEF ExtFormats
  <2> QED
    BY <2>1, Dispatch
<1>9. IF x # NoInt /\ Has(x.next, 1) THEN CallPayload("ext", <<"ext", buf[x.next + 1]>>, x.next + 1, x.v)
      ELSE Ended("failed")
  BY <1>5, <1>8, ExtStep, Zenon DEF x
<1>10. p0 \in Nat /\ p \in Nat /\ p + n = pos + Len(b) /\ pos + Len(b) - n = p /\ n \in Int
  BY <1>3, <1>5
<1>11. p0 <= Len(buf) => x # NoInt /\ x.v = n /\ x.next = p0
  <2> HIDE DEF p0
  <2> QED
    BY <1>6, <1>10, UnpacksIs, Zenon
<1>12. CASE p0 + 1 <= Len(buf)
  <2>1. p0 <= Len(buf) /\ Has(p0, 1)
    BY <1>7, <1>10, <1>12 DEF Has
  <2>2. buf[p0 + 1] = t
    <3> HIDE DEF p0
    <3> QED
      BY <1>5, <1>10, <1>12, PartlyOne, Zenon DEF c
  <2>3. CallPayload("ext", <<"ext", t>>, p, n)
    <3> HIDE DEF p0
    <3> QED
      BY <1>9, <1>11, <2>1, <2>2, Zenon
  <2>4. call = <<"ext", t>> \o <<p, n>>
    BY TwoAndTwo, Zenon
  <2>5. NotStart(call)
    BY ValuesNotStart, Zenon
  <2>6. Outcome(b, call, {})
    <3> DEFINE head == <<"ext", t>>
    <3>1. CallPayload("ext", head, p, n) /\ call = head \o <<p, n>>
      BY <2>3, <2>4, Zenon
    <3> HIDE DEF head, call, p
    <3> QED
      BY <1>5, <1>10, <2>5, <3>1, PayloadBack
  <2> QED
    <3> HIDE DEF p
    <3> QED
      BY <1>10, <2>6, Zenon DEF b
<1>13. CASE ~(p0 + 1 <= Len(buf))
  <2>1. ~Has(p0, 1)
    BY <1>13 DEF Has
  <2>2. Ended("failed")
    <3> HIDE DEF p0
    <3> QED
      BY <1>6, <1>9, <1>11, <2>1, Zenon
  <2>3. pos + Len(b) > Len(buf)
    BY <1>7, <1>10, <1>13
  <2> QED
    BY <2>2, <2>3, Zenon DEF Outcome, b
<1> QED
  BY <1>12, <1>13

\* An extension whose size has a format.
FixedExt(t, n) == (<<FixExt[n]>> \o <<t>>) \o Payload(n)

\* The parts of an extension of a fixed size, in the buffer.
LEMMA FixedParts ==
  ASSUME buf \in Seq(Byte), pos \in Nat, ~AtEnd, NEW n \in DOMAIN FixExt, NEW t \in Byte, Partly(pos, FixedExt(t, n))
  PROVE  /\ Format = FixExt[n] /\ FixedExt(t, n) \in Seq(Byte) /\ Len(FixedExt(t, n)) = n + 2
         /\ Partly(pos + 1, <<t>>) /\ n \in Nat
<1> DEFINE f == FixExt[n]
           h == <<f>>
           c == <<t>>
           d == Payload(n)
           hc == h \o c
           b == hc \o d
<1>1. f \in Byte /\ n \in Nat
  <2>1. n \in Nat /\ f \in 212 .. 216
    BY FixFormats
  <2> HIDE DEF f
  <2> QED
    BY <2>1 DEF Byte
<1> HIDE DEF f
<1>2. /\ h \in Seq(Byte) /\ Len(h) = 1 /\ h[1] = f /\ c \in Seq(Byte) /\ Len(c) = 1
      /\ d \in Seq(Byte) /\ Len(d) = n
  <2>1. h \in Seq(Byte) /\ Len(h) = 1 /\ h[1] = f
    BY <1>1, OneByte
  <2>2. c \in Seq(Byte) /\ Len(c) = 1
    BY OneByte
  <2>3. d \in Seq(Byte) /\ Len(d) = n
    BY <1>1, PayloadBytes
  <2> QED
    BY <2>1, <2>2, <2>3
<1>3. FixedExt(t, n) = b /\ Partly(pos, hc \o d)
  BY Zenon DEF FixedExt, f
<1> HIDE DEF h, c, d
<1>4. hc \in Seq(Byte) /\ Len(hc) = 2
  <2>1. hc \in Seq(Byte) /\ Len(hc) = Len(h) + Len(c)
    BY <1>2, Chains, Zenon
  <2> HIDE DEF hc
  <2> QED
    BY <1>2, <2>1
<1> HIDE DEF hc
<1>5. b \in Seq(Byte) /\ Len(b) = n + 2
  <2>1. b \in Seq(Byte) /\ Len(b) = Len(hc) + Len(d)
    BY <1>2, <1>4, Chains, Zenon
  <2> HIDE DEF b
  <2> QED
    BY <1>1, <1>2, <1>4, <2>1
<1>6. Partly(pos, hc)
  BY <1>2, <1>3, <1>4, PartlyCat
<1>7. Partly(pos, h) /\ Partly(pos + 1, c)
  BY <1>2, <1>6, PartlyCat DEF hc
<1>8. Format = f
  <2>1. Len(h) >= 1
    BY <1>2
  <2> QED
    BY <1>2, <1>7, <2>1, FormatIs
<1> HIDE DEF b
<1> QED
  BY <1>1, <1>3, <1>5, <1>7, <1>8, Zenon DEF f, c

\* They come back, but the one of 16 bytes, which is lost.
LEMMA FixedBack ==
  ASSUME buf \in Seq(Byte), pos \in Nat, ~AtEnd, VisitValue, NEW n \in DOMAIN FixExt,
         NEW t \in Byte, Partly(pos, FixedExt(t, n))
  PROVE  Outcome(FixedExt(t, n), <<"ext", t, pos + Len(FixedExt(t, n)) - n, n>>, IF n = 16 THEN {"ext16"} ELSE {})
<1> DEFINE b == FixedExt(t, n)
           c == <<t>>
           p == pos + 2
           call == <<"ext", t, p, n>>
           kinds == IF n = 16 THEN {"ext16"} ELSE {}
<1>1. /\ Format = FixExt[n] /\ b \in Seq(Byte) /\ Len(b) = n + 2
      /\ Partly(pos + 1, c) /\ n \in Nat
  BY FixedParts, Zenon
<1> HIDE DEF b, c
<1>2. p \in Nat /\ p + n = pos + Len(b) /\ pos + Len(b) - n = p
  BY <1>1
<1>3. CASE n = 16
  <2>1. Format = 216
    BY <1>1, <1>3 DEF FixExt
  <2>2. VisitInvalid
    BY <2>1, Dispatch
  <2>3. Ended("failed") /\ kinds # {}
    BY <1>3, <2>2, Zenon DEF VisitInvalid
  <2> HIDE DEF kinds
  <2> QED
    BY <2>3, Zenon DEF Outcome, b, kinds
<1>4. CASE n # 16
  <2>1. n \in {1, 2, 4, 8}
    BY <1>4 DEF FixExt
  <2>2. VisitExt
    <3>1. FixExt[n] \in 212 .. 215
      BY <2>1 DEF FixExt
    <3>2. Format \in ExtFormats
      BY <1>1, <3>1 DEF ExtFormats
    <3> QED
      BY <3>2, Dispatch
  <2>3. IF Has(pos, 2) THEN CallPayload("ext", <<"ext", buf[pos + 2]>>, pos + 2, n) ELSE Ended("failed")
    BY <1>1, <2>1, <2>2, FixExtStep, Zenon
  <2>4. CASE Has(pos, 2)
    <3>1. buf[pos + 2] = t
      <4>1. (pos + 1) + 1 <= Len(buf) /\ (pos + 1) + 1 = pos + 2 /\ pos + 1 \in Nat
        <5>1. Len(buf) \in Nat
          BY LenProperties
        <5> QED
          BY <2>4, <5>1 DEF Has
      <4>2. buf[(pos + 1) + 1] = t
        BY <1>1, <4>1, PartlyOne, Zenon DEF c
      <4> QED
        BY <4>1, <4>2, Zenon
    <3>2. CallPayload("ext", <<"ext", t>>, p, n)
      BY <2>3, <2>4, <3>1, Zenon
    <3>3. call = <<"ext", t>> \o <<p, n>>
      BY TwoAndTwo, Zenon
    <3>4. NotStart(call)
      BY ValuesNotStart, Zenon
    <3>5. Outcome(b, call, kinds)
      <4> DEFINE head == <<"ext", t>>
      <4>1. CallPayload("ext", head, p, n) /\ call = head \o <<p, n>>
        BY <3>2, <3>3, Zenon
      <4> HIDE DEF head, call, p, kinds
      <4> QED
        BY <1>1, <1>2, <3>4, <4>1, PayloadBack
    <3> HIDE DEF p
    <3> QED
      BY <1>2, <3>5, Zenon DEF b
  <2>5. CASE ~Has(pos, 2)
    <3>1. Ended("failed")
      BY <2>3, <2>5, Zenon
    <3>2. pos + Len(b) > Len(buf)
      <4>1. Len(buf) \in Nat
        BY LenProperties
      <4> QED
        BY <1>1, <2>5, <4>1 DEF Has
    <3> QED
      BY <3>1, <3>2, Zenon DEF Outcome, b
  <2> QED
    BY <2>4, <2>5
<1> QED
  BY <1>3, <1>4

\* An extension of 16 bytes is written with FIXEXT16, and visit fails at it,
\* though all of it is there: pack_ext has a format that nothing reads.
THEOREM Ext16IsRefused ==
  ASSUME buf \in Seq(Byte), pos \in Nat, ~AtEnd, VisitValue, NEW t \in Byte, Partly(pos, PackExt(t, 16))
  PROVE  phase' = "failed" /\ seen' = seen
<1>1. 16 \in DOMAIN FixExt /\ FixExt[16] = 216
  BY DEF FixExt
<1>2. PackExt(t, 16) = FixedExt(t, 16)
  BY <1>1, Zenon DEF PackExt, FixedExt
<1>3. Format = 216
  <2>1. Partly(pos, FixedExt(t, 16))
    BY <1>2, Zenon
  <2>2. Format = FixExt[16]
    BY <1>1, <2>1, FixedParts, Zenon
  <2> QED
    BY <1>1, <2>2
<1>4. VisitInvalid
  BY <1>3, Dispatch
<1> QED
  BY <1>4 DEF VisitInvalid, Ended

\* All extensions come back, but that one.
LEMMA ExtBack ==
  ASSUME buf \in Seq(Byte), pos \in Nat, ~AtEnd, VisitValue, NEW n \in Nat, IsLength(n, 4),
         NEW t \in Byte, Partly(pos, PackExt(t, n))
  PROVE  Outcome(PackExt(t, n), <<"ext", t, pos + Len(PackExt(t, n)) - n, n>>, IF n = 16 THEN {"ext16"} ELSE {})
<1>1. CASE n \in DOMAIN FixExt
  <2>1. PackExt(t, n) = FixedExt(t, n)
    BY <1>1, Zenon DEF PackExt, FixedExt
  <2> QED
    BY <1>1, <2>1, FixedBack, Zenon
<1>2. CASE n \notin DOMAIN FixExt
  <2>1. n # 16
    BY <1>2 DEF FixExt
  <2>2. (IF n = 16 THEN {"ext16"} ELSE {}) = {}
    BY <2>1
  <2> QED
    BY <1>2, <2>2, TypedBack, Zenon
<1> QED
  BY <1>1, <1>2

\* The size of a container behind its format.
LongHead(kind, k, n) == <<Long(kind) + k>> \o Bytes(n, 2 * (k + 1))

\* The formats of arrays and of maps.
LEMMA FormatsOfContainers ==
  ASSUME NEW kind \in Kinds
  PROVE  \/ Fix(kind) = 144 /\ Long(kind) = 220 /\ kind = "array"
         \/ Fix(kind) = 128 /\ Long(kind) = 222 /\ kind = "map"
BY DEF Fix, Long, Kinds

\* They differ.
LEMMA OneContainer ==
  ASSUME NEW kind \in Kinds, NEW k2 \in Kinds, Fix(kind) = Fix(k2) \/ Long(kind) = Long(k2)
  PROVE  k2 = kind
BY DEF Fix, Long, Kinds

\* A small size is in the format.
LEMMA FixByte ==
  ASSUME NEW kind \in Kinds, NEW n \in Nat, n <= 15
  PROVE  Fix(kind) + n \in Byte /\ n \in 0 .. 15
<1>1. CASE Fix(kind) = 144
  BY <1>1 DEF Byte
<1>2. CASE Fix(kind) = 128
  BY <1>2 DEF Byte
<1> QED
  BY <1>1, <1>2, FormatsOfContainers

\* A head of a container is a byte, or a format and a length.
LEMMA HeadIs ==
  ASSUME NEW kind \in Kinds, NEW n \in Nat, IsLength(n, 4)
  PROVE  \/ n <= 15 /\ PackHead(kind, n) = <<Fix(kind) + n>>
         \/ \E k \in {0, 1} : PackHead(kind, n) = LongHead(kind, k, n) /\ IsLength(n, 2 * (k + 1))
<1>1. PackHead(kind, n) = PackAggregate(Fix(kind), Long(kind), n)
  BY Zenon DEF PackHead, Fix, Long
<1>2. Long(kind) + 0 = Long(kind) /\ 2 * (0 + 1) = 2 /\ 2 * (1 + 1) = 4
  <2>1. Long(kind) \in Nat
    BY DEF Long
  <2> QED
    BY <2>1
<1> DEFINE fix == Fix(kind)
           f == Long(kind)
           D == \/ n <= 15 /\ PackHead(kind, n) = <<Fix(kind) + n>>
                \/ \E k \in {0, 1} : PackHead(kind, n) = LongHead(kind, k, n) /\ IsLength(n, 2 * (k + 1))
<1> SUFFICES D
  OBVIOUS
<1> HIDE DEF D, fix, f
<1>3. 0 \in {0, 1} /\ 1 \in {0, 1}
  OBVIOUS
<1>4. CASE n <= 15
  <2>1. PackHead(kind, n) = <<Fix(kind) + n>>
    <3>1. PackAggregate(fix, f, n) = <<fix + n>>
      BY <1>4 DEF PackAggregate
    <3> QED
      BY <1>1, <3>1, Zenon DEF fix, f
  <2> QED
    BY <1>4, <2>1, Zenon DEF D
<1>5. CASE ~(n <= 15) /\ n <= 65535
  <2>1. PackHead(kind, n) = <<Long(kind)>> \o Bytes(n, 2)
    <3>1. PackAggregate(fix, f, n) = <<f>> \o Bytes(n, 2)
      BY <1>5 DEF PackAggregate
    <3> QED
      BY <1>1, <3>1, Zenon DEF fix, f
  <2>2. PackHead(kind, n) = LongHead(kind, 0, n)
    BY <1>2, <2>1, Zenon DEF LongHead
  <2>3. IsLength(n, 2)
    BY <1>5, LengthsFit
  <2> QED
    BY <1>2, <1>3, <2>2, <2>3, Zenon DEF D
<1>6. CASE ~(n <= 15) /\ ~(n <= 65535)
  <2>1. PackHead(kind, n) = <<Long(kind) + 1>> \o Bytes(n, 4)
    <3>1. PackAggregate(fix, f, n) = <<f + 1>> \o Bytes(n, 4)
      BY <1>6 DEF PackAggregate
    <3> QED
      BY <1>1, <3>1, Zenon DEF fix, f
  <2>2. PackHead(kind, n) = LongHead(kind, 1, n)
    BY <1>2, <2>1, Zenon DEF LongHead
  <2> QED
    BY <1>2, <1>3, <2>2, Zenon DEF D
<1> QED
  BY <1>4, <1>5, <1>6

\* A format and a length, in the buffer.
LEMMA LongParts ==
  ASSUME buf \in Seq(Byte), pos \in Nat, ~AtEnd, NEW kind \in Kinds, NEW k \in {0, 1}, NEW n \in Nat,
         Partly(pos, LongHead(kind, k, n))
  PROVE  /\ Format = Long(kind) + k /\ Len(LongHead(kind, k, n)) = 1 + 2 * (k + 1)
         /\ Partly(pos + 1, Bytes(n, 2 * (k + 1)))
         /\ Bytes(n, 2 * (k + 1)) \in Seq(Byte) /\ Len(Bytes(n, 2 * (k + 1))) = 2 * (k + 1)
<1> DEFINE f == Long(kind) + k
           w == 2 * (k + 1)
           h == <<f>>
           r == Bytes(n, w)
           b == h \o r
<1>1. f \in Byte /\ w \in Nat \ {0} /\ n \in Int
  BY DEF Long, Byte
<1> HIDE DEF f, w
<1>2. h \in Seq(Byte) /\ Len(h) = 1 /\ h[1] = f /\ r \in Seq(Byte) /\ Len(r) = w
  <2>1. IsRow(r, w)
    BY <1>1, BytesRow, Zenon
  <2>2. h \in Seq(Byte) /\ Len(h) = 1 /\ h[1] = f
    BY <1>1, OneByte, Zenon
  <2> QED
    BY <2>1, <2>2, Zenon DEF IsRow
<1>3. LongHead(kind, k, n) = b /\ Partly(pos, h \o r)
  BY Zenon DEF LongHead, f, w
<1> HIDE DEF h, r
<1>4. b \in Seq(Byte) /\ Len(b) = 1 + w
  <2>1. b \in Seq(Byte) /\ Len(b) = Len(h) + Len(r)
    BY <1>2, Chains, Zenon
  <2> QED
    BY <1>2, <2>1, Zenon
<1>5. Partly(pos, h) /\ Partly(pos + 1, r)
  BY <1>2, <1>3, PartlyCat
<1>6. Format = f
  <2>1. Len(h) >= 1
    BY <1>2
  <2> QED
    BY <1>2, <1>5, <2>1, FormatIs
<1> HIDE DEF b
<1> QED
  BY <1>2, <1>3, <1>4, <1>5, <1>6, Zenon DEF f, w, r

\* A container that is opened with the size it was packed with.
LEMMA OpensBack ==
  ASSUME NEW kind \in Kinds, NEW n \in Nat, NEW b, Opens(kind, n, pos + Len(b))
  PROVE  Outcome(b, <<"start", kind, n>>, {})
BY Zenon DEF Opens, Outcome, Continues, Cat

\* Small containers come back.
LEMMA ShortBack ==
  ASSUME buf \in Seq(Byte), pos \in Nat, ~AtEnd, VisitValue, NEW kind \in Kinds, NEW n \in 0 .. 15,
         Format = Fix(kind) + n, NEW b, Len(b) = 1
  PROVE  Outcome(b, <<"start", kind, n>>, {})
<1> DEFINE f == Format
<1>1. f = Fix(kind) + n /\ Fix(kind) \in {128, 144}
  BY FormatsOfContainers
<1>2. VisitContainer
  <2> HIDE DEF f
  <2>0. n \in 0 .. 15
    OBVIOUS
  <2>1. f \in 128 .. 159
    <3>1. CASE Fix(kind) = 128
      BY <1>1, <2>0, <3>1
    <3>2. CASE Fix(kind) = 144
      BY <1>1, <2>0, <3>2
    <3> QED
      BY <1>1, <3>1, <3>2
  <2>2. f \in ContainerFormats
    BY <2>1, Zenon DEF ContainerFormats
  <2> QED
    BY <2>2, Dispatch, Zenon DEF f
<1>3. \E k2 \in Kinds :
        \/ f \in Fix(k2) .. Fix(k2) + 15 /\ Opens(k2, f - Fix(k2), pos + 1)
        \/ \E k \in {0, 1} : f = Long(k2) + k
  BY <1>2, ContainerStep, Zenon
<1> HIDE DEF f
<1>4. \A k2 \in Kinds : ~(\E k \in {0, 1} : f = Long(k2) + k)
  BY <1>1, FormatsOfContainers
<1>5. \A k2 \in Kinds : f \in Fix(k2) .. Fix(k2) + 15 => Fix(k2) = Fix(kind)
  BY <1>1, FormatsOfContainers
<1>6. f - Fix(kind) = n /\ n \in Nat
  BY <1>1
<1>7. Opens(kind, n, pos + 1)
  <2>1. PICK k2 \in Kinds : f \in Fix(k2) .. Fix(k2) + 15 /\ Opens(k2, f - Fix(k2), pos + 1)
    BY <1>3, <1>4, Zenon
  <2>2. Fix(k2) = Fix(kind)
    BY <1>5, <2>1, Zenon
  <2>3. k2 = kind
    BY <2>2, OneContainer
  <2> QED
    BY <1>6, <2>1, <2>3, Zenon
<1> QED
  BY <1>6, <1>7, OpensBack, Zenon

\* ... and those with a length.
LEMMA LongBack ==
  ASSUME buf \in Seq(Byte), pos \in Nat, ~AtEnd, VisitValue, NEW kind \in Kinds, NEW k \in {0, 1}, NEW n \in Nat,
         IsLength(n, 2 * (k + 1)), Partly(pos, LongHead(kind, k, n))
  PROVE  Outcome(LongHead(kind, k, n), <<"start", kind, n>>, {})
<1> DEFINE f == Format
           w == 2 * (k + 1)
           b == LongHead(kind, k, n)
           r == Bytes(n, w)
           Goes(k2, j) == IF Has(pos + 1, 2 * (j + 1))
                          THEN Opens(k2, Number(SubSeq(buf, pos + 2, pos + 1 + 2 * (j + 1)), FALSE), pos + 1 + 2 * (j + 1))
                          ELSE Ended("failed")
<1>1. f = Long(kind) + k /\ Len(b) = 1 + w /\ Partly(pos + 1, r) /\ r \in Seq(Byte) /\ Len(r) = w
  BY LongParts, Zenon
<1>2. Long(kind) \in {220, 222} /\ w \in {2, 4}
  BY FormatsOfContainers
<1>3. VisitContainer
  <2> HIDE DEF f
  <2>1. f \in 220 .. 223
    BY <1>1, <1>2
  <2>2. f \in ContainerFormats
    BY <2>1, Zenon DEF ContainerFormats
  <2> QED
    BY <2>2, Dispatch, Zenon DEF f
<1>4. \E k2 \in Kinds : f \in Fix(k2) .. Fix(k2) + 15 \/ \E j \in {0, 1} : f = Long(k2) + j /\ Goes(k2, j)
  BY <1>3, ContainerStep, Zenon
<1>5. IsLength(n, w)
  OBVIOUS
<1> HIDE DEF f, b, r, Goes
<1>14. f \in 220 .. 223 /\ f = Long(kind) + k
  BY <1>1, <1>2
<1>6. \A k2 \in Kinds : ~(f \in Fix(k2) .. Fix(k2) + 15)
  <2>1. TAKE k2 \in Kinds
  <2>2. Fix(k2) = 144 \/ Fix(k2) = 128
    BY FormatsOfContainers
  <2> QED
    BY <1>14, <2>2
<1>7. \A k2 \in Kinds, j \in {0, 1} : f = Long(k2) + j => Long(k2) = Long(kind) /\ j = k
  <2>1. TAKE k2 \in Kinds, j \in {0, 1}
  <2>2. Long(k2) \in {220, 222}
    BY FormatsOfContainers
  <2> QED
    BY <1>14, <1>2, <2>2
<1>8. Goes(kind, k)
  <2>1. PICK k2 \in Kinds : \E j \in {0, 1} : f = Long(k2) + j /\ Goes(k2, j)
    BY <1>4, <1>6, Zenon
  <2>2. PICK j \in {0, 1} : f = Long(k2) + j /\ Goes(k2, j)
    BY <2>1, Zenon
  <2>3. Long(k2) = Long(kind) /\ j = k
    BY <1>7, <2>2, Zenon
  <2>4. k2 = kind
    BY <2>3, OneContainer
  <2> QED
    BY <2>2, <2>3, <2>4, Zenon
<1>9. Len(buf) \in Nat
  BY LenProperties
<1>10. pos + 1 + w = pos + Len(b) /\ pos + 2 = (pos + 1) + 1 /\ pos + 1 \in Nat /\ n \in Int /\ w \in Nat \ {0} /\ w # 0
  BY <1>1, <1>2
<1> HIDE DEF w
<1>11. CASE Has(pos + 1, w)
  <2>1. Opens(kind, Number(SubSeq(buf, pos + 2, pos + 1 + w), FALSE), pos + 1 + w)
    BY <1>8, <1>11, Zenon DEF Goes, w
  <2>2. pos + 1 + w <= Len(buf)
    BY <1>10, <1>11, Zenon DEF Has
  <2>3. SubSeq(buf, (pos + 1) + 1, (pos + 1) + w) = r
    <3>1. Len(r) # 0 /\ (pos + 1) + Len(r) <= Len(buf)
      BY <1>1, <1>10, <2>2
    <3>2. SubSeq(buf, (pos + 1) + 1, (pos + 1) + Len(r)) = r
      BY <1>1, <1>10, <3>1, PartlyWhole, Zenon
    <3> QED
      BY <1>1, <3>2, Zenon
  <2>4. Number(r, FALSE) = n
    <3>1. Fits(n, w, FALSE) /\ FALSE \in BOOLEAN
      BY <1>5, Zenon DEF IsLength
    <3> QED
      BY <1>10, <3>1, NumberOfBytes, Zenon DEF r
  <2>5. Opens(kind, n, pos + Len(b))
    BY <1>10, <2>1, <2>3, <2>4, Zenon
  <2> QED
    BY <2>5, OpensBack, Zenon DEF b
<1>12. CASE ~Has(pos + 1, w)
  <2>1. Ended("failed")
    BY <1>8, <1>12, Zenon DEF Goes, w
  <2>2. ~(pos + 1 + w <= Len(buf))
    BY <1>12, Zenon DEF Has
  <2>3. pos + Len(b) > Len(buf)
    BY <1>9, <1>10, <2>2
  <2> QED
    BY <2>1, <2>3, Zenon DEF Outcome, b
<1> QED
  BY <1>11, <1>12

\* The heads of all containers come back.
LEMMA ContainerBack ==
  ASSUME buf \in Seq(Byte), pos \in Nat, ~AtEnd, VisitValue, NEW kind \in Kinds, NEW n \in Nat, IsLength(n, 4),
         Partly(pos, PackHead(kind, n))
  PROVE  Outcome(PackHead(kind, n), <<"start", kind, n>>, {})
<1>1. CASE n <= 15 /\ PackHead(kind, n) = <<Fix(kind) + n>>
  <2> DEFINE x == Fix(kind) + n
             b == <<x>>
  <2>1. x \in Byte /\ n \in 0 .. 15
    <3>1. n <= 15
      BY <1>1, Zenon
    <3> QED
      BY <3>1, FixByte, Zenon
  <2>2. b = PackHead(kind, n) /\ Partly(pos, b)
    BY <1>1, Zenon
  <2> HIDE DEF x
  <2>3. b \in Seq(Byte) /\ Len(b) = 1 /\ b[1] = x
    BY <2>1, OneByte
  <2> HIDE DEF b
  <2>4. Format = x
    <3>1. Len(b) >= 1
      BY <2>3
    <3> QED
      BY <2>2, <2>3, <3>1, FormatIs
  <2>5. Outcome(b, <<"start", kind, n>>, {})
    BY <2>1, <2>3, <2>4, ShortBack, Zenon DEF x
  <2> QED
    BY <2>2, <2>5, Zenon
<1>2. ASSUME NEW k \in {0, 1}, PackHead(kind, n) = LongHead(kind, k, n), IsLength(n, 2 * (k + 1))
      PROVE  Outcome(PackHead(kind, n), <<"start", kind, n>>, {})
  BY <1>2, LongBack, Zenon
<1> QED
  BY <1>1, <1>2, HeadIs, Zenon

\* A value that was packed and is visited.
LEMMA LengthsAre ==
  ASSUME NEW kind \in {"str", "bin", "ext", "array", "map"}, NEW n \in Sizes[kind]
  PROVE  n \in Nat /\ IsLength(n, 4)
BY SizesAre, Zenon DEF IsLength

\* The byte of a boolean and the call with it.
LEMMA BoolCall ==
  ASSUME NEW x \in BOOLEAN, NEW y, ~(y = 192), (y = 195) = x
  PROVE  ConstantCall(y) = <<"bool", x>>
<1>1. ConstantCall(y) = <<"bool", y = 195>>
  BY Zenon DEF ConstantCall
<1>2. <<"bool", y = 195>> = <<"bool", x>>
  BY Zenon
<1> QED
  BY <1>1, <1>2, Zenon

\* What was packed at the place that is visited comes back, or its end is gone,
\* or it is a value that is lost.
LEMMA ChunkBack ==
  ASSUME buf \in Seq(Byte), pos \in Nat, ~AtEnd, VisitValue, NEW b, NEW call, NEW kinds,
         Written(pos, b, call, kinds), "int8" \notin kinds, Partly(pos, b)
  PROVE  Outcome(b, call, kinds)
<1>1. CASE b = <<192>> /\ call = <<"nil">> /\ kinds = {}
  <2>1. 192 \in {192, 194, 195}
    OBVIOUS
  <2>2. Partly(pos, <<192>>)
    BY <1>1, Zenon
  <2>3. Outcome(<<192>>, ConstantCall(192), {})
    BY <2>1, <2>2, ConstantBack, Zenon
  <2>4. ConstantCall(192) = <<"nil">>
    BY DEF ConstantCall
  <2> QED
    BY <1>1, <2>3, <2>4, Zenon
<1>2. ASSUME NEW x \in BOOLEAN, b = <<IF x THEN 195 ELSE 194>>, call = <<"bool", x>>, kinds = {}
      PROVE  Outcome(b, call, kinds)
  <2> DEFINE y == IF x THEN 195 ELSE 194
  <2>1. y \in {192, 194, 195} /\ ~(y = 192) /\ (y = 195) = x
    OBVIOUS
  <2>2. b = <<y>>
    BY <1>2, Zenon
  <2> HIDE DEF y
  <2>3. Partly(pos, <<y>>)
    BY <2>2, Zenon
  <2>4. Outcome(<<y>>, ConstantCall(y), {})
    BY <2>1, <2>3, ConstantBack
  <2>5. ConstantCall(y) = <<"bool", x>>
    BY <2>1, BoolCall
  <2>6. Outcome(<<y>>, <<"bool", x>>, {})
    BY <2>4, <2>5, Zenon
  <2> QED
    BY <1>2, <2>2, <2>6, Zenon
<1>3. ASSUME NEW x \in Ints, b = PackInt(x[1], x[2]), call = <<"int", x[2]>>,
             kinds = IF x[1] = "int8" /\ x[2] < -32 THEN {"int8"} ELSE {}
      PROVE  Outcome(b, call, kinds)
  <2>0. "int8" \in {"int8"}
    OBVIOUS
  <2>1. ~(x[1] = "int8" /\ x[2] < -32)
    BY <1>3, <2>0, Zenon
  <2>2. kinds = {}
    BY <1>3, <2>1, Zenon
  <2>3. Partly(pos, PackInt(x[1], x[2]))
    BY <1>3, Zenon
  <2>4. Outcome(PackInt(x[1], x[2]), <<"int", x[2]>>, {})
    BY <2>1, <2>3, IntBackAt, Zenon
  <2> QED
    BY <1>3, <2>2, <2>4, Zenon
<1>4. ASSUME NEW n \in Sizes["str"], b = PackString(n), call = <<"str", pos + Len(b) - n, n>>, kinds = {}
      PROVE  Outcome(b, call, kinds)
  <2>1. n \in Nat /\ IsLength(n, 4)
    BY LengthsAre
  <2>2. Partly(pos, PackString(n))
    BY <1>4, Zenon
  <2>3. Outcome(PackString(n), <<"str", pos + Len(PackString(n)) - n, n>>, {})
    BY <2>1, <2>2, StringBack, Zenon
  <2> QED
    BY <1>4, <2>3, Zenon
<1>5. ASSUME NEW n \in Sizes["bin"], b = PackBin(n), call = <<"bin", pos + Len(b) - n, n>>, kinds = {}
      PROVE  Outcome(b, call, kinds)
  <2>1. n \in Nat /\ IsLength(n, 4)
    BY LengthsAre
  <2>2. Partly(pos, PackBin(n))
    BY <1>5, Zenon
  <2>3. Outcome(PackBin(n), <<"bin", pos + Len(PackBin(n)) - n, n>>, {})
    BY <2>1, <2>2, BinBack, Zenon
  <2> QED
    BY <1>5, <2>3, Zenon
<1>6. ASSUME NEW n \in Sizes["ext"], b = PackExt(ExtType, n), call = <<"ext", ExtType, pos + Len(b) - n, n>>,
             kinds = IF n = 16 THEN {"ext16"} ELSE {}
      PROVE  Outcome(b, call, kinds)
  <2>1. n \in Nat /\ IsLength(n, 4)
    BY LengthsAre
  <2>2. ExtType \in Byte
    BY SizesAre DEF Byte
  <2>3. Partly(pos, PackExt(ExtType, n))
    BY <1>6, Zenon
  <2>4. Outcome(PackExt(ExtType, n), <<"ext", ExtType, pos + Len(PackExt(ExtType, n)) - n, n>>,
                IF n = 16 THEN {"ext16"} ELSE {})
    BY <2>1, <2>2, <2>3, ExtBack, Zenon
  <2> QED
    BY <1>6, <2>4, Zenon
<1>7. ASSUME NEW kind \in Kinds, NEW n \in Sizes[kind], b = PackHead(kind, n), call = <<"start", kind, n>>, kinds = {}
      PROVE  Outcome(b, call, kinds)
  <2>1. n \in Nat /\ IsLength(n, 4)
    BY LengthsAre DEF Kinds
  <2>2. Partly(pos, PackHead(kind, n))
    BY <1>7, Zenon
  <2>3. Outcome(PackHead(kind, n), <<"start", kind, n>>, {})
    BY <2>1, <2>2, ContainerBack, Zenon
  <2> QED
    BY <1>7, <2>3, Zenon
<1> QED
  BY <1>1, <1>2, <1>3, <1>4, <1>5, <1>6, <1>7, Zenon DEF Written

-----------------------------------------------------------------------------
\* What is left to do after a value, as the client went on.

Leading(r, q, left) ==
  /\ q \in Seq(Around) /\ left \in Seq(Filled)
  /\ \E u \in Seq(Todo) : IsPending(left, u) /\ r = Cat(q, Onward(left, u))

\* A container that has parts has one to fill.
LEMMA FirstFilled ==
  ASSUME NEW kind \in Kinds, NEW n \in Nat \ {0}
  PROVE  First(kind, Parts(kind, n)) \in Filled /\ Parts(kind, n) \in Nat \ {0}
BY DEF First, Parts, Filled, Container, Kinds

\* An empty container has no parts.
LEMMA NoneParts ==
  ASSUME NEW kind \in Kinds
  PROVE  Parts(kind, 0) = 0
BY DEF Parts

\* A call tells the container and its size.
LEMMA SameCall ==
  ASSUME NEW k1, NEW n1, NEW k2, NEW n2, <<"start", k1, n1>> = <<"start", k2, n2>>
  PROVE  k1 = k2 /\ n1 = n2
OBVIOUS

\* What is left to do once a container is opened.
LEMMA StartContinues ==
  ASSUME NEW kind \in Kinds, NEW n \in Nat, NEW t, NEW r, Continues(<<"start", kind, n>>, t, r)
  PROVE  r = Cat(Agenda(kind, Parts(kind, n)), t)
<1>1. PICK k2 \in Kinds, n2 \in Nat : <<"start", kind, n>> = <<"start", k2, n2>> /\ r = Cat(Rest(k2, n2), t)
  BY Zenon DEF Continues, NotStart
<1>2. k2 = kind /\ n2 = n
  BY <1>1, SameCall
<1> QED
  BY <1>1, <1>2, RestIs, Zenon

\* AfterLeads, for what visit has left to do.
LEMMA LeadingAfter ==
  ASSUME NEW s \in Seq(Filled), NEW t, IsPending(s, t)
  PROVE  Leading(t, After(s).calls, After(s).open)
<1>1. Leads(After(s), t)
  BY AfterLeads
<1> QED
  BY <1>1, Zenon DEF Leads, Leading

\* What is left to do are things to do.
LEMMA OnwardTyped ==
  ASSUME NEW cs \in Seq(Filled), NEW u \in Seq(Todo)
  PROVE  Onward(cs, u) \in Seq(Todo)
<1>1. <<>> \in Seq(Todo) /\ <<VisitNext>> \in Seq(Todo)
  BY CallsAround, One
<1>2. Cat(<<VisitNext>>, u) \in Seq(Todo)
  BY <1>1, CatTyped
<1> QED
  BY <1>1, <1>2, Zenon DEF Onward

\* What is left to do in visit follows the client's containers: after a value
\* it is the calls that the client's pack call stood for and then the rest of
\* the containers it left open.
LEMMA FollowsOnward ==
  ASSUME NEW s \in Seq(Filled), NEW t, IsPending(s, t), NEW call, NEW q, NEW left, Follows(call, s, q, left),
         NEW r, Continues(call, t, r)
  PROVE  Leading(r, q, left)
<1>0. t \in Seq(Todo)
  BY PendingTyped
<1>1. CASE NotStart(call) /\ q = After(s).calls /\ left = After(s).open
  <2>1. r = t
    <3>1. ~(\E kind \in Kinds, n \in Nat : call = <<"start", kind, n>>)
      BY <1>1, Zenon DEF NotStart
    <3> QED
      BY <3>1, Zenon DEF Continues
  <2> QED
    BY <1>1, <2>1, LeadingAfter, Zenon
<1>2. ASSUME NEW kind \in Kinds, call = <<"start", kind, 0>>,
             q = Cat(<< <<"end", kind>> >>, After(s).calls), left = After(s).open
      PROVE  Leading(r, q, left)
  <2> DEFINE a == After(s).calls
             e == <<"end", kind>>
  <2>1. r = Cat(<<e>>, t)
    <3>1. 0 \in Nat
      OBVIOUS
    <3>2. r = Cat(Agenda(kind, Parts(kind, 0)), t)
      BY <1>2, <3>1, StartContinues, Zenon
    <3> QED
      BY <3>2, NoneParts, AgendaEmpty, Zenon
  <2>2. Leading(t, a, left)
    BY <1>2, LeadingAfter, Zenon
  <2>3. PICK u \in Seq(Todo) : IsPending(left, u) /\ t = Cat(a, Onward(left, u))
    BY <2>2, Zenon DEF Leading
  <2>4. a \in Seq(Around) /\ left \in Seq(Filled)
    BY <2>2, Zenon DEF Leading
  <2>5. e \in Around /\ e \in Todo
    BY CallsAround
  <2> HIDE DEF a, e
  <2>6. Onward(left, u) \in Seq(Todo) /\ a \in Seq(Todo)
    BY <2>3, <2>4, OnwardTyped, CallsAround
  <2>7. Cat(Cat(<<e>>, a), Onward(left, u)) = Cat(<<e>>, Cat(a, Onward(left, u)))
    BY <2>5, <2>6, CatAssocOne
  <2>8. Cat(<<e>>, a) \in Seq(Around)
    BY <2>4, <2>5, HeadOf
  <2>9. q = Cat(<<e>>, a)
    BY <1>2, Zenon DEF e, a
  <2> QED
    BY <2>1, <2>3, <2>4, <2>7, <2>8, <2>9, Zenon DEF Leading
<1>3. ASSUME NEW kind \in Kinds, NEW n \in Nat \ {0}, call = <<"start", kind, n>>,
             q = <<StartPart(First(kind, Parts(kind, n)))>>, left = Append(s, First(kind, Parts(kind, n)))
      PROVE  Leading(r, q, left)
  <2> DEFINE c == First(kind, Parts(kind, n))
             b == StartPart(c)
             u == Cat(RestFrom(c), t)
  <2>1. c \in Filled /\ Parts(kind, n) \in Nat \ {0} /\ n \in Nat
    BY FirstFilled
  <2>2. r = Cat(Agenda(kind, Parts(kind, n)), t)
    BY <1>3, <2>1, StartContinues, Zenon
  <2>3. Agenda(kind, Parts(kind, n)) = Cat(<<b>>, Cat(<<VisitNext>>, RestFrom(c)))
    BY <2>1, AgendaStarts
  <2> HIDE DEF c
  <2>4. b \in Around /\ b \in Todo /\ RestFrom(c) \in Seq(Todo) /\ VisitNext \in Todo
    <3>1. c \in Container
      BY <2>1 DEF Filled
    <3>2. b \in Around
      BY <3>1, PartEdges
    <3> QED
      BY <2>1, <3>2, CallsAround, RestTyped
  <2>5. PICK p : Piles(s, p) /\ t = p[Len(s)]
    BY Zenon DEF IsPending
  <2>6. Len(s) \in 0 .. Len(s) /\ SubSeq(s, 1, Len(s)) = s
    BY LenProperties, SubSeqFull
  <2>7. left \in Seq(Filled) /\ left # <<>> /\ IsPending(left, u)
    <3>1. /\ Append(SubSeq(s, 1, Len(s)), c) \in Seq(Filled) /\ Append(SubSeq(s, 1, Len(s)), c) # <<>>
          /\ IsPending(Append(SubSeq(s, 1, Len(s)), c), Cat(RestFrom(c), p[Len(s)]))
      BY <2>1, <2>5, <2>6, PendingAppend, Zenon
    <3> QED
      BY <1>3, <2>5, <2>6, <3>1, Zenon DEF c
  <2> HIDE DEF b
  <2>8. Cat(<<VisitNext>>, RestFrom(c)) \in Seq(Todo) /\ u \in Seq(Todo)
    BY <1>0, <2>4, HeadOf, CatTyped
  <2>9. Cat(Cat(<<b>>, Cat(<<VisitNext>>, RestFrom(c))), t) = Cat(<<b>>, Cat(Cat(<<VisitNext>>, RestFrom(c)), t))
    BY <1>0, <2>4, <2>8, CatAssocOne
  <2>10. Cat(Cat(<<VisitNext>>, RestFrom(c)), t) = Cat(<<VisitNext>>, u)
    BY <1>0, <2>4, CatAssocOne
  <2> HIDE DEF u
  <2>11. r = Cat(<<b>>, Onward(left, u))
    BY <2>2, <2>3, <2>7, <2>9, <2>10, Zenon DEF Onward
  <2>12. q = <<b>>
    BY <1>3, Zenon DEF b, c
  <2>13. <<b>> \in Seq(Around)
    BY <2>4, One
  <2> QED
    BY <2>7, <2>8, <2>11, <2>12, <2>13, Zenon DEF Leading
<1> QED
  BY <1>1, <1>2, <1>3, Zenon DEF Follows

-----------------------------------------------------------------------------
\* What was packed.

Lies(w, p, b) == p + Len(b) <= Len(w) /\ \A i \in 1 .. Len(b) : w[p + i] = b[i]

\* A place between two values: its position, the calls up to there and the
\* containers that are open.
Place(all, p, s, o) ==
  /\ p \in Nat /\ s \in Seq(Calls) /\ o \in Seq(Filled)
  /\ (\E t : IsPending(o, t)) /\ (\E r \in Seq(Calls) : all = Cat(s, r))

\* A value that lies between two of them.
Value(w, kinds, p, s, o, p2, s2, o2) ==
  \E b, call, k, q :
    /\ Written(p, b, call, k) /\ Lies(w, p, b) /\ p2 = p + Len(b)
    /\ k \subseteq kinds /\ Follows(call, o, q, o2) /\ s2 = Cat(s, Cat(<<call>>, q))

\* w is n values, at the places at, with the calls said and containers stack.
Told(w, all, cs, kinds, n, at, said, stack) ==
  /\ n \in Nat /\ w \in Seq(Byte) /\ all \in Seq(Calls) /\ cs \in Seq(Filled)
  /\ at[0] = 0 /\ said[0] = <<>> /\ stack[0] = <<>>
  /\ at[n] = Len(w) /\ said[n] = all /\ stack[n] = cs
  /\ \A k \in 0 .. n : Place(all, at[k], said[k], stack[k])
  /\ \A k \in 0 .. n - 1 : at[k] < Len(w)
  /\ \A k \in 1 .. n : Value(w, kinds, at[k - 1], said[k - 1], stack[k - 1], at[k], said[k], stack[k])

\* Nothing was packed.
LEMMA ToldNothing ==
  ASSUME NEW kinds
  PROVE  \E n, at, said, stack : Told(<<>>, <<>>, <<>>, kinds, n, at, said, stack)
<1> DEFINE at == [k \in {0} |-> 0]
           said == [k \in {0} |-> <<>>]
<1>1. at[0] = 0 /\ said[0] = <<>> /\ 0 \in Nat /\ Len(<<>>) = 0
  OBVIOUS
<1>2. <<>> \in Seq(Byte) /\ <<>> \in Seq(Calls) /\ <<>> \in Seq(Filled)
  OBVIOUS
<1>3. Cat(<<>>, <<>>) = <<>>
  BY <1>2, CatEmpty
<1>4. Place(<<>>, 0, <<>>, <<>>)
  BY <1>1, <1>2, <1>3, PendingEmpty, Zenon DEF Place
<1>5. (\A k \in 0 .. 0 : k = 0) /\ (\A k \in 0 .. 0 - 1 : FALSE) /\ (\A k \in 1 .. 0 : FALSE)
  OBVIOUS
<1> HIDE DEF at, said
<1>6. \A k \in 0 .. 0 : Place(<<>>, at[k], said[k], said[k])
  BY <1>1, <1>4, <1>5, Zenon
<1>7. Told(<<>>, <<>>, <<>>, kinds, 0, at, said, said)
  BY <1>1, <1>2, <1>5, <1>6, Zenon DEF Told
<1> QED
  BY <1>7, Zenon

\* Bytes stay where they are when more are packed behind them.
LEMMA LiesFurther ==
  ASSUME NEW w \in Seq(Byte), NEW c \in Seq(Byte), NEW p \in Nat, NEW b, Len(b) \in Nat, Lies(w, p, b)
  PROVE  Lies(Cat(w, c), p, b)
<1> DEFINE v == Cat(w, c)
<1>1. v \in Seq(Byte) /\ Len(v) = Len(w) + Len(c) /\ \A k \in 1 .. Len(w) + Len(c) : v[k] = IF k <= Len(w) THEN w[k] ELSE c[k - Len(w)]
  <2>1. Joins(Byte, w, c, w \o c)
    BY Concatenated
  <2> QED
    BY <2>1, Zenon DEF Joins, Cat
<1> HIDE DEF v
<1>2. Len(w) \in Nat /\ Len(c) \in Nat
  BY LenProperties
<1>3. p + Len(b) <= Len(w) /\ \A i \in 1 .. Len(b) : w[p + i] = b[i]
  BY DEF Lies
<1>4. p + Len(b) <= Len(v)
  BY <1>1, <1>2, <1>3
<1>5. ASSUME NEW i \in 1 .. Len(b) PROVE v[p + i] = b[i]
  <2>1. p + i \in 1 .. Len(w) + Len(c) /\ p + i <= Len(w)
    BY <1>2, <1>3
  <2> QED
    BY <1>1, <1>3, <2>1
<1> QED
  BY <1>4, <1>5 DEF Lies, v

\* The bytes that are packed are the last.
LEMMA LiesLast ==
  ASSUME NEW w \in Seq(Byte), NEW c \in Seq(Byte)
  PROVE  Lies(Cat(w, c), Len(w), c)
<1> DEFINE v == Cat(w, c)
<1>1. v \in Seq(Byte) /\ Len(v) = Len(w) + Len(c) /\ \A k \in 1 .. Len(w) + Len(c) : v[k] = IF k <= Len(w) THEN w[k] ELSE c[k - Len(w)]
  <2>1. Joins(Byte, w, c, w \o c)
    BY Concatenated
  <2> QED
    BY <2>1, Zenon DEF Joins, Cat
<1> HIDE DEF v
<1>2. Len(w) \in Nat /\ Len(c) \in Nat
  BY LenProperties
<1>3. ASSUME NEW i \in 1 .. Len(c) PROVE v[Len(w) + i] = c[i]
  <2>1. Len(w) + i \in 1 .. Len(w) + Len(c) /\ ~(Len(w) + i <= Len(w)) /\ Len(w) + i - Len(w) = i
    BY <1>2
  <2> QED
    BY <1>1, <2>1
<1>4. Len(w) + Len(c) <= Len(v)
  BY <1>1, <1>2
<1> QED
  BY <1>3, <1>4 DEF Lies, v

\* Nothing that was packed changes when more is.
LEMMA PlaceStays ==
  ASSUME NEW all \in Seq(Calls), NEW calls \in Seq(Calls), NEW p, NEW s, NEW o, Place(all, p, s, o)
  PROVE  Place(Cat(all, calls), p, s, o)
<1>1. p \in Nat /\ s \in Seq(Calls) /\ o \in Seq(Filled) /\ \E t : IsPending(o, t)
  BY Zenon DEF Place
<1>2. PICK r \in Seq(Calls) : all = Cat(s, r)
  BY Zenon DEF Place
<1>3. Cat(r, calls) \in Seq(Calls) /\ Cat(Cat(s, r), calls) = Cat(s, Cat(r, calls))
  BY <1>1, CatTyped, CatAssoc
<1> QED
  BY <1>1, <1>2, <1>3, Zenon DEF Place

\* ... nor does a value between two places.
LEMMA ValueStays ==
  ASSUME NEW w \in Seq(Byte), NEW c \in Seq(Byte), NEW kinds, NEW more, kinds \subseteq more,
         NEW p \in Nat, NEW s, NEW o, NEW p2, NEW s2, NEW o2, Value(w, kinds, p, s, o, p2, s2, o2)
  PROVE  Value(Cat(w, c), more, p, s, o, p2, s2, o2)
<1>1. PICK b, call, k, q :
        /\ Written(p, b, call, k) /\ Lies(w, p, b) /\ p2 = p + Len(b)
        /\ k \subseteq kinds /\ Follows(call, o, q, o2) /\ s2 = Cat(s, Cat(<<call>>, q))
  BY Zenon DEF Value
<1>2. Written(p, b, call, k) /\ Lies(w, p, b) /\ k \subseteq kinds
  BY <1>1, Zenon
<1>3. Len(b) \in Nat
  BY <1>2, WrittenIs
<1>4. Lies(Cat(w, c), p, b)
  BY <1>2, <1>3, LiesFurther
<1>5. k \subseteq more
  BY <1>2, Zenon
<1> QED
  BY <1>1, <1>4, <1>5, Zenon DEF Value

\* The calls around parts are calls.
LEMMA AroundCalls ==
  ASSUME NEW q \in Seq(Around)
  PROVE  q \in Seq(Calls)
<1>1. Around \subseteq Calls
  BY Zenon DEF Calls
<1> QED
  BY <1>1

\* The calls that follow, and the containers left, are such.
LEMMA FollowsTyped ==
  ASSUME NEW s \in Seq(Filled), NEW t, IsPending(s, t), NEW call, NEW q, NEW left, Follows(call, s, q, left)
  PROVE  q \in Seq(Around) /\ left \in Seq(Filled) /\ \E u : IsPending(left, u)
<1>1. PICK r : Continues(call, t, r)
  BY Zenon DEF Continues, NotStart
<1>2. Leading(r, q, left)
  BY <1>1, FollowsOnward
<1> QED
  BY <1>2, Zenon DEF Leading

\* The client packs one more value.
LEMMA ToldMore ==
  ASSUME NEW w, NEW all, NEW cs, NEW kinds, NEW n, NEW at, NEW said, NEW stack,
         Told(w, all, cs, kinds, n, at, said, stack),
         NEW b, NEW call, NEW k, NEW q, NEW left,
         Written(Len(w), b, call, k), Follows(call, cs, q, left)
  PROVE  \E n2, at2, said2, stack2 :
           Told(Cat(w, b), Cat(all, Cat(<<call>>, q)), left, kinds \cup k, n2, at2, said2, stack2)
<1> DEFINE v == Cat(w, b)
           calls == Cat(<<call>>, q)
           more == Cat(all, calls)
           lost2 == kinds \cup k
           at2 == [i \in 0 .. n + 1 |-> IF i <= n THEN at[i] ELSE Len(v)]
           said2 == [i \in 0 .. n + 1 |-> IF i <= n THEN said[i] ELSE more]
           stack2 == [i \in 0 .. n + 1 |-> IF i <= n THEN stack[i] ELSE left]
<1>1. /\ n \in Nat /\ w \in Seq(Byte) /\ all \in Seq(Calls) /\ cs \in Seq(Filled)
      /\ at[0] = 0 /\ said[0] = <<>> /\ stack[0] = <<>>
      /\ at[n] = Len(w) /\ said[n] = all /\ stack[n] = cs
      /\ \A i \in 0 .. n : Place(all, at[i], said[i], stack[i])
      /\ \A i \in 0 .. n - 1 : at[i] < Len(w)
      /\ \A i \in 1 .. n : Value(w, kinds, at[i - 1], said[i - 1], stack[i - 1], at[i], said[i], stack[i])
  BY Zenon DEF Told
<1>2. Len(w) \in Nat
  BY <1>1, LenProperties
<1>3. b \in Seq(Byte) /\ Len(b) >= 1 /\ Len(b) \in Nat /\ call \in Calls
  BY <1>2, WrittenIs
<1>4. PICK t : IsPending(cs, t)
  <2>1. n \in 0 .. n
    BY <1>1
  <2> QED
    BY <1>1, <2>1, Zenon DEF Place
<1>5. q \in Seq(Around) /\ left \in Seq(Filled) /\ \E u : IsPending(left, u)
  BY <1>1, <1>4, FollowsTyped
<1>6. q \in Seq(Calls)
  BY <1>5, AroundCalls
<1>7. calls \in Seq(Calls)
  BY <1>3, <1>6, HeadOf
<1>8. v \in Seq(Byte) /\ Len(v) = Len(w) + Len(b)
  BY <1>1, <1>3, CatTyped
<1> HIDE DEF calls
<1>9. more \in Seq(Calls)
  BY <1>1, <1>7, CatTyped
<1> HIDE DEF v, more
<1>10. /\ \A i \in 0 .. n : at2[i] = at[i] /\ said2[i] = said[i] /\ stack2[i] = stack[i]
       /\ at2[n + 1] = Len(v) /\ said2[n + 1] = more /\ stack2[n + 1] = left
  <2>1. n + 1 \in 0 .. n + 1 /\ ~(n + 1 <= n) /\ \A i \in 0 .. n : i \in 0 .. n + 1 /\ i <= n
    BY <1>1
  <2> QED
    BY <2>1
<1> HIDE DEF at2, said2, stack2, lost2
<1>11. 0 \in 0 .. n /\ n \in 0 .. n /\ n + 1 \in Nat /\ (n + 1) - 1 = n
  BY <1>1
<1>12. Place(more, at2[n + 1], said2[n + 1], stack2[n + 1])
  <2>1. Len(v) \in Nat
    BY <1>8, LenProperties
  <2>2. <<>> \in Seq(Calls) /\ Cat(more, <<>>) = more
    BY <1>9, CatEmpty
  <2>3. Place(more, Len(v), more, left)
    BY <1>5, <1>9, <2>1, <2>2, Zenon DEF Place
  <2> QED
    BY <1>10, <2>3, Zenon
<1>13. ASSUME NEW i \in 0 .. n + 1
       PROVE  Place(more, at2[i], said2[i], stack2[i])
  <2>1. CASE i = n + 1
    BY <1>12, <2>1, Zenon
  <2>2. CASE i # n + 1
    <3>1. i \in 0 .. n
      BY <1>1, <2>2
    <3>2. Place(more, at[i], said[i], stack[i])
      BY <1>1, <1>7, <3>1, PlaceStays DEF more
    <3> QED
      BY <1>10, <3>1, <3>2, Zenon
  <2> QED
    BY <2>1, <2>2
<1>14. ASSUME NEW i \in 0 .. (n + 1) - 1
       PROVE  at2[i] < Len(v)
  <2>1. i \in 0 .. n /\ (i # n => i \in 0 .. n - 1)
    BY <1>1
  <2>2. at2[i] = at[i]
    BY <1>10, <2>1
  <2>3. at[i] \in Nat
    BY <1>1, <2>1, Zenon DEF Place
  <2>4. CASE i = n
    BY <1>1, <1>2, <1>3, <1>8, <2>2, <2>4
  <2>5. CASE i # n
    BY <1>1, <1>2, <1>3, <1>8, <2>1, <2>2, <2>3, <2>5
  <2> QED
    BY <2>4, <2>5
<1>15. Value(v, lost2, at[n], said[n], stack[n], Len(v), more, left)
  <2>1. Lies(v, Len(w), b)
    BY <1>1, <1>3, LiesLast DEF v
  <2>2. k \subseteq lost2
    BY Zenon DEF lost2
  <2>3. more = Cat(all, Cat(<<call>>, q))
    BY Zenon DEF more, calls
  <2>4. Value(v, lost2, Len(w), all, cs, Len(v), more, left)
    BY <1>8, <2>1, <2>2, <2>3, Zenon DEF Value
  <2> QED
    BY <1>1, <2>4, Zenon
<1>16. ASSUME NEW i \in 1 .. n + 1
       PROVE  Value(v, lost2, at2[i - 1], said2[i - 1], stack2[i - 1], at2[i], said2[i], stack2[i])
  <2>1. CASE i = n + 1
    <3>1. i - 1 = n
      BY <1>1, <2>1
    <3> QED
      BY <1>10, <1>11, <1>15, <2>1, <3>1, Zenon
  <2>2. CASE i # n + 1
    <3>1. i \in 1 .. n /\ i \in 0 .. n /\ i - 1 \in 0 .. n
      BY <1>1, <2>2
    <3>2. Value(w, kinds, at[i - 1], said[i - 1], stack[i - 1], at[i], said[i], stack[i]) /\ at[i - 1] \in Nat
      BY <1>1, <3>1, Zenon DEF Place
    <3>3. kinds \subseteq lost2
      BY Zenon DEF lost2
    <3>4. Value(v, lost2, at[i - 1], said[i - 1], stack[i - 1], at[i], said[i], stack[i])
      BY <1>1, <1>3, <3>2, <3>3, ValueStays DEF v
    <3> QED
      BY <1>10, <3>1, <3>4, Zenon
  <2> QED
    BY <2>1, <2>2
<1>17. Told(v, more, left, lost2, n + 1, at2, said2, stack2)
  BY <1>1, <1>5, <1>8, <1>9, <1>10, <1>11, <1>13, <1>14, <1>16, Zenon DEF Told
<1> QED
  BY <1>17, Zenon DEF v, more, calls, lost2

-----------------------------------------------------------------------------
\* SeenInOrder, WholeIsSeen and WholeIsVisited.

\* What the visitor has seen is what was packed up to the k-th place, but for
\* the calls q, which are the next things to do.
At(w, n, at, said, stack, k, q, u) ==
  /\ Told(w, packed, open, lost, n, at, said, stack)
  /\ Len(buf) <= Len(w) /\ (\A i \in 1 .. Len(buf) : buf[i] = w[i]) /\ (~cut => buf = w)
  /\ k \in 0 .. n /\ pos = at[k] /\ q \in Seq(Around) /\ u \in Seq(Todo) /\ IsPending(stack[k], u)
  /\ Cat(seen, q) = said[k]

\* The visit is between two values: the calls q are next, and then the rest of
\* the open containers; or the loop has found one more value.
Going ==
  \E w, n, at, said, stack, k, q, u :
    /\ At(w, n, at, said, stack, k, q, u)
    /\ \/ todo = Cat(q, Onward(stack[k], u))
       \/ stack[k] = <<>> /\ q = <<>> /\ todo = <<VisitNext>> /\ ~AtEnd

\* What is in the buffer while the client packs.
Packing == \E n, at, said, stack : Told(buf, packed, open, lost, n, at, said, stack)

\* The inductive invariant.
OInv == /\ EInv
        /\ phase = "pack" => seen = <<>> /\ pos = 0 /\ todo = <<>> /\ ~cut /\ Packing
        /\ phase = "visit" /\ "int8" \notin lost => Going
        /\ SeenInOrder /\ WholeIsSeen /\ WholeIsVisited

\* A sequence is a beginning of itself and anything behind it.
LEMMA PrefixCat ==
  ASSUME NEW T, NEW a \in Seq(T), NEW b \in Seq(T)
  PROVE  IsPrefix(a, Cat(a, b))
<1> DEFINE c == Cat(a, b)
           m == Len(a)
<1>1. c \in Seq(T) /\ Len(c) = Len(a) + Len(b) /\ \A k \in 1 .. Len(a) + Len(b) : c[k] = IF k <= Len(a) THEN a[k] ELSE b[k - Len(a)]
  <2>1. Joins(T, a, b, a \o b)
    BY Concatenated
  <2> QED
    BY <2>1, Zenon DEF Joins, Cat
<1>2. m \in Nat /\ Len(b) \in Nat
  BY LenProperties
<1>3. m <= Len(c) /\ \A i \in 1 .. m : i \in 1 .. Len(c) /\ c[i] = a[i]
  BY <1>1, <1>2
<1> HIDE DEF c
<1>4. SubSeq(a, 1, m) = a
  BY SubSeqFull
<1>5. SubSeq(c, 1, m) \in Seq(T) /\ Len(SubSeq(c, 1, m)) = m /\ \A i \in 1 .. m : SubSeq(c, 1, m)[i] = c[i]
  <2>1. \A i \in 1 .. m : c[i] \in T
    BY <1>1, <1>3, ElementOfSeq
  <2>2. /\ SubSeq(c, 1, m) \in Seq(T) /\ Len(SubSeq(c, 1, m)) = (IF 1 <= m THEN m - 1 + 1 ELSE 0)
        /\ \A i \in 1 .. m - 1 + 1 : SubSeq(c, 1, m)[i] = c[1 + i - 1]
    BY <1>2, <2>1, SubSeqProperties
  <2> QED
    BY <1>2, <2>2
<1> DEFINE s == SubSeq(c, 1, m)
<1> HIDE DEF s
<1>6. s \in Seq(T) /\ Len(s) = m /\ \A i \in 1 .. m : s[i] = c[i]
  BY <1>5 DEF s
<1>7. s = a
  <2>1. \A i \in 1 .. m : s[i] = a[i]
    BY <1>3, <1>6
  <2> QED
    BY <1>6, <2>1, SeqEqual
<1>8. m <= Len(c) /\ SubSeq(a, 1, m) = SubSeq(c, 1, m)
  BY <1>3, <1>4, <1>7, Zenon DEF s
<1> QED
  BY <1>8, Zenon DEF IsPrefix, m, c

\* Around the k-th place: a beginning of what was packed.
LEMMA SeenBegins ==
  ASSUME NEW all, NEW s \in Seq(Calls), NEW q \in Seq(Around), NEW p, NEW o, Place(all, p, Cat(s, q), o)
  PROVE  IsPrefix(s, all)
<1>1. q \in Seq(Calls)
  BY AroundCalls
<1>2. PICK r \in Seq(Calls) : all = Cat(Cat(s, q), r)
  BY Zenon DEF Place
<1>3. Cat(Cat(s, q), r) = Cat(s, Cat(q, r)) /\ Cat(q, r) \in Seq(Calls)
  BY <1>1, CatAssoc, CatTyped
<1>4. IsPrefix(s, Cat(s, Cat(q, r)))
  BY <1>3, PrefixCat
<1> QED
  BY <1>2, <1>3, <1>4, Zenon

\* What Going says of the visit: a beginning of the packed calls was seen, and
\* the end of a whole buffer is the last place.
LEMMA GoingIs ==
  ASSUME EInv, NEW w, NEW n, NEW at, NEW said, NEW stack, NEW k, NEW q, NEW u, At(w, n, at, said, stack, k, q, u)
  PROVE  /\ IsPrefix(seen, packed) /\ stack[k] \in Seq(Filled)
         /\ ~cut /\ pos >= Len(buf) => k = n /\ pos = Len(buf) /\ buf = w
         /\ pos < Len(buf) => k < n
<1>1. /\ Told(w, packed, open, lost, n, at, said, stack)
      /\ Len(buf) <= Len(w) /\ (~cut => buf = w)
      /\ k \in 0 .. n /\ pos = at[k] /\ q \in Seq(Around) /\ Cat(seen, q) = said[k]
  BY Zenon DEF At
<1>2. seen \in Seq(Calls) /\ buf \in Seq(Byte) /\ pos \in Nat
  BY DEF EInv
<1>3. /\ n \in Nat /\ w \in Seq(Byte) /\ at[n] = Len(w)
      /\ \A i \in 0 .. n : Place(packed, at[i], said[i], stack[i])
      /\ \A i \in 0 .. n - 1 : at[i] < Len(w)
  BY <1>1, Zenon DEF Told
<1>4. Place(packed, at[k], said[k], stack[k])
  BY <1>1, <1>3, Zenon
<1>5. IsPrefix(seen, packed)
  <2>1. Place(packed, at[k], Cat(seen, q), stack[k])
    BY <1>1, <1>4, Zenon
  <2>2. q \in Seq(Around)
    BY <1>1, Zenon
  <2> QED
    BY <1>2, <2>1, <2>2, SeenBegins
<1>6. stack[k] \in Seq(Filled)
  BY <1>4, Zenon DEF Place
<1>7. Len(buf) \in Nat /\ Len(w) \in Nat
  BY <1>2, <1>3, LenProperties
<1>8. /\ Len(buf) <= Len(w) /\ (~cut => Len(buf) = Len(w) /\ buf = w) /\ k \in 0 .. n /\ pos = at[k]
  BY <1>1, Zenon
<1>9. k = n \/ k \in 0 .. n - 1
  BY <1>3, <1>8
<1>10. ASSUME ~cut, pos >= Len(buf) PROVE k = n /\ pos = Len(buf) /\ buf = w
  <2>1. buf = w /\ Len(buf) = Len(w)
    BY <1>8, <1>10, Zenon
  <2>2. k \in 0 .. n - 1 => pos < Len(w)
    BY <1>3, <1>8, Zenon
  <2>3. k = n => pos = Len(w)
    BY <1>3, <1>8, Zenon
  <2>4. k = n
    BY <1>2, <1>7, <1>9, <1>10, <2>1, <2>2
  <2> QED
    BY <2>1, <2>3, <2>4
<1>11. pos < Len(buf) => k < n
  <2>1. k = n => pos = Len(w)
    BY <1>3, <1>8, Zenon
  <2>2. Len(buf) <= Len(w)
    BY <1>8
  <2>3. k \in 0 .. n - 1 => k < n
    BY <1>3
  <2> QED
    BY <1>2, <1>7, <1>9, <2>1, <2>2, <2>3
<1> QED
  BY <1>5, <1>6, <1>10, <1>11, Zenon

\* The invariant while the client packs.
LEMMA OInvPack ==
  ASSUME OInv, EInv', PackScalar \/ PackBytes \/ PackContainer
  PROVE  OInv'
<1>1. PICK b, call, kinds, calls, left : Packs(b, call, kinds, calls, left)
  BY PackStep
<1>2. Written(Len(buf), b, call, kinds) /\ Pack(b, calls, left, kinds)
  BY <1>1, Zenon DEF Packs
<1>3. After(open).calls \in Seq(Around) => \E q : Follows(call, open, q, left) /\ calls = Cat(<<call>>, q)
  BY <1>1, Zenon DEF Packs
<1>4. /\ phase = "pack" /\ buf' = Cat(buf, b) /\ packed' = Cat(packed, calls) /\ open' = left
      /\ lost' = lost \cup kinds
  BY <1>2, Zenon DEF Pack, Cat
<1>5. pos' = pos /\ todo' = todo /\ phase' = phase /\ seen' = seen /\ cut' = cut
  BY <1>2, Zenon DEF Pack
<1>6. seen = <<>> /\ pos = 0 /\ todo = <<>> /\ ~cut /\ Packing
  BY <1>4, Zenon DEF OInv
<1>7. PICK n, at, said, stack : Told(buf, packed, open, lost, n, at, said, stack)
  BY <1>6, Zenon DEF Packing
<1>8. packed \in Seq(Calls) /\ open \in Seq(Filled) /\ \E t : IsPending(open, t)
  <2>1. /\ n \in Nat /\ packed \in Seq(Calls) /\ open \in Seq(Filled) /\ stack[n] = open
        /\ \A i \in 0 .. n : Place(packed, at[i], said[i], stack[i])
    BY <1>7, Zenon DEF Told
  <2>2. n \in 0 .. n
    BY <2>1
  <2> QED
    BY <2>1, <2>2, Zenon DEF Place
<1>9. After(open).calls \in Seq(Around)
  <2>1. PICK t : IsPending(open, t)
    BY <1>8
  <2>2. Leads(After(open), t)
    BY <1>8, <2>1, AfterLeads
  <2> QED
    BY <2>2, Zenon DEF Leads
<1>10. PICK q : Follows(call, open, q, left) /\ calls = Cat(<<call>>, q)
  BY <1>3, <1>9, Zenon
<1>11. Packing'
  <2>1. \E n2, at2, said2, stack2 :
           Told(Cat(buf, b), Cat(packed, Cat(<<call>>, q)), left, lost \cup kinds, n2, at2, said2, stack2)
    <3>1. Follows(call, open, q, left)
      BY <1>10, Zenon
    <3> QED
      BY <1>2, <1>7, <3>1, ToldMore, Zenon
  <2> QED
    BY <1>4, <1>10, <2>1, Zenon DEF Packing
<1>12. phase' = "pack"
  BY <1>4, <1>5, Zenon
<1>13. IsPrefix(<<>>, packed')
  <2>1. \E n2, at2, said2, stack2 : Told(buf', packed', open', lost', n2, at2, said2, stack2)
    BY <1>11, Zenon DEF Packing
  <2>2. packed' \in Seq(Calls)
    BY <2>1, Zenon DEF Told
  <2>3. <<>> \in Seq(Calls) /\ Cat(<<>>, packed') = packed'
    BY <2>2, CatEmpty
  <2>4. IsPrefix(<<>>, Cat(<<>>, packed'))
    BY <2>2, <2>3, PrefixCat
  <2> QED
    BY <2>3, <2>4, Zenon
<1>14. SeenInOrder'
  BY <1>5, <1>6, <1>13, Zenon DEF SeenInOrder
<1>15. phase' # "visit" /\ phase' # "done" /\ phase' # "ended" /\ phase' # "failed"
  BY <1>12
<1>16. WholeIsSeen' /\ WholeIsVisited'
  <2>1. phase' \notin {"ended", "failed"}
    BY <1>15
  <2> QED
    BY <1>15, <2>1, Zenon DEF WholeIsSeen, WholeIsVisited
<1> QED
  BY <1>5, <1>6, <1>11, <1>12, <1>14, <1>15, <1>16, Zenon DEF OInv

\* The visit starts.
LEMMA OInvReceive ==
  ASSUME OInv, EInv', Receive
  PROVE  OInv'
<1>1. PICK n \in Cuts : n <= Len(buf) /\ buf' = SubSeq(buf, 1, Len(buf) - n) /\ cut' = (n > 0)
  BY Zenon DEF Receive
<1>2. /\ phase = "pack" /\ phase' = "visit" /\ pos' = pos /\ todo' = todo /\ seen' = seen
      /\ open' = open /\ packed' = packed /\ lost' = lost
  BY DEF Receive, packing
<1>3. seen = <<>> /\ pos = 0 /\ todo = <<>> /\ ~cut /\ Packing
  BY <1>2, Zenon DEF OInv
<1>4. PICK w, m, at, said, stack : w = buf /\ Told(w, packed, open, lost, m, at, said, stack)
  BY <1>3, Zenon DEF Packing
<1>5. /\ m \in Nat /\ buf \in Seq(Byte) /\ packed \in Seq(Calls)
      /\ at[0] = 0 /\ said[0] = <<>> /\ stack[0] = <<>>
  BY <1>4, Zenon DEF Told
<1>6. Len(buf) \in Nat /\ n \in Nat
  BY <1>5, LenProperties, MsgPackAssumption
<1>7. Len(buf') <= Len(buf) /\ (\A i \in 1 .. Len(buf') : buf'[i] = buf[i]) /\ (~cut' => buf' = buf)
  <2> DEFINE e == Len(buf) - n
             s == SubSeq(buf, 1, e)
  <2>1. e \in Int /\ e <= Len(buf) /\ 0 <= e /\ \A i \in 1 .. e : i \in 1 .. Len(buf)
    BY <1>1, <1>6
  <2>2. \A i \in 1 .. e : buf[i] \in Byte
    BY <1>5, <2>1, ElementOfSeq
  <2>3. n = 0 => e = Len(buf)
    BY <1>6
  <2> HIDE DEF e
  <2>4. /\ SubSeq(buf, 1, e) \in Seq(Byte) /\ Len(SubSeq(buf, 1, e)) = (IF 1 <= e THEN e - 1 + 1 ELSE 0)
        /\ \A i \in 1 .. e - 1 + 1 : SubSeq(buf, 1, e)[i] = buf[1 + i - 1]
    BY <2>1, <2>2, SubSeqProperties
  <2>5. SubSeq(buf, 1, Len(buf)) = buf
    BY <1>5, SubSeqFull
  <2>6. n = 0 => s = buf
    BY <2>3, <2>5
  <2>7. buf' = s
    BY <1>1, Zenon DEF e
  <2>8. ~cut' => n = 0
    <3>1. cut' = (n > 0)
      BY <1>1, Zenon
    <3>2. ~(n > 0) => n = 0
      BY <1>6
    <3>3. n > 0 => cut'
      BY <3>1, Zenon
    <3> QED
      BY <3>2, <3>3, Zenon
  <2> HIDE DEF s
  <2>9. Len(s) = e /\ \A i \in 1 .. e : s[i] = buf[i]
    BY <2>1, <2>4 DEF s
  <2>10. Len(s) <= Len(buf) /\ \A i \in 1 .. Len(s) : s[i] = buf[i]
    BY <2>1, <2>9
  <2> QED
    BY <2>6, <2>7, <2>8, <2>10, Zenon
<1>8. 0 \in 0 .. m /\ <<>> \in Seq(Around) /\ <<>> \in Seq(Todo) /\ <<>> \in Seq(Calls)
  BY <1>5
<1>9. Cat(<<>>, <<>>) = <<>>
  BY <1>8, CatEmpty
<1>10. IsPending(stack[0], <<>>) /\ Onward(stack[0], <<>>) = <<>>
  BY <1>5, PendingEmpty, Zenon DEF Onward
<1>11. At(w, m, at, said, stack, 0, <<>>, <<>>)'
  BY <1>2, <1>3, <1>4, <1>5, <1>7, <1>8, <1>9, <1>10, Zenon DEF At
<1>12. todo' = Cat(<<>>, Onward(stack[0], <<>>))
  BY <1>2, <1>3, <1>9, <1>10, Zenon
<1>13. Going'
  BY <1>11, <1>12, Zenon DEF Going
<1>14. SeenInOrder'
  BY <1>2, Zenon DEF OInv, SeenInOrder
<1>15. phase' # "pack" /\ phase' # "done" /\ phase' \notin {"ended", "failed"}
  BY <1>2
<1>16. WholeIsSeen' /\ WholeIsVisited'
  BY <1>15, Zenon DEF WholeIsSeen, WholeIsVisited
<1> QED
  BY <1>13, <1>14, <1>15, <1>16, Zenon DEF OInv

\* The end of the visit keeps the order, whatever it was.
LEMMA OInvEnds ==
  ASSUME OInv, EInv', NEW how, Ended(how), how # "pack", how # "visit",
         "int8" \notin lost => IsPrefix(seen, packed),
         how = "done" /\ ~cut /\ lost = {} => open = <<>> /\ seen = packed /\ pos = Len(buf),
         how \in {"ended", "failed"} => cut \/ open # <<>> \/ lost # {}
  PROVE  OInv'
<1>1. /\ phase' = how /\ buf' = buf /\ pos' = pos /\ seen' = seen /\ cut' = cut
      /\ open' = open /\ packed' = packed /\ lost' = lost
  BY DEF Ended, packing
<1>2. SeenInOrder'
  BY <1>1, Zenon DEF SeenInOrder
<1>3. WholeIsSeen'
  BY <1>1, Zenon DEF WholeIsSeen
<1>4. WholeIsVisited'
  BY <1>1, Zenon DEF WholeIsVisited
<1> QED
  BY <1>1, <1>2, <1>3, <1>4, Zenon DEF OInv

\* Nothing is promised when a value is lost that is read as another.
LEMMA OInvLost ==
  ASSUME OInv, EInv', "int8" \in lost, lost' = lost, phase' # "pack"
  PROVE  OInv'
<1>1. lost # {}
  OBVIOUS
<1>2. SeenInOrder' /\ WholeIsSeen' /\ WholeIsVisited'
  BY <1>1, Zenon DEF SeenInOrder, WholeIsSeen, WholeIsVisited
<1> QED
  BY <1>2, Zenon DEF OInv

\* After a call to the visitor.
LEMMA OInvGoes ==
  ASSUME OInv, EInv', phase = "visit", "int8" \notin lost, lost' = lost,
         (phase' = "visit" /\ Going') \/ (phase' = "stopped" /\ IsPrefix(seen', packed'))
  PROVE  OInv'
<1>1. phase' # "done" /\ phase' \notin {"ended", "failed"} /\ phase' # "pack"
  OBVIOUS
<1>2. SeenInOrder'
  <2>1. CASE phase' = "visit" /\ Going'
    <3>1. PICK w, n, at, said, stack, k, q, u : At(w, n, at, said, stack, k, q, u)'
      BY <2>1, Zenon DEF Going
    <3>2. seen' \in Seq(Calls) /\ q \in Seq(Around) /\ Place(packed', at[k], Cat(seen', q), stack[k])
      BY <3>1, Zenon DEF At, Told, EInv
    <3>3. IsPrefix(seen', packed')
      BY <3>2, SeenBegins
    <3> QED
      BY <3>3, Zenon DEF SeenInOrder
  <2>2. CASE phase' = "stopped" /\ IsPrefix(seen', packed')
    BY <2>2, Zenon DEF SeenInOrder
  <2> QED
    BY <2>1, <2>2, Zenon
<1>3. WholeIsSeen' /\ WholeIsVisited'
  BY <1>1, Zenon DEF WholeIsSeen, WholeIsVisited
<1> QED
  BY <1>1, <1>2, <1>3, Zenon DEF OInv

\* What is left to do, at a place where Going holds.
Thing(t, q, cs, u) ==
  /\ t = <<>> => q = <<>> /\ cs = <<>>
  /\ t # <<>> /\ Head(t) = VisitNext => q = <<>> /\ cs # <<>> /\ Tail(t) = u
  /\ t # <<>> /\ Head(t) # VisitNext =>
       \E q2 \in Seq(Around) : /\ Head(t) \in Around /\ q = Cat(<<Head(t)>>, q2)
                               /\ Tail(t) = Cat(q2, Onward(cs, u))

\* What the next thing is, when calls and a visit are left to do.
LEMMA NextThing ==
  ASSUME NEW q \in Seq(Around), NEW cs \in Seq(Filled), NEW u \in Seq(Todo)
  PROVE  Thing(Cat(q, Onward(cs, u)), q, cs, u)
<1> DEFINE t == Cat(q, Onward(cs, u))
<1> SUFFICES Thing(t, q, cs, u)
  OBVIOUS
<1>0. t = Cat(q, Onward(cs, u))
  OBVIOUS
<1> HIDE DEF t
<1>1. Onward(cs, u) \in Seq(Todo) /\ VisitNext \in Todo
  BY OnwardTyped, CallsAround
<1>2. CASE q = <<>>
  <2>1. t = Onward(cs, u)
    <3>1. Cat(<<>>, Onward(cs, u)) = Onward(cs, u)
      BY <1>1, CatEmpty
    <3> QED
      BY <1>0, <1>2, <3>1, Zenon
  <2>2. CASE cs = <<>>
    <3>1. t = <<>>
      BY <2>1, <2>2, Zenon DEF Onward
    <3> QED
      BY <1>2, <2>2, <3>1, Zenon DEF Thing
  <2>3. CASE cs # <<>>
    <3>1. t = Cat(<<VisitNext>>, u)
      BY <2>1, <2>3, Zenon DEF Onward
    <3>2. /\ Cat(<<VisitNext>>, u) # <<>>
          /\ Head(Cat(<<VisitNext>>, u)) = VisitNext /\ Tail(Cat(<<VisitNext>>, u)) = u
      BY <1>1, HeadOf
    <3>3. t # <<>> /\ Head(t) = VisitNext /\ Tail(t) = u
      BY <3>1, <3>2, Zenon
    <3> QED
      BY <1>2, <2>3, <3>3, Zenon DEF Thing
  <2> QED
    BY <2>2, <2>3, Zenon
<1>3. CASE q # <<>>
  <2> DEFINE e == Head(q)
             q2 == Tail(q)
             o == Onward(cs, u)
  <2>1. e \in Around /\ q2 \in Seq(Around) /\ q = Cat(<<e>>, q2)
    <3>1. e \in Around /\ q2 \in Seq(Around) /\ Len(q) \in Nat /\ 1 \in 1 .. Len(q)
      BY <1>3, HeadTailProperties, LenProperties, EmptySeq
    <3>2. e = q[1] /\ q2 = SubSeq(q, 2, Len(q)) /\ SubSeq(q, 1, Len(q)) = q
      BY <1>3, <3>1, SubSeqFull
    <3>3. SubSeq(q, 1, Len(q)) = Cat(<<q[1]>>, SubSeq(q, 1 + 1, Len(q)))
      BY <3>1, OneItem
    <3>4. 1 + 1 = 2
      OBVIOUS
    <3> HIDE DEF e, q2
    <3> QED
      BY <3>1, <3>2, <3>3, <3>4, Zenon
  <2>2. e # VisitNext /\ e \in Todo /\ q2 \in Seq(Todo)
    BY <2>1, AroundIs, CallsAround
  <2> HIDE DEF e, q2, o
  <2>3. o \in Seq(Todo)
    BY <1>1 DEF o
  <2>4. Cat(Cat(<<e>>, q2), o) = Cat(<<e>>, Cat(q2, o))
    BY <2>2, <2>3, CatAssocOne
  <2>5. Cat(q2, o) \in Seq(Todo)
    BY <2>2, <2>3, CatTyped
  <2>6. /\ Cat(<<e>>, Cat(q2, o)) # <<>>
        /\ Head(Cat(<<e>>, Cat(q2, o))) = e /\ Tail(Cat(<<e>>, Cat(q2, o))) = Cat(q2, o)
    BY <2>2, <2>5, HeadOf
  <2>7. t # <<>> /\ Head(t) = e /\ Tail(t) = Cat(q2, o)
    BY <1>0, <2>1, <2>4, <2>6, Zenon DEF o
  <2>8. Head(t) # VisitNext
    BY <2>2, <2>7, Zenon
  <2>9. \E q3 \in Seq(Around) : /\ Head(t) \in Around /\ q = Cat(<<Head(t)>>, q3)
                                /\ Tail(t) = Cat(q3, Onward(cs, u))
    BY <2>1, <2>7, Zenon DEF o
  <2> QED
    BY <2>7, <2>8, <2>9, Zenon DEF Thing
<1> QED
  BY <1>2, <1>3, Zenon

\* The visit of a value outside of every container.
LEMMA NowVisit ==
  /\ <<VisitNext>> # <<>> /\ Head(<<VisitNext>>) = VisitNext /\ Tail(<<VisitNext>>) = <<>>
  /\ Cat(<<VisitNext>>, <<>>) = <<VisitNext>>
<1>1. <<>> \in Seq(Todo) /\ VisitNext \in Todo
  BY CallsAround
<1> DEFINE a == <<VisitNext>>
<1>2. a \in Seq(Todo)
  BY <1>1, One
<1> HIDE DEF a
<1>3. Cat(a, <<>>) = a
  BY <1>2, CatEmpty
<1>4. Cat(a, <<>>) # <<>> /\ Head(Cat(a, <<>>)) = VisitNext /\ Tail(Cat(a, <<>>)) = <<>>
  <2>1. /\ Cat(<<VisitNext>>, <<>>) # <<>>
        /\ Head(Cat(<<VisitNext>>, <<>>)) = VisitNext /\ Tail(Cat(<<VisitNext>>, <<>>)) = <<>>
    BY <1>1, HeadOf
  <2> QED
    BY <2>1, Zenon DEF a
<1> QED
  BY <1>3, <1>4, Zenon DEF a

\* A call that was said: it moves from what comes next to what was seen.
LEMMA SaidNext ==
  ASSUME NEW s \in Seq(Calls), NEW call \in Calls, NEW q \in Seq(Around)
  PROVE  Cat(s, Cat(<<call>>, q)) = Cat(Append(s, call), q) /\ Append(s, call) \in Seq(Calls)
<1> DEFINE c == <<call>>
<1>1. c \in Seq(Calls) /\ q \in Seq(Calls)
  BY AroundCalls, One
<1>2. Append(s, call) = s \o c /\ Append(s, call) \in Seq(Calls)
  BY AppendProperties, AppendIsConcat
<1> HIDE DEF c
<1>3. Cat(Cat(s, c), q) = Cat(s, Cat(c, q))
  BY <1>1, CatAssoc
<1> QED
  BY <1>2, <1>3, Zenon DEF Cat, c

\* The actions of visit keep OInv: the loop of visit(c, visitor),
LEMMA OInvLoop ==
  ASSUME OInv, EInv', Loop
  PROVE  OInv'
<1>1. phase = "visit" /\ todo = <<>> /\ lost' = lost /\ EInv
  <2>1. phase = "visit" /\ todo = <<>> /\ lost' = lost
    BY DEF Loop, Ended, packing
  <2> QED
    BY <2>1, Zenon DEF OInv
<1>2. CASE "int8" \in lost
  <2>1. phase' # "pack"
    BY <1>1 DEF Loop, Ended
  <2> QED
    BY <1>1, <1>2, <2>1, OInvLost
<1>3. CASE "int8" \notin lost
  <2>1. PICK w, n, at, said, stack, k, q, u :
          /\ At(w, n, at, said, stack, k, q, u)
          /\ \/ todo = Cat(q, Onward(stack[k], u))
             \/ stack[k] = <<>> /\ q = <<>> /\ todo = <<VisitNext>> /\ ~AtEnd
    BY <1>1, <1>3, Zenon DEF OInv, Going
  <2>2. q \in Seq(Around) /\ u \in Seq(Todo)
    BY <2>1, Zenon DEF At
  <2>3. /\ IsPrefix(seen, packed) /\ stack[k] \in Seq(Filled)
        /\ ~cut /\ pos >= Len(buf) => k = n /\ pos = Len(buf) /\ buf = w
        /\ pos < Len(buf) => k < n
    BY <1>1, <2>1, GoingIs, Zenon
  <2>4. todo = Cat(q, Onward(stack[k], u))
    BY <1>1, <2>1, NowVisit, Zenon
  <2>5. q = <<>> /\ stack[k] = <<>>
    <3>1. stack[k] \in Seq(Filled)
      BY <2>3, Zenon
    <3>2. todo = <<>> => q = <<>> /\ stack[k] = <<>>
      <4>1. Thing(todo, q, stack[k], u)
        BY <2>2, <2>4, <3>1, NextThing
      <4> QED
        BY <4>1, Zenon DEF Thing
    <3> QED
      BY <1>1, <3>2, Zenon
  <2>6. seen = said[k]
    <3>1. seen \in Seq(Calls) /\ Cat(seen, q) = said[k]
      BY <1>1, <2>1, Zenon DEF At, EInv
    <3>2. Cat(seen, <<>>) = seen
      BY <3>1, CatEmpty
    <3> QED
      BY <2>5, <3>1, <3>2, Zenon
  <2>7. CASE More
    <3>1. todo' = <<VisitNext>> /\ buf' = buf /\ pos' = pos /\ phase' = phase /\ seen' = seen /\ cut' = cut
          /\ open' = open /\ packed' = packed
      BY <2>7, Zenon DEF Loop, VisitNext, packing
    <3>2. At(w, n, at, said, stack, k, q, u)'
      BY <1>1, <2>1, <3>1, Zenon DEF At
    <3>3. ~AtEnd'
      <4>1. pos < Len(buf) /\ Len(buf) \in Nat /\ pos \in Nat
        BY <1>1, <2>7, LenProperties DEF More, EInv
      <4>2. ~(pos >= Len(buf))
        BY <4>1
      <4> QED
        BY <3>1, <4>2, Zenon DEF AtEnd
    <3>4. Going'
      BY <2>5, <3>1, <3>2, <3>3, Zenon DEF Going
    <3>5. phase' = "visit"
      BY <1>1, <3>1, Zenon
    <3> QED
      BY <1>1, <1>3, <3>4, <3>5, OInvGoes
  <2>8. CASE ~More
    <3>1. Ended("done")
      BY <2>8, Zenon DEF Loop
    <3>2. ASSUME ~cut PROVE open = <<>> /\ seen = packed /\ pos = Len(buf)
      <4>1. pos >= Len(buf)
        <5>1. Len(buf) \in Nat /\ pos \in Nat
          BY <1>1, LenProperties DEF EInv
        <5> QED
          BY <2>8, <5>1 DEF More
      <4>2. k = n /\ pos = Len(buf)
        BY <2>3, <3>2, <4>1, Zenon
      <4>3. said[n] = packed /\ stack[n] = open
        BY <2>1, Zenon DEF At, Told
      <4> QED
        BY <2>5, <2>6, <4>2, <4>3, Zenon
    <3>3. "done" # "pack" /\ "done" # "visit" /\ "done" \notin {"ended", "failed"}
      OBVIOUS
    <3> QED
      BY <2>3, <3>1, <3>2, <3>3, OInvEnds, Zenon
  <2> QED
    BY <2>7, <2>8
<1> QED
  BY <1>2, <1>3

\* the calls around the parts,
LEMMA OInvPart ==
  ASSUME OInv, EInv', CallPart
  PROVE  OInv'
<1> DEFINE e == Head(todo)
<1>1. phase = "visit" /\ todo # <<>> /\ e # VisitNext /\ Call(e, pos, Tail(todo))
  BY DEF CallPart, VisitNext
<1>2. /\ seen' = Append(seen, e) /\ pos' = pos /\ buf' = buf /\ cut' = cut
      /\ open' = open /\ packed' = packed /\ lost' = lost
      /\ (todo' = Tail(todo) /\ phase' = phase) \/ phase' = "stopped"
  BY <1>1 DEF Call, packing
<1>3. EInv
  BY Zenon DEF OInv
<1>4. CASE "int8" \in lost
  <2>1. phase' # "pack"
    BY <1>1, <1>2
  <2> QED
    BY <1>2, <1>4, <2>1, OInvLost
<1>5. CASE "int8" \notin lost
  <2>1. PICK w, n, at, said, stack, k, q, u :
          /\ At(w, n, at, said, stack, k, q, u)
          /\ \/ todo = Cat(q, Onward(stack[k], u))
             \/ stack[k] = <<>> /\ q = <<>> /\ todo = <<VisitNext>> /\ ~AtEnd
    BY <1>1, <1>5, Zenon DEF OInv, Going
  <2>2. q \in Seq(Around) /\ u \in Seq(Todo)
    BY <2>1, Zenon DEF At
  <2>3. /\ IsPrefix(seen, packed) /\ stack[k] \in Seq(Filled)
        /\ ~cut /\ pos >= Len(buf) => k = n /\ pos = Len(buf) /\ buf = w
        /\ pos < Len(buf) => k < n
    BY <1>3, <2>1, GoingIs, Zenon
  <2>4. todo = Cat(q, Onward(stack[k], u))
    BY <1>1, <2>1, NowVisit, Zenon
  <2>5. PICK q2 \in Seq(Around) : /\ Head(todo) \in Around /\ q = Cat(<<Head(todo)>>, q2)
                                  /\ Tail(todo) = Cat(q2, Onward(stack[k], u))
    <3>1. todo # <<>> /\ Head(todo) # VisitNext
      BY <1>1
    <3>2. todo # <<>> /\ Head(todo) # VisitNext =>
              \E q2 \in Seq(Around) : /\ Head(todo) \in Around /\ q = Cat(<<Head(todo)>>, q2)
                                      /\ Tail(todo) = Cat(q2, Onward(stack[k], u))
      <4>1. stack[k] \in Seq(Filled)
        BY <2>3, Zenon
      <4>2. Thing(todo, q, stack[k], u)
        BY <2>2, <2>4, <4>1, NextThing
      <4> QED
        BY <4>2, Zenon DEF Thing
    <3> QED
      BY <3>1, <3>2, Zenon
  <2>6. e \in Around /\ e \in Calls /\ q = Cat(<<e>>, q2) /\ Tail(todo) = Cat(q2, Onward(stack[k], u))
    <3>1. e \in Around
      BY <2>5, Zenon
    <3>2. e \in Calls
      BY <3>1, Zenon DEF Calls
    <3> QED
      BY <2>5, <3>1, <3>2, Zenon
  <2>7. seen \in Seq(Calls)
    BY <1>3, Zenon DEF EInv
  <2> HIDE DEF e
  <2>8. Cat(seen, Cat(<<e>>, q2)) = Cat(Append(seen, e), q2) /\ Append(seen, e) \in Seq(Calls)
    BY <2>6, <2>7, SaidNext
  <2>9. Cat(seen', q2) = said[k]
    BY <1>2, <2>1, <2>6, <2>8, Zenon DEF At
  <2>10. At(w, n, at, said, stack, k, q2, u)'
    BY <1>2, <2>1, <2>9, Zenon DEF At
  <2>11. CASE todo' = Tail(todo) /\ phase' = phase
    <3>1. Going'
      BY <2>6, <2>10, <2>11, Zenon DEF Going
    <3>2. phase' = "visit" /\ phase = "visit" /\ lost' = lost
      BY <1>1, <1>2, <2>11, Zenon
    <3> QED
      BY <1>5, <3>1, <3>2, OInvGoes
  <2>12. CASE phase' = "stopped"
    <3>1. Place(packed', at[k], Cat(seen', q2), stack[k]) /\ seen' \in Seq(Calls)
      BY <1>2, <2>8, <2>10, Zenon DEF At, Told
    <3>2. IsPrefix(seen', packed')
      BY <3>1, SeenBegins
    <3> QED
      BY <1>1, <1>2, <1>5, <2>12, <3>2, OInvGoes, Zenon
  <2> QED
    BY <1>2, <2>11, <2>12, Zenon
<1> QED
  BY <1>4, <1>5

\* Without containers nothing is pending.
LEMMA NonePending ==
  ASSUME NEW cs, cs = <<>>, NEW t, IsPending(cs, t)
  PROVE  t = <<>>
<1>1. PICK p : Piles(cs, p) /\ t = p[Len(cs)]
  BY Zenon DEF IsPending
<1>2. Len(cs) = 0
  OBVIOUS
<1>3. p[0] = <<>>
  BY <1>1, Zenon DEF Piles
<1> QED
  BY <1>1, <1>2, <1>3, Zenon

\* the visit of a value,
LEMMA OInvValue ==
  ASSUME OInv, EInv', VisitValue
  PROVE  OInv'
<1>1. phase = "visit" /\ todo # <<>> /\ Head(todo) = VisitNext /\ ~AtEnd
  BY DEF VisitValue, VisitInt, VisitConstant, VisitStrBin, VisitExt, VisitContainer, VisitInvalid, AtValue, VisitNext
<1>2. EInv
  BY Zenon DEF OInv
<1>3. buf \in Seq(Byte) /\ pos \in Nat /\ seen \in Seq(Calls) /\ Len(buf) \in Nat /\ pos < Len(buf)
  <2>1. buf \in Seq(Byte) /\ pos \in Nat /\ seen \in Seq(Calls)
    BY <1>2, Zenon DEF EInv
  <2> QED
    BY <1>1, <2>1, LenProperties DEF AtEnd
<1>4. CASE "int8" \notin lost
  <2>1. PICK w, n, at, said, stack, k, q, u :
          /\ At(w, n, at, said, stack, k, q, u)
          /\ \/ todo = Cat(q, Onward(stack[k], u))
             \/ stack[k] = <<>> /\ q = <<>> /\ todo = <<VisitNext>> /\ ~AtEnd
    BY <1>1, <1>4, Zenon DEF OInv, Going
  <2>2. /\ Told(w, packed, open, lost, n, at, said, stack)
        /\ Len(buf) <= Len(w) /\ (\A i \in 1 .. Len(buf) : buf[i] = w[i]) /\ (~cut => buf = w)
        /\ k \in 0 .. n /\ pos = at[k] /\ q \in Seq(Around) /\ u \in Seq(Todo) /\ IsPending(stack[k], u)
        /\ Cat(seen, q) = said[k]
    BY <2>1, Zenon DEF At
  <2>3. /\ IsPrefix(seen, packed) /\ stack[k] \in Seq(Filled)
        /\ ~cut /\ pos >= Len(buf) => k = n /\ pos = Len(buf) /\ buf = w
        /\ pos < Len(buf) => k < n
    BY <1>2, <2>1, GoingIs, Zenon
  <2>4. stack[k] \in Seq(Filled) /\ q \in Seq(Around) /\ u \in Seq(Todo)
    BY <2>2, <2>3, Zenon
  <2>5. q = <<>> /\ Tail(todo) = u
    <3>1. CASE todo = Cat(q, Onward(stack[k], u))
      <4>1. Thing(todo, q, stack[k], u)
        BY <2>4, <3>1, NextThing
      <4> QED
        BY <1>1, <4>1, Zenon DEF Thing
    <3>2. CASE stack[k] = <<>> /\ q = <<>> /\ todo = <<VisitNext>>
      <4>1. u = <<>>
        <5>1. IsPending(stack[k], u)
          BY <2>2, Zenon
        <5>2. stack[k] = <<>>
          BY <3>2, Zenon
        <5> QED
          BY <5>1, <5>2, NonePending, Zenon
      <4> QED
        BY <3>2, <4>1, NowVisit, Zenon
    <3> QED
      BY <2>1, <3>1, <3>2, Zenon
  <2>6. seen = said[k]
    <3>1. Cat(seen, <<>>) = seen
      BY <1>3, CatEmpty
    <3> QED
      BY <2>2, <2>5, <3>1, Zenon
  <2>7. /\ n \in Nat /\ w \in Seq(Byte) /\ Len(w) \in Nat
        /\ \A i \in 0 .. n : Place(packed, at[i], said[i], stack[i])
        /\ \A i \in 1 .. n : Value(w, lost, at[i - 1], said[i - 1], stack[i - 1], at[i], said[i], stack[i])
    <3>1. /\ n \in Nat /\ w \in Seq(Byte)
          /\ \A i \in 0 .. n : Place(packed, at[i], said[i], stack[i])
          /\ \A i \in 1 .. n : Value(w, lost, at[i - 1], said[i - 1], stack[i - 1], at[i], said[i], stack[i])
      BY <2>2, Zenon DEF Told
    <3>2. Len(w) \in Nat
      BY <3>1, LenProperties
    <3> QED
      BY <3>1, <3>2, Zenon
  <2> DEFINE j == k + 1
  <2>8. j \in 1 .. n /\ j \in 0 .. n /\ j - 1 = k
    <3>1. k < n
      BY <1>3, <2>3, Zenon
    <3>2. k \in 0 .. n
      BY <2>2, Zenon
    <3> QED
      BY <2>7, <3>1, <3>2
  <2> HIDE DEF j
  <2>9. Value(w, lost, pos, seen, stack[k], at[j], said[j], stack[j])
    <3>1. Value(w, lost, at[j - 1], said[j - 1], stack[j - 1], at[j], said[j], stack[j])
      BY <2>7, <2>8, Zenon
    <3> QED
      BY <2>2, <2>6, <2>8, <3>1, Zenon
  <2>10. PICK b, call, kinds, q2 :
           /\ Written(pos, b, call, kinds) /\ Lies(w, pos, b) /\ at[j] = pos + Len(b)
           /\ kinds \subseteq lost /\ Follows(call, stack[k], q2, stack[j]) /\ said[j] = Cat(seen, Cat(<<call>>, q2))
    BY <2>9, Zenon DEF Value
  <2>11. Written(pos, b, call, kinds) /\ Lies(w, pos, b) /\ at[j] = pos + Len(b) /\ kinds \subseteq lost
    BY <2>10, Zenon
  <2>12. b \in Seq(Byte) /\ Len(b) \in Nat /\ call \in Calls
    BY <1>3, <2>11, WrittenIs
  <2>13. Partly(pos, b)
    <3>1. \A i \in 1 .. Len(b) : w[pos + i] = b[i]
      BY <2>11, Zenon DEF Lies
    <3>2. \A i \in 1 .. Len(buf) : buf[i] = w[i]
      BY <2>2, Zenon
    <3>3. ASSUME NEW i \in 1 .. Len(b), pos + i <= Len(buf) PROVE buf[pos + i] = b[i]
      <4>1. pos + i \in 1 .. Len(buf)
        BY <1>3, <2>12, <3>3
      <4> QED
        BY <3>1, <3>2, <4>1, Zenon
    <3> QED
      BY <3>3, Zenon DEF Partly
  <2>14. "int8" \notin kinds
    BY <1>4, <2>11, Zenon
  <2>15. Outcome(b, call, kinds)
    BY <1>1, <1>3, <2>11, <2>13, <2>14, ChunkBack, Zenon
  <2>16. CASE Ended("failed") /\ (pos + Len(b) > Len(buf) \/ kinds # {})
    <3>1. cut \/ lost # {}
      <4>1. pos + Len(b) <= Len(w)
        BY <2>11, Zenon DEF Lies
      <4>2. pos + Len(b) > Len(buf) => ~(Len(buf) = Len(w))
        BY <1>3, <2>7, <2>12, <4>1
      <4>3. ~cut => Len(buf) = Len(w)
        BY <2>2, Zenon
      <4>4. kinds # {} => lost # {}
        BY <2>11
      <4> QED
        BY <2>16, <4>2, <4>3, <4>4, Zenon
    <3>2. "failed" # "pack" /\ "failed" # "visit" /\ "failed" # "done"
      OBVIOUS
    <3> QED
      BY <2>3, <2>16, <3>1, <3>2, OInvEnds, Zenon
  <2>17. ASSUME NEW rest, Call(call, pos + Len(b), rest), Continues(call, Tail(todo), rest)
         PROVE  OInv'
    <3>1. Leading(rest, q2, stack[j])
      <4>1. Continues(call, u, rest) /\ Follows(call, stack[k], q2, stack[j]) /\ IsPending(stack[k], u)
        BY <2>2, <2>5, <2>10, <2>17, Zenon
      <4> QED
        BY <2>4, <4>1, FollowsOnward
    <3>2. PICK u2 \in Seq(Todo) : IsPending(stack[j], u2) /\ rest = Cat(q2, Onward(stack[j], u2))
      BY <3>1, Zenon DEF Leading
    <3>3. q2 \in Seq(Around)
      BY <3>1, Zenon DEF Leading
    <3>4. /\ seen' = Append(seen, call) /\ pos' = pos + Len(b) /\ buf' = buf /\ cut' = cut
          /\ open' = open /\ packed' = packed /\ lost' = lost
          /\ (todo' = rest /\ phase' = phase) \/ phase' = "stopped"
      BY <2>17 DEF Call, packing
    <3>5. Cat(seen, Cat(<<call>>, q2)) = Cat(Append(seen, call), q2) /\ Append(seen, call) \in Seq(Calls)
      BY <1>3, <2>12, <3>3, SaidNext
    <3>6. Cat(seen', q2) = said[j] /\ seen' \in Seq(Calls)
      BY <2>10, <3>4, <3>5, Zenon
    <3>7. At(w, n, at, said, stack, j, q2, u2)'
      <4>1. pos' = at[j]
        BY <2>11, <3>4, Zenon
      <4> QED
        BY <2>2, <2>8, <3>2, <3>3, <3>4, <3>6, <4>1, Zenon DEF At
    <3>8. CASE todo' = rest /\ phase' = phase
      <4>1. Going'
        BY <3>2, <3>7, <3>8, Zenon DEF Going
      <4>2. phase' = "visit" /\ phase = "visit" /\ lost' = lost
        BY <1>1, <3>4, <3>8, Zenon
      <4> QED
        BY <1>4, <4>1, <4>2, OInvGoes
    <3>9. CASE phase' = "stopped"
      <4>1. Place(packed', at[j], Cat(seen', q2), stack[j])
        <5>1. Place(packed, at[j], said[j], stack[j])
          BY <2>7, <2>8, Zenon
        <5> QED
          BY <3>4, <3>6, <5>1, Zenon
      <4>2. IsPrefix(seen', packed')
        BY <3>3, <3>6, <4>1, SeenBegins
      <4>3. phase = "visit" /\ lost' = lost
        BY <1>1, <3>4, Zenon
      <4> QED
        BY <1>4, <3>9, <4>2, <4>3, OInvGoes
    <3> QED
      BY <3>4, <3>8, <3>9, Zenon
  <2> QED
    BY <2>15, <2>16, <2>17, Zenon DEF Outcome
<1>5. CASE "int8" \in lost
  <2>1. lost' = lost /\ phase' # "pack"
    <3>1. Reads \/ VisitInvalid
      <4>1. buf \in Seq(0 .. 255) /\ todo \in Seq(Todo)
        <5>1. todo \in Seq(Todo)
          BY <1>2, Zenon DEF EInv
        <5> QED
          BY <1>3, <5>1 DEF Byte
      <4> QED
        BY <1>3, <4>1, IntReads, ConstantReads, StrBinReads, ExtReads, ContainerReads DEF VisitValue
    <3>2. ASSUME NEW how \in {"failed"}, Ended(how) PROVE lost' = lost /\ phase' # "pack"
      BY <3>2 DEF Ended, packing
    <3>3. ASSUME NEW call, NEW next, NEW rest, Call(call, next, rest) PROVE lost' = lost /\ phase' # "pack"
      BY <1>1, <3>3 DEF Call, packing
    <3>4. VisitInvalid => Ended("failed")
      BY DEF VisitInvalid
    <3>5. "failed" \in {"failed"}
      OBVIOUS
    <3> QED
      BY <3>1, <3>2, <3>3, <3>4, <3>5, Zenon DEF Reads
  <2> QED
    BY <1>5, <2>1, OInvLost
<1> QED
  BY <1>4, <1>5

\* and the end of the buffer inside a container.
LEMMA OInvVisitEnd ==
  ASSUME OInv, EInv', VisitEnd
  PROVE  OInv'
<1>1. phase = "visit" /\ todo # <<>> /\ Head(todo) = VisitNext /\ AtEnd /\ Ended("ended")
  BY DEF VisitEnd, AtValue, VisitNext
<1>2. EInv
  BY Zenon DEF OInv
<1>3. lost' = lost /\ phase' # "pack"
  BY <1>1 DEF Ended, packing
<1>4. CASE "int8" \in lost
  BY <1>3, <1>4, OInvLost
<1>5. CASE "int8" \notin lost
  <2>1. PICK w, n, at, said, stack, k, q, u :
          /\ At(w, n, at, said, stack, k, q, u)
          /\ \/ todo = Cat(q, Onward(stack[k], u))
             \/ stack[k] = <<>> /\ q = <<>> /\ todo = <<VisitNext>> /\ ~AtEnd
    BY <1>1, <1>5, Zenon DEF OInv, Going
  <2>2. q \in Seq(Around) /\ u \in Seq(Todo)
    BY <2>1, Zenon DEF At
  <2>3. /\ IsPrefix(seen, packed) /\ stack[k] \in Seq(Filled)
        /\ ~cut /\ pos >= Len(buf) => k = n /\ pos = Len(buf) /\ buf = w
        /\ pos < Len(buf) => k < n
    BY <1>2, <2>1, GoingIs, Zenon
  <2>4. stack[k] # <<>>
    <3>1. stack[k] \in Seq(Filled) /\ todo = Cat(q, Onward(stack[k], u))
      BY <1>1, <2>1, <2>3, Zenon
    <3>2. Thing(todo, q, stack[k], u)
      BY <2>2, <3>1, NextThing
    <3> QED
      BY <1>1, <3>2, Zenon DEF Thing
  <2>5. cut \/ open # <<>> \/ lost # {}
    <3> SUFFICES ASSUME ~cut PROVE open # <<>>
      BY Zenon
    <3>1. pos >= Len(buf)
      BY <1>1, Zenon DEF AtEnd
    <3>2. k = n
      BY <2>3, <3>1, Zenon
    <3>3. stack[n] = open
      BY <2>1, Zenon DEF At, Told
    <3> QED
      BY <2>4, <3>2, <3>3, Zenon
  <2>6. "ended" # "pack" /\ "ended" # "visit" /\ "ended" # "done"
    OBVIOUS
  <2> QED
    BY <1>1, <2>3, <2>5, <2>6, OInvEnds, Zenon
<1> QED
  BY <1>4, <1>5

\* OInv is inductive.
LEMMA OInvStep ==
  ASSUME OInv, [Next]_vars
  PROVE  OInv'
<1>1. EInv'
  <2>1. EInv
    BY Zenon DEF OInv
  <2> QED
    BY <2>1, EInvStep
<1>2. CASE PackScalar \/ PackBytes \/ PackContainer
  BY <1>1, <1>2, OInvPack
<1>3. CASE Receive
  BY <1>1, <1>3, OInvReceive
<1>4. CASE Loop
  BY <1>1, <1>4, OInvLoop
<1>5. CASE CallPart
  BY <1>1, <1>5, OInvPart
<1>6. CASE VisitEnd
  BY <1>1, <1>6, OInvVisitEnd
<1>7. CASE VisitValue
  BY <1>1, <1>7, OInvValue
<1>8. CASE UNCHANGED vars
  <2>1. /\ buf' = buf /\ pos' = pos /\ todo' = todo /\ phase' = phase /\ seen' = seen
        /\ open' = open /\ packed' = packed /\ lost' = lost /\ cut' = cut
    BY <1>8 DEF vars
  <2>2. SeenInOrder' /\ WholeIsSeen' /\ WholeIsVisited'
    BY <2>1, Zenon DEF OInv, SeenInOrder, WholeIsSeen, WholeIsVisited
  <2>3. Packing => Packing'
    BY <2>1, Zenon DEF Packing
  <2>4. Going => Going'
    <3>1. AtEnd' <=> AtEnd
      BY <2>1, Zenon DEF AtEnd
    <3>2. ASSUME Going PROVE Going'
      <4>1. PICK w, n, at, said, stack, k, q, u :
              /\ At(w, n, at, said, stack, k, q, u)
              /\ \/ todo = Cat(q, Onward(stack[k], u))
                 \/ stack[k] = <<>> /\ q = <<>> /\ todo = <<VisitNext>> /\ ~AtEnd
        BY <3>2, Zenon DEF Going
      <4>2. At(w, n, at, said, stack, k, q, u)'
        BY <2>1, <4>1, Zenon DEF At
      <4> QED
        BY <2>1, <3>1, <4>1, <4>2, Zenon DEF Going
    <3> QED
      BY <3>2
  <2> QED
    BY <1>1, <2>1, <2>2, <2>3, <2>4, Zenon DEF OInv
<1> QED
  BY <1>2, <1>3, <1>4, <1>5, <1>6, <1>7, <1>8, Zenon DEF Next, Visit, VisitValue

\* OInv holds at the start.
LEMMA OInvInit ==
  ASSUME Init
  PROVE  OInv
<1>1. /\ buf = <<>> /\ pos = 0 /\ todo = <<>> /\ phase = "pack" /\ seen = <<>>
      /\ open = <<>> /\ packed = <<>> /\ ~cut
  BY DEF Init
<1>2. EInv
  BY <1>1, EInvInit
<1>3. Packing
  BY <1>1, ToldNothing, Zenon DEF Packing
<1>4. IsPrefix(<<>>, <<>>)
  <2>1. <<>> \in Seq(Calls)
    OBVIOUS
  <2>2. Cat(<<>>, <<>>) = <<>> /\ IsPrefix(<<>>, Cat(<<>>, <<>>))
    BY <2>1, CatEmpty, PrefixCat
  <2> QED
    BY <2>2, Zenon
<1>5. SeenInOrder
  BY <1>1, <1>4, Zenon DEF SeenInOrder
<1>6. phase # "visit" /\ phase # "done" /\ phase \notin {"ended", "failed"}
  BY <1>1
<1> QED
  BY <1>1, <1>2, <1>3, <1>5, <1>6, Zenon DEF OInv, WholeIsSeen, WholeIsVisited

\* So it always holds.
LEMMA OInvAlways == Spec => []OInv
<1>1. Init => OInv
  BY OInvInit
<1>2. OInv /\ [Next]_vars => OInv'
  BY OInvStep
<1> QED
  BY <1>1, <1>2, PTL DEF Spec

\* The calls that the visitor is given are a beginning of those for what was
\* packed, in its order and with its values: for any packed values, nested as
\* they may be, any cut of the buffer, and whenever the visitor stops.
THEOREM OrderKept == Spec => []SeenInOrder
<1>1. OInv => SeenInOrder
  BY DEF OInv
<1> QED
  BY <1>1, OInvAlways, PTL

\* When msgpack::visit comes to the end of a buffer that lost nothing, the
\* visitor was given all that was packed and no container was left unfinished.
THEOREM WholeShown == Spec => []WholeIsSeen
<1>1. OInv => WholeIsSeen
  BY DEF OInv
<1> QED
  BY <1>1, OInvAlways, PTL

\* msgpack::visit fails, or gives up inside a container, only when the buffer was
\* cut, the client packed less than a container was announced to hold, or a
\* value was packed that no format is there to read.
THEOREM WholeVisited == Spec => []WholeIsVisited
<1>1. OInv => WholeIsVisited
  BY DEF OInv
<1> QED
  BY <1>1, OInvAlways, PTL
=============================================================================
