------------------------------ MODULE PartsProofs ------------------------------
(***************************************************************************)
(* Theorems about the components that Parts brings together, each for all  *)
(* values of its constants.                                                *)
(***************************************************************************)
EXTENDS Parts, TLAPS, FiniteSetTheorems, SequenceTheorems

-----------------------------------------------------------------------------
\* Sequences.

\* t is a and then b.
Joins(T, a, b, t) ==
  /\ t \in Seq(T) /\ Len(t) = Len(a) + Len(b)
  /\ \A k \in 1 .. Len(a) + Len(b) : t[k] = IF k <= Len(a) THEN a[k] ELSE b[k - Len(a)]

LEMMA Concatenated ==
  ASSUME NEW T, NEW a \in Seq(T), NEW b \in Seq(T), NEW t, t = a \o b
  PROVE  Joins(T, a, b, t)
<1>1. /\ a \o b \in Seq(T) /\ Len(a \o b) = Len(a) + Len(b)
      /\ \A k \in 1 .. Len(a) + Len(b) : (a \o b)[k] = IF k <= Len(a) THEN a[k] ELSE b[k - Len(a)]
  BY ConcatProperties
<1> QED
  BY <1>1, Zenon DEF Joins

LEMMA FirstPart ==
  ASSUME NEW T, NEW s \in Seq(T), NEW i \in 0 .. Len(s), NEW a, a = SubSeq(s, 1, i)
  PROVE  a \in Seq(T) /\ Len(a) = i /\ \A k \in 1 .. i : a[k] = s[k]
<1>1. Len(s) \in Nat /\ \A k \in 1 .. Len(s) : s[k] \in T
  BY LenProperties, ElementOfSeq
<1>2. 1 \in Int /\ i \in Int /\ \A k \in 1 .. i : s[k] \in T
  BY <1>1
<1>3. /\ SubSeq(s, 1, i) \in Seq(T)
      /\ Len(SubSeq(s, 1, i)) = IF 1 <= i THEN i - 1 + 1 ELSE 0
      /\ \A k \in 1 .. i - 1 + 1 : SubSeq(s, 1, i)[k] = s[1 + k - 1]
  BY <1>2, SubSeqProperties
<1>4. /\ a \in Seq(T) /\ Len(a) = IF 1 <= i THEN i - 1 + 1 ELSE 0
      /\ \A k \in 1 .. i - 1 + 1 : a[k] = s[1 + k - 1]
  BY <1>3, Zenon
<1> QED
  BY <1>1, <1>4

LEMMA LastPart ==
  ASSUME NEW T, NEW s \in Seq(T), NEW j \in 0 .. Len(s), NEW b, b = SubSeq(s, j + 1, Len(s))
  PROVE  b \in Seq(T) /\ Len(b) = Len(s) - j /\ \A k \in 1 .. Len(s) - j : b[k] = s[j + k]
<1>1. Len(s) \in Nat /\ \A k \in 1 .. Len(s) : s[k] \in T
  BY LenProperties, ElementOfSeq
<1> DEFINE m == j + 1
<1>2. m \in Int /\ Len(s) \in Int /\ \A k \in m .. Len(s) : s[k] \in T
  BY <1>1
<1>3. /\ SubSeq(s, m, Len(s)) \in Seq(T)
      /\ Len(SubSeq(s, m, Len(s))) = IF m <= Len(s) THEN Len(s) - m + 1 ELSE 0
      /\ \A k \in 1 .. Len(s) - m + 1 : SubSeq(s, m, Len(s))[k] = s[m + k - 1]
  BY <1>2, SubSeqProperties
<1>4. /\ b \in Seq(T) /\ Len(b) = IF m <= Len(s) THEN Len(s) - m + 1 ELSE 0
      /\ \A k \in 1 .. Len(s) - m + 1 : b[k] = s[m + k - 1]
  BY <1>3, Zenon
<1> QED
  BY <1>1, <1>4

\* s with w in the place of what is behind position i, up to position j.
Spliced(s, i, w, j) == SubSeq(s, 1, i) \o w \o SubSeq(s, j + 1, Len(s))

Splices(T, s, i, w, j, t) ==
  /\ t \in Seq(T) /\ Len(t) = i + Len(w) + (Len(s) - j)
  /\ \A k \in 1 .. Len(t) : t[k] = IF k <= i THEN s[k]
                                   ELSE IF k <= i + Len(w) THEN w[k - i]
                                   ELSE s[k - (i + Len(w)) + j]

LEMMA SplicedIs ==
  ASSUME NEW T, NEW s \in Seq(T), NEW w \in Seq(T), NEW i \in 0 .. Len(s), NEW j \in i .. Len(s),
         NEW t, t = Spliced(s, i, w, j)
  PROVE  Splices(T, s, i, w, j, t)
<1> DEFINE a == SubSeq(s, 1, i)
           b == SubSeq(s, j + 1, Len(s))
           aw == a \o w
<1>1. Len(s) \in Nat /\ Len(w) \in Nat /\ i \in Nat /\ j \in 0 .. Len(s) /\ j \in Nat
  BY LenProperties
<1>2. a \in Seq(T) /\ Len(a) = i /\ \A k \in 1 .. i : a[k] = s[k]
  BY FirstPart
<1>3. b \in Seq(T) /\ Len(b) = Len(s) - j /\ \A k \in 1 .. Len(s) - j : b[k] = s[j + k]
  BY <1>1, LastPart
<1>4. t = aw \o b
  BY Zenon DEF Spliced
<1> HIDE DEF a, b
<1>5. aw = a \o w
  OBVIOUS
<1> HIDE DEF aw
<1>6. Joins(T, a, w, aw)
  BY <1>2, <1>5, Concatenated
<1>7. Joins(T, aw, b, t)
  <2>1. aw \in Seq(T)
    BY <1>6 DEF Joins
  <2> QED
    BY <1>3, <1>4, <2>1, Concatenated
<1> DEFINE iw == i + Len(w)
<1>8. /\ Len(aw) = iw /\ \A k \in 1 .. iw : aw[k] = IF k <= i THEN a[k] ELSE w[k - i]
  BY <1>2, <1>6 DEF Joins
<1>9. /\ t \in Seq(T) /\ Len(t) = iw + (Len(s) - j)
      /\ \A k \in 1 .. iw + (Len(s) - j) : t[k] = IF k <= iw THEN aw[k] ELSE b[k - iw]
  BY <1>3, <1>7, <1>8 DEF Joins
<1>10. ASSUME NEW k \in 1 .. Len(t)
       PROVE  t[k] = IF k <= i THEN s[k] ELSE IF k <= iw THEN w[k - i] ELSE s[k - iw + j]
  <2>1. k \in 1 .. iw + (Len(s) - j) /\ iw \in Nat /\ i <= iw
    BY <1>1, <1>9
  <2>2. t[k] = IF k <= iw THEN aw[k] ELSE b[k - iw]
    BY <1>9, <2>1
  <2>3. CASE k <= iw
    <3>1. aw[k] = IF k <= i THEN a[k] ELSE w[k - i]
      BY <1>8, <2>1, <2>3
    <3>2. k <= i => a[k] = s[k]
      BY <1>1, <1>2, <2>1
    <3> QED
      BY <2>2, <2>3, <3>1, <3>2
  <2>4. CASE ~(k <= iw)
    <3> DEFINE l == k - iw
    <3>1. l \in 1 .. Len(s) - j /\ j + l = k - iw + j /\ ~(k <= i)
      BY <1>1, <2>1, <2>4
    <3>2. b[l] = s[j + l]
      BY <1>3, <3>1
    <3> QED
      BY <2>2, <2>4, <3>1, <3>2
  <2> QED
    BY <2>3, <2>4
<1> QED
  BY <1>9, <1>10 DEF Splices

-----------------------------------------------------------------------------
\* Vect.

Stored == VectItem \cup {Zero}

\* A vector with memory for cap items.
Vector(v, cap) == /\ cap \in Nat
                  /\ v \in [length : 0 .. cap, items : [0 .. cap - 1 -> Stored]]

\* The sequence that a vector shows.
Shown(v) == V!Items(v.items, 0, v.length)

\* The instance has its own Cardinality.
LEMMA SameCardinality == ASSUME NEW set PROVE V!Cardinality(set) = Cardinality(set)
BY DEF V!Cardinality, V!IsFiniteSet, Cardinality, IsFiniteSet

LEMMA SizeOfBlock ==
  ASSUME NEW n \in Nat, NEW b, DOMAIN b = 0 .. n - 1
  PROVE  V!Size(b) = n
<1> DEFINE last == n - 1
<1>1. last \in Int /\ 0 \in Int
  OBVIOUS
<1>2. (IF 0 > last THEN 0 ELSE last - 0 + 1) = n
  OBVIOUS
<1> HIDE DEF last
<1>3. Cardinality(0 .. last) = n
  BY <1>1, <1>2, FS_Interval
<1>4. DOMAIN b = 0 .. last
  BY DEF last
<1>5. V!Size(b) = Cardinality(DOMAIN b)
  BY SameCardinality DEF V!Size
<1> QED
  BY <1>3, <1>4, <1>5, Zenon

\* _vect_reserve keeps what is shown and makes room for n items.
LEMMA ReservedKeeps ==
  ASSUME NEW v, NEW cap, Vector(v, cap), NEW n \in Nat
  PROVE  \E c \in Nat : /\ Vector(V!Reserved(v, n), c) /\ n <= c
                        /\ V!Reserved(v, n).length = v.length
                        /\ \A i \in 0 .. v.length - 1 : V!Reserved(v, n).items[i] = v.items[i]
<1>1. V!Size(v.items) = cap
  BY SizeOfBlock DEF Vector
<1>2. CASE cap >= n
  <2>1. V!Reserved(v, n) = v
    BY <1>1, <1>2 DEF V!Reserved
  <2> QED
    BY <1>2, <2>1 DEF Vector
<1>3. CASE ~(cap >= n)
  <2> DEFINE g == V!Grown(v.items, n, Zero)
  <2>1. V!Reserved(v, n) = [v EXCEPT !.items = g]
    BY <1>1, <1>3 DEF V!Reserved
  <2>2. g \in [0 .. n - 1 -> Stored] /\ \A i \in 0 .. cap - 1 : g[i] = v.items[i]
    BY <1>3 DEF V!Grown, Vector, Stored
  <2> HIDE DEF g
  <2>3. Vector(V!Reserved(v, n), n)
    <3>1. v.length \in 0 .. n
      BY <1>3 DEF Vector
    <3>2. [v EXCEPT !.items = g] = [length |-> v.length, items |-> g]
      BY DEF Vector
    <3> QED
      BY <2>1, <2>2, <3>1, <3>2 DEF Vector
  <2>4. V!Reserved(v, n).length = v.length /\ V!Reserved(v, n).items = g
    BY <2>1 DEF Vector
  <2>5. \A i \in 0 .. v.length - 1 : g[i] = v.items[i]
    BY <2>2 DEF Vector
  <2> QED
    BY <2>3, <2>4, <2>5
<1> QED
  BY <1>2, <1>3 DEF Vector

LEMMA ShownIsSeq ==
  ASSUME NEW v, NEW cap, Vector(v, cap)
  PROVE  /\ Shown(v) \in Seq(Stored) /\ Len(Shown(v)) = v.length
         /\ \A j \in 1 .. v.length : Shown(v)[j] = v.items[j - 1]
         /\ \A x : x \in V!Abstract!ToSet(Shown(v)) <=> \E i \in 0 .. v.length - 1 : v.items[i] = x
<1>1. Shown(v) = [j \in 1 .. v.length |-> v.items[0 + j - 1]]
  BY DEF Shown, V!Items
<1>2. v.length \in Nat /\ \A j \in 1 .. v.length : v.items[0 + j - 1] \in Stored
  BY DEF Vector
<1>3. Shown(v) \in [1 .. v.length -> Stored]
  BY <1>1, <1>2
<1>4. Shown(v) \in Seq(Stored) /\ Len(Shown(v)) = v.length
  BY <1>2, <1>3
<1>5. \A j \in 1 .. v.length : Shown(v)[j] = v.items[j - 1]
  BY <1>1, <1>2
<1>6. DOMAIN Shown(v) = 1 .. v.length
  BY <1>3
<1>7. ASSUME NEW x, x \in V!Abstract!ToSet(Shown(v)) PROVE \E i \in 0 .. v.length - 1 : v.items[i] = x
  <2>1. PICK j \in 1 .. v.length : Shown(v)[j] = x
    BY <1>6, <1>7 DEF V!Abstract!ToSet
  <2>2. j - 1 \in 0 .. v.length - 1 /\ v.items[j - 1] = x
    BY <1>2, <1>5, <2>1
  <2> QED
    BY <2>2
<1>8. ASSUME NEW i \in 0 .. v.length - 1 PROVE v.items[i] \in V!Abstract!ToSet(Shown(v))
  <2>1. i + 1 \in 1 .. v.length /\ Shown(v)[i + 1] = v.items[i]
    BY <1>2, <1>5
  <2> QED
    BY <1>6, <2>1 DEF V!Abstract!ToSet
<1> QED
  BY <1>4, <1>5, <1>7, <1>8

\* What OwningSeq does to a sequence, position by position.
Without(s, i, j) == SubSeq(s, 1, i - 1) \o SubSeq(s, j + 1, Len(s))

LEMMA TakenOut ==
  ASSUME NEW s \in Seq(Stored), NEW i \in 1 .. Len(s), NEW j \in i .. Len(s),
         NEW t, t = Without(s, i, j)
  PROVE  /\ t \in Seq(Stored) /\ Len(t) = Len(s) - (j - i + 1)
         /\ \A k \in 1 .. Len(t) : t[k] = IF k < i THEN s[k] ELSE s[k + (j - i + 1)]
<1> DEFINE h == i - 1
<1>1. Len(s) \in Nat /\ i \in Nat /\ j \in Nat /\ h \in 0 .. Len(s) /\ j \in h .. Len(s)
  BY LenProperties
<1>2. t = Spliced(s, h, <<>>, j)
  <2>1. SubSeq(s, 1, h) \in Seq(Stored)
    BY <1>1, FirstPart
  <2>2. SubSeq(s, 1, h) \o <<>> = SubSeq(s, 1, h)
    BY <2>1, ConcatEmptySeq
  <2> QED
    BY <2>2, Zenon DEF Spliced, Without
<1>3. <<>> \in Seq(Stored) /\ Len(<<>>) = 0
  BY EmptySeq
<1> HIDE DEF h
<1>4. Splices(Stored, s, h, <<>>, j, t)
  BY <1>1, <1>2, <1>3, SplicedIs
<1>5. /\ t \in Seq(Stored) /\ Len(t) = h + 0 + (Len(s) - j)
      /\ \A k \in 1 .. Len(t) : t[k] = IF k <= h THEN s[k] ELSE IF k <= h + 0 THEN <<>>[k - h]
                                       ELSE s[k - (h + 0) + j]
  BY <1>3, <1>4 DEF Splices
<1>6. Len(t) = Len(s) - (j - i + 1) /\ Len(t) \in Nat
  BY <1>1, <1>5 DEF h
<1>7. ASSUME NEW k \in 1 .. Len(t) PROVE t[k] = IF k < i THEN s[k] ELSE s[k + (j - i + 1)]
  <2>1. (k <= h <=> k < i) /\ (k <= h + 0 <=> k < i) /\ k - (h + 0) + j = k + (j - i + 1)
    BY <1>1, <1>6 DEF h
  <2> QED
    BY <1>5, <2>1
<1> QED
  BY <1>5, <1>6, <1>7

LEMMA InsertedAt ==
  ASSUME NEW s \in Seq(Stored), NEW i \in 1 .. Len(s) + 1, NEW x \in Stored,
         NEW t, t = V!Abstract!InsertAt(s, i, x)
  PROVE  /\ t \in Seq(Stored) /\ Len(t) = Len(s) + 1
         /\ \A k \in 1 .. Len(t) : t[k] = IF k < i THEN s[k] ELSE IF k = i THEN x ELSE s[k - 1]
<1> DEFINE h == i - 1
           m == <<x>>
<1>1. Len(s) \in Nat /\ i \in Nat /\ h \in 0 .. Len(s) /\ h \in h .. Len(s) /\ h + 1 = i
  BY LenProperties
<1>2. m \in Seq(Stored) /\ Len(m) = 1 /\ m[1] = x
  OBVIOUS
<1>3. t = SubSeq(s, 1, h) \o m \o SubSeq(s, i, Len(s))
  BY DEF V!Abstract!InsertAt
<1> HIDE DEF h, m
<1>4. t = Spliced(s, h, m, h)
  BY <1>1, <1>3, Zenon DEF Spliced
<1>5. Splices(Stored, s, h, m, h, t)
  BY <1>1, <1>2, <1>4, SplicedIs
<1>6. /\ t \in Seq(Stored) /\ Len(t) = h + 1 + (Len(s) - h)
      /\ \A k \in 1 .. Len(t) : t[k] = IF k <= h THEN s[k] ELSE IF k <= h + 1 THEN m[k - h]
                                       ELSE s[k - (h + 1) + h]
  BY <1>2, <1>5 DEF Splices
<1>7. Len(t) = Len(s) + 1
  BY <1>1, <1>6
<1>8. ASSUME NEW k \in 1 .. Len(t)
      PROVE  t[k] = IF k < i THEN s[k] ELSE IF k = i THEN x ELSE s[k - 1]
  <2>1. /\ (k <= h <=> k < i) /\ (k <= h + 1 <=> k <= i)
        /\ k - (h + 1) + h = k - 1 /\ (k = i => k - h = 1) /\ (k <= i /\ ~(k < i) => k = i)
    BY <1>1, <1>7
  <2> QED
    BY <1>2, <1>6, <2>1
<1> QED
  BY <1>6, <1>7, <1>8

LEMMA ShownAs ==
  ASSUME NEW v, NEW cap, Vector(v, cap), NEW t \in Seq(Stored), Len(t) = v.length,
         \A j \in 1 .. v.length : t[j] = v.items[j - 1]
  PROVE  Shown(v) = t
<1>1. /\ Shown(v) \in Seq(Stored) /\ Len(Shown(v)) = v.length
      /\ \A j \in 1 .. v.length : Shown(v)[j] = v.items[j - 1]
  BY ShownIsSeq
<1>2. Len(Shown(v)) = Len(t) /\ \A j \in 1 .. Len(Shown(v)) : Shown(v)[j] = t[j]
  BY <1>1
<1> QED
  BY <1>1, <1>2, SeqEqual

\* The inductive invariant: no item is at two positions, and none that is in
\* the vector was destroyed since it was put in.
Alone(v) == \A i, j \in 0 .. v.length - 1 :
              v.items[i] \in VectItem /\ v.items[i] = v.items[j] => i = j
Unharmed(v, d) == \A i \in 0 .. v.length - 1 : v.items[i] \in VectItem => d[v.items[i]] = 0

VectInv == /\ \E cap \in Nat : Vector(vect, cap)
           /\ dels \in [VectItem -> Nat]
           /\ Alone(vect)
           /\ Unharmed(vect, dels)

\* w is v without what is at a to b - 1.
Closes(v, w, a, b) ==
  /\ a \in 0 .. v.length - 1 /\ b \in a + 1 .. v.length
  /\ w.length = v.length - (b - a)
  /\ \A k \in 0 .. w.length - 1 : w.items[k] = v.items[IF k < a THEN k ELSE k + (b - a)]

LEMMA ClosedGap ==
  ASSUME NEW v, NEW cap, Vector(v, cap), NEW w, NEW c, Vector(w, c),
         NEW a, NEW b, Closes(v, w, a, b)
  PROVE  /\ Shown(w) = Without(Shown(v), a + 1, b)
         /\ Alone(v) => Alone(w)
         /\ \A k \in 0 .. w.length - 1 : \E m \in (0 .. v.length - 1) \ (a .. b - 1) :
              w.items[k] = v.items[m]
<1>1. /\ a \in Nat /\ b \in Nat /\ v.length \in Nat /\ w.length \in Nat
      /\ a < b /\ b <= v.length /\ w.length = v.length - (b - a)
  BY DEF Closes, Vector
<1>2. \A k \in 0 .. w.length - 1 : w.items[k] = v.items[IF k < a THEN k ELSE k + (b - a)]
  BY DEF Closes
<1> DEFINE from(k) == IF k < a THEN k ELSE k + (b - a)
<1>3. \A k \in 0 .. w.length - 1 : from(k) \in (0 .. v.length - 1) \ (a .. b - 1)
  BY <1>1
<1>4. \A k, l \in 0 .. w.length - 1 : from(k) = from(l) => k = l
  BY <1>1
<1>5. Alone(v) => Alone(w)
  BY <1>2, <1>3, <1>4 DEF Alone
<1>6. \A k \in 0 .. w.length - 1 : \E m \in (0 .. v.length - 1) \ (a .. b - 1) :
        w.items[k] = v.items[m]
  BY <1>2, <1>3
<1>7. Shown(w) = Without(Shown(v), a + 1, b)
  <2> DEFINE s == Shown(v)
             t == Without(s, a + 1, b)
  <2>1. /\ s \in Seq(Stored) /\ Len(s) = v.length
        /\ \A j \in 1 .. v.length : s[j] = v.items[j - 1]
    BY ShownIsSeq
  <2> HIDE DEF s
  <2>2. a + 1 \in 1 .. Len(s) /\ b \in a + 1 .. Len(s)
    BY <1>1, <2>1
  <2>3. /\ t \in Seq(Stored) /\ Len(t) = Len(s) - (b - (a + 1) + 1)
        /\ \A k \in 1 .. Len(t) : t[k] = IF k < a + 1 THEN s[k] ELSE s[k + (b - (a + 1) + 1)]
    BY <2>1, <2>2, TakenOut
  <2> HIDE DEF t
  <2>4. Len(t) = w.length
    BY <1>1, <2>1, <2>3
  <2>5. ASSUME NEW k \in 1 .. w.length PROVE t[k] = w.items[k - 1]
    <3>1. t[k] = IF k < a + 1 THEN s[k] ELSE s[k + (b - a)]
      BY <1>1, <2>3, <2>4
    <3>2. k - 1 \in 0 .. w.length - 1 /\ w.items[k - 1] = v.items[from(k - 1)]
      BY <1>1, <1>2
    <3>3. CASE k < a + 1
      BY <1>1, <2>1, <3>1, <3>2, <3>3
    <3>4. CASE ~(k < a + 1)
      <4> DEFINE m == k + (b - a)
      <4>1. m \in 1 .. v.length /\ from(k - 1) = m - 1
        BY <1>1, <3>4
      <4>2. t[k] = s[m]
        BY <3>1, <3>4
      <4> HIDE DEF m, from
      <4>3. s[m] = v.items[m - 1]
        BY <2>1, <4>1
      <4> QED
        BY <3>2, <4>1, <4>2, <4>3
    <3> QED
      BY <3>3, <3>4
  <2>6. Shown(w) = t
    BY <2>3, <2>4, <2>5, ShownAs
  <2> QED
    BY <2>6 DEF t, s
<1> QED
  BY <1>5, <1>6, <1>7

\* Taking a part out is TakeOut of OwningSeq.
LEMMA GapTakenOut ==
  ASSUME VectInv, NEW c \in Nat, Vector(vect', c), NEW a, NEW b, Closes(vect, vect', a, b),
         UNCHANGED dels
  PROVE  VectInv' /\ V!Abstract!Next
<1>1. PICK cap \in Nat : Vector(vect, cap)
  BY DEF VectInv
<1>2. /\ Shown(vect') = Without(Shown(vect), a + 1, b)
      /\ Alone(vect')
      /\ \A k \in 0 .. vect'.length - 1 : \E m \in (0 .. vect.length - 1) \ (a .. b - 1) :
           vect'.items[k] = vect.items[m]
  BY <1>1, ClosedGap DEF VectInv
<1>3. Unharmed(vect', dels')
  BY <1>2 DEF VectInv, Unharmed
<1>4. VectInv'
  BY <1>2, <1>3 DEF VectInv, Alone, Unharmed, Vector
<1>5. V!Abstract!TakeOut(a + 1, b)
  <2>1. (a + 1) - 1 = a
    BY DEF Closes
  <2>2. Shown(vect)' = Shown(vect')
    BY DEF Shown
  <2> QED
    BY <1>2, <2>2 DEF V!Abstract!TakeOut, Without, Shown
<1>6. a + 1 \in 1 .. Len(Shown(vect)) /\ b \in 1 .. Len(Shown(vect)) /\ a + 1 <= b
  <2>1. Len(Shown(vect)) = vect.length
    BY <1>1, ShownIsSeq
  <2>2. a + 1 \in 1 .. vect.length /\ b \in 1 .. vect.length /\ a + 1 <= b
    BY <1>1 DEF Closes, Vector
  <2> QED
    BY <2>1, <2>2
<1> QED
  BY <1>4, <1>5, <1>6 DEF V!Abstract!Next, Shown

\* itemdel is called on what is at some of the positions, on no item twice.
LEMMA DestroyedOnce ==
  ASSUME VectInv, NEW where \in SUBSET (0 .. vect.length - 1), V!Destroy(where)
  PROVE  dels' = [x \in VectItem |-> dels[x] + IF \E k \in where : vect.items[k] = x THEN 1 ELSE 0]
<1>1. dels' = [x \in VectItem |-> dels[x] + V!Cardinality({k \in where : vect.items[k] = x})]
  BY DEF V!Destroy
<1>2. ASSUME NEW x \in VectItem
      PROVE  V!Cardinality({k \in where : vect.items[k] = x})
               = IF \E k \in where : vect.items[k] = x THEN 1 ELSE 0
  <2> DEFINE at == {k \in where : vect.items[k] = x}
  <2>1. CASE \E k \in where : vect.items[k] = x
    <3>1. PICK k \in where : vect.items[k] = x
      BY <2>1
    <3>2. at = {k}
      BY <3>1 DEF VectInv, Alone
    <3>3. Cardinality(at) = 1
      BY <3>2, FS_Singleton, Zenon
    <3> QED
      BY <2>1, <3>3, SameCardinality
  <2>2. CASE ~(\E k \in where : vect.items[k] = x)
    <3>1. at = {}
      BY <2>2
    <3>2. Cardinality(at) = 0
      BY <3>1, FS_EmptySet, Zenon
    <3> QED
      BY <2>2, <3>2, SameCardinality
  <2> QED
    BY <2>1, <2>2
<1> QED
  BY <1>1, <1>2

\* memmove over the positions a to b - 1.
LEMMA MovedOver ==
  ASSUME NEW v, NEW cap, Vector(v, cap), NEW a \in 0 .. v.length - 1, NEW b \in a + 1 .. v.length,
         NEW w, w = [length |-> v.length - (b - a), items |-> V!Memmove(v.items, a, b, v.length - b)]
  PROVE  Vector(w, cap) /\ Closes(v, w, a, b)
<1> DEFINE m == V!Memmove(v.items, a, b, v.length - b)
           n == v.length - b
<1>1. /\ cap \in Nat /\ v.length \in 0 .. cap /\ a \in Nat /\ b \in Nat /\ n \in Nat
      /\ a < b /\ b <= v.length /\ b + n <= cap
  BY DEF Vector
<1> HIDE DEF n
<1>2. m = V!Memmove(v.items, a, b, n)
  BY DEF n
<1> HIDE DEF m
<1>3. /\ m \in [0 .. cap - 1 -> Stored]
      /\ \A k \in 0 .. cap - 1 : m[k] = IF k \in a .. a + n - 1 THEN v.items[k - a + b] ELSE v.items[k]
  <2>1. v.items \in [0 .. cap - 1 -> Stored]
    BY DEF Vector
  <2>2. m = [k \in 0 .. cap - 1 |-> IF k \in a .. a + n - 1 THEN v.items[k - a + b] ELSE v.items[k]]
    BY <1>1, <1>2, <2>1 DEF V!Memmove
  <2>3. ASSUME NEW k \in 0 .. cap - 1, k \in a .. a + n - 1
        PROVE  k - a + b \in 0 .. cap - 1
    BY <1>1, <2>3
  <2> QED
    BY <1>1, <2>1, <2>2, <2>3
<1>4. w.length = v.length - (b - a) /\ w.items = m /\ w = [length |-> v.length - (b - a), items |-> m]
  BY DEF m
<1>5. v.length - (b - a) \in 0 .. cap
  BY <1>1
<1>6. Vector(w, cap)
  BY <1>1, <1>3, <1>4, <1>5 DEF Vector
<1>7. ASSUME NEW k \in 0 .. w.length - 1
      PROVE  w.items[k] = v.items[IF k < a THEN k ELSE k + (b - a)]
  <2>1. k \in 0 .. cap - 1 /\ (k \in a .. a + n - 1 <=> ~(k < a)) /\ k - a + b = k + (b - a)
    BY <1>1, <1>4 DEF n
  <2>2. m[k] = IF k \in a .. a + n - 1 THEN v.items[k - a + b] ELSE v.items[k]
    BY <1>3, <2>1
  <2> QED
    BY <1>4, <2>1, <2>2
<1> QED
  BY <1>1, <1>4, <1>6, <1>7 DEF Closes

LEMMA DelStep ==
  ASSUME VectInv, NEW i \in V!Positions, V!Del(i)
  PROVE  VectInv' /\ V!Abstract!Next
<1>1. PICK cap \in Nat : Vector(vect, cap)
  BY DEF VectInv
<1> DEFINE next == i + 1
<1>2. /\ vect.length \in 1 .. cap /\ i \in 0 .. vect.length - 1 /\ i \in Nat
      /\ next \in i + 1 .. vect.length
      /\ vect.length - i - 1 = vect.length - next /\ vect.length - 1 = vect.length - (next - i)
  BY <1>1 DEF Vector, V!Positions
<1>3. vect' = [length |-> vect.length - 1,
               items |-> V!Memmove(vect.items, i, next, vect.length - i - 1)]
  BY DEF V!Del
<1> HIDE DEF next
<1>4. vect' = [length |-> vect.length - (next - i),
               items |-> V!Memmove(vect.items, i, next, vect.length - next)]
  BY <1>2, <1>3, Zenon
<1>5. Vector(vect', cap) /\ Closes(vect, vect', i, next)
  BY <1>1, <1>2, <1>4, MovedOver
<1>6. Alone(vect)
  BY DEF VectInv
<1>7. /\ Shown(vect') = Without(Shown(vect), i + 1, next)
      /\ Alone(vect')
      /\ \A k \in 0 .. vect'.length - 1 : \E l \in (0 .. vect.length - 1) \ (i .. next - 1) :
           vect'.items[k] = vect.items[l]
  BY <1>1, <1>5, <1>6, ClosedGap
<1> USE DEF next
<1>8. dels' = [x \in VectItem |-> dels[x] + IF \E k \in {i} : vect.items[k] = x THEN 1 ELSE 0]
  BY <1>2, DestroyedOnce DEF V!Del
<1>9. ASSUME NEW k \in 0 .. vect'.length - 1, vect'.items[k] \in VectItem
      PROVE  dels'[vect'.items[k]] = 0
  <2>1. PICK l \in 0 .. vect.length - 1 : l # i /\ vect'.items[k] = vect.items[l]
    BY <1>2, <1>7
  <2>2. dels[vect.items[l]] = 0 /\ vect.items[l] # vect.items[i]
    BY <1>2, <1>9, <2>1 DEF VectInv, Alone, Unharmed
  <2> QED
    BY <1>8, <1>9, <2>1, <2>2
<1>10. VectInv'
  <2>1. dels' \in [VectItem -> Nat]
    BY <1>8 DEF VectInv
  <2>2. Unharmed(vect', dels')
    BY <1>9 DEF Unharmed
  <2> QED
    BY <1>5, <1>7, <2>1, <2>2 DEF VectInv, Alone, Unharmed, Vector
<1>11. /\ Len(Shown(vect)) = vect.length /\ Shown(vect)[i + 1] = vect.items[i]
       /\ i + 1 \in 1 .. Len(Shown(vect))
  <2>1. i + 1 \in 1 .. vect.length /\ (i + 1) - 1 = i
    BY <1>2
  <2> QED
    BY <1>1, <2>1, ShownIsSeq
<1>12. dels' = [x \in VectItem |-> IF x = Shown(vect)[i + 1] THEN 1 ELSE dels[x]]
  <2>1. vect.items[i] \in VectItem => dels[vect.items[i]] = 0
    BY <1>2 DEF VectInv, Unharmed
  <2> QED
    BY <1>8, <1>11, <2>1 DEF VectInv
<1>13. V!Abstract!Delete(i + 1)
  <2>1. Shown(vect)' = V!Abstract!RemoveAt(Shown(vect), i + 1)
    BY <1>7 DEF Shown, Without, V!Abstract!RemoveAt
  <2> QED
    BY <1>12, <2>1 DEF V!Abstract!Delete, Shown
<1> QED
  BY <1>10, <1>11, <1>13 DEF V!Abstract!Next, Shown

LEMMA MinOfTwo ==
  ASSUME NEW m \in Nat, NEW n \in Nat
  PROVE  V!Min({m, n}) \in {m, n} /\ V!Min({m, n}) <= m /\ V!Min({m, n}) <= n
<1>1. \E x \in {m, n} : \A y \in {m, n} : x <= y
  OBVIOUS
<1>2. V!Min({m, n}) \in {m, n} /\ \A y \in {m, n} : V!Min({m, n}) <= y
  BY <1>1 DEF V!Min
<1> QED
  BY <1>2

LEMMA SmallMod ==
  ASSUME NEW x \in Nat, NEW w \in Nat, x < w
  PROVE  x % w = x
OBVIOUS

LEMMA DelNStep ==
  ASSUME V!VectAssumption, VectInv, vect.length <= VectMax,
         NEW start \in V!Positions, NEW n \in Count, V!DelN(start, n)
  PROVE  /\ VectInv' /\ V!Abstract!Next
         /\ vect'.length <= VectMax
<1>1. PICK cap \in Nat : Vector(vect, cap)
  BY DEF VectInv
<1> DEFINE sum == (start + n) % Word
           end == V!Min({sum, vect.length})
<1>2. /\ vect' = [length |-> vect.length + start - end,
                  items |-> V!Memmove(vect.items, start, end, vect.length - end)]
      /\ UNCHANGED dels /\ n > 0
  BY DEF V!DelN
<1>3. start \in 0 .. vect.length - 1 /\ vect.length \in Nat /\ start + n \in Nat
  BY <1>1 DEF V!Positions, Vector, V!VectAssumption
<1>4. sum = start + n
  <2>1. start + n < Word /\ Word \in Nat
    BY <1>3 DEF V!VectAssumption
  <2> QED
    BY <1>3, <2>1, SmallMod
<1> HIDE DEF sum
<1>5. end \in start + 1 .. vect.length
  <2>1. sum \in Nat /\ start + 1 <= sum
    BY <1>2, <1>3, <1>4 DEF V!VectAssumption
  <2> QED
    BY <1>3, <2>1, MinOfTwo
<1> HIDE DEF end
<1>6. vect.length + start - end = vect.length - (end - start)
  BY <1>3, <1>5
<1>7. vect' = [length |-> vect.length - (end - start),
               items |-> V!Memmove(vect.items, start, end, vect.length - end)]
  BY <1>2, <1>6, Zenon
<1>8. Vector(vect', cap) /\ Closes(vect, vect', start, end)
  BY <1>1, <1>3, <1>5, <1>7, MovedOver
<1>9. vect'.length <= VectMax
  BY <1>3, <1>5, <1>7 DEF V!VectAssumption
<1> QED
  BY <1>2, <1>8, <1>9, GapTakenOut

\* vect_del_n with a number that wraps around: vect.h:211 does not notice, and
\* the vector becomes longer by as much as the sum is short of its start.
THEOREM WrappedDeletionGrows ==
  ASSUME NEW start \in Nat, NEW n \in Nat, Word \in Nat,
         vect.length \in Nat, start < vect.length, vect.length < Word,
         n < Word, Word <= start + n, V!DelN(start, n)
  PROVE  vect'.length = vect.length + (Word - n) /\ vect'.length > vect.length
<1>1. (start + n) % Word = start + n - Word
  <2>1. start + n - Word \in 0 .. Word - 1
    OBVIOUS
  <2> QED
    BY <2>1
<1> DEFINE sum == (start + n) % Word
<1>2. sum \in Nat /\ sum < start /\ sum = start + n - Word
  BY <1>1
<1> HIDE DEF sum
<1>3. V!Min({sum, vect.length}) = sum
  BY <1>2, MinOfTwo
<1>4. vect'.length = vect.length + start - sum
  BY <1>3 DEF V!DelN, sum
<1> QED
  BY <1>2, <1>4

LEMMA PopNStep ==
  ASSUME VectInv, NEW n \in 1 .. VectMax, V!PopN(n)
  PROVE  VectInv' /\ V!Abstract!Next
<1>1. PICK cap \in Nat : Vector(vect, cap)
  BY DEF VectInv
<1>2. /\ vect.length \in 1 .. cap
      /\ vect \in [length : 0 .. cap, items : [0 .. cap - 1 -> Stored]]
  BY <1>1 DEF Vector, V!PopN
<1> DEFINE left == IF vect.length > n THEN vect.length - n ELSE 0
<1>3. vect' = [vect EXCEPT !.length = left] /\ UNCHANGED dels
  BY DEF V!PopN
<1>4. left \in 0 .. vect.length - 1
  BY <1>2
<1> HIDE DEF left
<1>5. Vector(vect', cap) /\ vect'.length = left /\ vect'.items = vect.items
  BY <1>1, <1>2, <1>3, <1>4 DEF Vector
<1>6. Closes(vect, vect', left, vect.length)
  BY <1>2, <1>4, <1>5 DEF Closes
<1> QED
  BY <1>3, <1>5, <1>6, GapTakenOut

\* Growth of the memory changes nothing that is shown.
LEMMA SameItems ==
  ASSUME VectInv, NEW c \in Nat, Vector(vect', c), vect'.length = vect.length, UNCHANGED dels,
         \A i \in 0 .. vect.length - 1 : vect'.items[i] = vect.items[i]
  PROVE  VectInv' /\ UNCHANGED V!Abstract!vars
<1>1. PICK cap \in Nat : Vector(vect, cap)
  BY DEF VectInv
<1>2. /\ Shown(vect) \in Seq(Stored) /\ Len(Shown(vect)) = vect.length
      /\ \A j \in 1 .. vect.length : Shown(vect)[j] = vect.items[j - 1]
  BY <1>1, ShownIsSeq
<1>3. \A j \in 1 .. vect.length : Shown(vect)[j] = vect'.items[j - 1]
  <2>1. TAKE j \in 1 .. vect.length
  <2>2. j - 1 \in 0 .. vect.length - 1
    BY <1>1 DEF Vector
  <2>3. vect'.items[j - 1] = vect.items[j - 1]
    BY <2>2
  <2> QED
    BY <1>2, <2>3
<1>4. Shown(vect') = Shown(vect)
  BY <1>2, <1>3, ShownAs
<1>5. Alone(vect') /\ Unharmed(vect', dels')
  BY <1>1 DEF VectInv, Alone, Unharmed
<1>6. VectInv'
  BY <1>5 DEF VectInv, Alone, Unharmed, Vector
<1> QED
  BY <1>4, <1>6 DEF V!Abstract!vars, Shown

LEMMA ReserveStep ==
  ASSUME VectInv, NEW n \in 0 .. VectMax, V!VectAssumption, V!Reserve(n)
  PROVE  VectInv' /\ UNCHANGED V!Abstract!vars
<1>1. PICK cap \in Nat : Vector(vect, cap)
  BY DEF VectInv
<1>2. vect' = V!Reserved(vect, n) /\ UNCHANGED dels
  BY DEF V!Reserve
<1>3. n \in Nat
  BY DEF V!VectAssumption
<1> QED
  BY <1>1, <1>2, <1>3, ReservedKeeps, SameItems

LEMMA InsStep ==
  ASSUME VectInv, NEW i \in 0 .. vect.length, NEW x \in VectItem, V!Ins(i, x)
  PROVE  VectInv' /\ V!Abstract!Next
<1>1. PICK cap \in Nat : Vector(vect, cap)
  BY DEF VectInv
<1> DEFINE q == vect.length
           r == V!Reserved(vect, q + 1)
           m == V!Memmove(r.items, i + 1, i, q - i)
           e == [m EXCEPT ![i] = x]
<1>2. q \in Nat /\ i \in Nat /\ i <= q
  BY <1>1 DEF Vector
<1>3. PICK c \in Nat : /\ Vector(r, c) /\ q + 1 <= c
                       /\ \A k \in 0 .. q - 1 : r.items[k] = vect.items[k]
  <2>1. q + 1 \in Nat
    BY <1>2
  <2> QED
    BY <1>1, <2>1, ReservedKeeps
<1>4. vect' = [length |-> q + 1, items |-> e] /\ V!PutIn({x}) /\ V!Outside(x)
  BY DEF V!Ins
<1> HIDE DEF r
<1>5. r.items \in [0 .. c - 1 -> Stored]
  BY <1>3 DEF Vector
<1>6. m = [k \in 0 .. c - 1 |-> IF k \in i + 1 .. i + 1 + (q - i) - 1
                                THEN r.items[k - (i + 1) + i] ELSE r.items[k]]
  BY <1>5 DEF V!Memmove
<1>7. \A k \in 0 .. c - 1 : k \in i + 1 .. q => k - (i + 1) + i = k - 1 /\ k - 1 \in 0 .. c - 1
  BY <1>2, <1>3
<1>8. /\ m \in [0 .. c - 1 -> Stored]
      /\ \A k \in 0 .. c - 1 : m[k] = IF k \in i + 1 .. q THEN r.items[k - 1] ELSE r.items[k]
  <2>1. i + 1 + (q - i) - 1 = q
    BY <1>2
  <2> QED
    BY <1>5, <1>6, <1>7, <2>1
<1> HIDE DEF m
<1>9. /\ e \in [0 .. c - 1 -> Stored]
      /\ \A k \in 0 .. c - 1 : e[k] = IF k = i THEN x ELSE m[k]
  BY <1>8 DEF Stored
<1> HIDE DEF e
<1>10. Vector(vect', c) /\ vect'.length = q + 1
  BY <1>2, <1>3, <1>4, <1>9 DEF Vector
<1>11. ASSUME NEW k \in 0 .. q
       PROVE  vect'.items[k] = IF k < i THEN vect.items[k] ELSE IF k = i THEN x ELSE vect.items[k - 1]
  <2>1. k \in 0 .. c - 1 /\ vect'.items[k] = e[k]
    BY <1>2, <1>3, <1>4
  <2>2. CASE k < i
    <3>1. k \in 0 .. q - 1 /\ k # i /\ k \notin i + 1 .. q
      BY <1>2, <2>2
    <3> QED
      BY <1>3, <1>8, <1>9, <2>1, <2>2, <3>1
  <2>3. CASE k = i
    BY <1>2, <1>9, <2>1, <2>3
  <2>4. CASE k > i
    <3>1. k - 1 \in 0 .. q - 1 /\ k # i /\ ~(k < i) /\ k \in i + 1 .. q
      BY <1>2, <2>4
    <3> QED
      BY <1>3, <1>8, <1>9, <2>1, <3>1
  <2> QED
    BY <1>2, <2>2, <2>3, <2>4
<1>12. \A k \in 0 .. q - 1 : vect.items[k] # x
  BY <1>4 DEF V!Outside, V!Positions
<1>13. dels' = [y \in VectItem |-> IF y = x THEN 0 ELSE dels[y]]
  BY <1>4 DEF V!PutIn
<1>14. VectInv'
  <2>1. Alone(vect')
    <3> SUFFICES ASSUME NEW k \in 0 .. q, NEW l \in 0 .. q,
                        vect'.items[k] \in VectItem, vect'.items[k] = vect'.items[l]
                 PROVE  k = l
      BY <1>2, <1>10 DEF Alone
    <3> DEFINE from(j) == IF j < i THEN j ELSE j - 1
    <3>1. ASSUME NEW j \in 0 .. q, j # i
          PROVE  from(j) \in 0 .. q - 1 /\ vect'.items[j] = vect.items[from(j)]
      BY <1>2, <1>11, <3>1
    <3>2. CASE k = i
      BY <1>11, <1>12, <3>1, <3>2
    <3>3. CASE l = i
      BY <1>11, <1>12, <3>1, <3>3
    <3>4. CASE k # i /\ l # i
      <4>1. from(k) = from(l)
        BY <3>1, <3>4 DEF VectInv, Alone
      <4> QED
        BY <1>2, <3>4, <4>1
    <3> QED
      BY <3>2, <3>3, <3>4
  <2>2. Unharmed(vect', dels')
    <3> SUFFICES ASSUME NEW k \in 0 .. q, vect'.items[k] \in VectItem
                 PROVE  dels'[vect'.items[k]] = 0
      BY <1>2, <1>10 DEF Unharmed
    <3>1. CASE k = i
      BY <1>11, <1>13, <3>1
    <3>2. CASE k # i
      <4>1. \E j \in 0 .. q - 1 : vect'.items[k] = vect.items[j]
        BY <1>2, <1>11, <3>2
      <4> QED
        BY <1>12, <1>13, <4>1 DEF VectInv, Unharmed
    <3> QED
      BY <3>1, <3>2
  <2>3. dels' \in [VectItem -> Nat]
    BY <1>13 DEF VectInv
  <2> QED
    BY <1>10, <2>1, <2>2, <2>3 DEF VectInv, Alone, Unharmed, Vector
<1> DEFINE s == Shown(vect)
           t == V!Abstract!InsertAt(s, i + 1, x)
<1>15. /\ s \in Seq(Stored) /\ Len(s) = q
       /\ \A j \in 1 .. q : s[j] = vect.items[j - 1]
       /\ x \notin V!Abstract!ToSet(s)
  BY <1>1, <1>12, ShownIsSeq
<1> HIDE DEF s
<1>16. i + 1 \in 1 .. Len(s) + 1 /\ x \in Stored
  BY <1>2, <1>15 DEF Stored
<1> DEFINE here == i + 1
<1>17. /\ t \in Seq(Stored) /\ Len(t) = q + 1
       /\ \A k \in 1 .. Len(t) : t[k] = IF k < i + 1 THEN s[k] ELSE IF k = i + 1 THEN x ELSE s[k - 1]
  <2>1. s \in Seq(Stored) /\ here \in 1 .. Len(s) + 1 /\ t = V!Abstract!InsertAt(s, here, x)
    BY <1>15, <1>16
  <2> HIDE DEF t, here
  <2>2. /\ t \in Seq(Stored) /\ Len(t) = Len(s) + 1
        /\ \A k \in 1 .. Len(t) : t[k] = IF k < here THEN s[k] ELSE IF k = here THEN x ELSE s[k - 1]
    BY <1>16, <2>1, InsertedAt DEF Stored
  <2> QED
    BY <1>15, <2>2, Zenon DEF here
<1> HIDE DEF t, here
<1>18. ASSUME NEW j \in 1 .. q + 1 PROVE t[j] = vect'.items[j - 1]
  <2>1. t[j] = IF j < i + 1 THEN s[j] ELSE IF j = i + 1 THEN x ELSE s[j - 1]
    BY <1>17
  <2>2. j - 1 \in 0 .. q
    BY <1>2
  <2>3. vect'.items[j - 1] = IF j - 1 < i THEN vect.items[j - 1]
                             ELSE IF j - 1 = i THEN x ELSE vect.items[j - 1 - 1]
    BY <1>11, <2>2
  <2>4. CASE j < i + 1
    <3>1. j \in 1 .. q /\ j - 1 < i
      BY <1>2, <2>4
    <3> QED
      BY <1>15, <2>1, <2>3, <2>4, <3>1
  <2>5. CASE j = i + 1
    BY <1>2, <2>1, <2>3, <2>5
  <2>6. CASE j > i + 1
    <3>1. j - 1 \in 1 .. q /\ ~(j - 1 < i) /\ j - 1 # i /\ ~(j < i + 1) /\ j # i + 1
      BY <1>2, <2>6
    <3> QED
      BY <1>15, <2>1, <2>3, <3>1
  <2> QED
    BY <1>2, <2>4, <2>5, <2>6
<1>19. Shown(vect') = t
  BY <1>10, <1>17, <1>18, ShownAs
<1>20. V!Abstract!Insert(i + 1, x)
  <2>1. dels' = [dels EXCEPT ![x] = 0]
    BY <1>13 DEF VectInv
  <2>2. Shown(vect') = V!Abstract!InsertAt(Shown(vect), i + 1, x) /\ x \notin V!Abstract!ToSet(Shown(vect))
    BY <1>15, <1>19 DEF t, s
  <2> QED
    BY <2>1, <2>2 DEF V!Abstract!Insert, Shown
<1>21. i + 1 \in 1 .. Len(Shown(vect)) + 1
  BY <1>16 DEF s
<1> QED
  BY <1>14, <1>20, <1>21 DEF V!Abstract!Next, Shown

\* Items that were not in the vector, behind those that were.
LEMMA Appended ==
  ASSUME VectInv, NEW n \in 1 .. VectMax, NEW y \in [1 .. n -> Stored],
         NEW c \in Nat, Vector(vect', c), vect'.length = vect.length + n,
         \A k \in 0 .. vect.length - 1 : vect'.items[k] = vect.items[k] /\ vect.items[k] \notin {y[j] : j \in 1 .. n} \cap VectItem,
         \A j \in 1 .. n : vect'.items[vect.length + j - 1] = y[j],
         \A j, k \in 1 .. n : y[j] \in VectItem /\ y[j] = y[k] => j = k,
         V!PutIn({y[j] : j \in 1 .. n})
  PROVE  VectInv' /\ V!Abstract!Next
<1> DEFINE q == vect.length
           new == {y[j] : j \in 1 .. n}
<1>1. PICK cap \in Nat : Vector(vect, cap)
  BY DEF VectInv
<1>2. q \in Nat /\ n \in Nat /\ n >= 1
  BY <1>1 DEF Vector
<1>3. ASSUME NEW k \in 0 .. q + n - 1, ~(k < q)
      PROVE  k - q + 1 \in 1 .. n /\ vect'.items[k] = y[k - q + 1]
  <2>1. k - q + 1 \in 1 .. n /\ q + (k - q + 1) - 1 = k
    BY <1>2, <1>3
  <2> QED
    BY <2>1
<1>4. VectInv'
  <2>1. Alone(vect')
    <3> SUFFICES ASSUME NEW k \in 0 .. q + n - 1, NEW l \in 0 .. q + n - 1,
                        vect'.items[k] \in VectItem, vect'.items[k] = vect'.items[l]
                 PROVE  k = l
      BY <1>2 DEF Alone
    <3>1. CASE k < q /\ l < q
      <4>1. k \in 0 .. q - 1 /\ l \in 0 .. q - 1
        BY <1>2, <3>1
      <4> QED
        BY <4>1 DEF VectInv, Alone
    <3>2. CASE k < q /\ ~(l < q)
      <4>1. k \in 0 .. q - 1
        BY <1>2, <3>2
      <4> QED
        BY <1>3, <3>2, <4>1
    <3>3. CASE ~(k < q) /\ l < q
      <4>1. l \in 0 .. q - 1
        BY <1>2, <3>3
      <4> QED
        BY <1>3, <3>3, <4>1
    <3>4. CASE ~(k < q) /\ ~(l < q)
      <4>1. k - q + 1 = l - q + 1
        BY <1>3, <3>4
      <4> QED
        BY <1>2, <4>1
    <3> QED
      BY <3>1, <3>2, <3>3, <3>4
  <2>2. Unharmed(vect', dels')
    <3> SUFFICES ASSUME NEW k \in 0 .. q + n - 1, vect'.items[k] \in VectItem
                 PROVE  dels'[vect'.items[k]] = 0
      BY <1>2 DEF Unharmed
    <3>0. dels' = [x \in VectItem |-> IF x \in new THEN 0 ELSE dels[x]]
      BY DEF V!PutIn
    <3>1. CASE k < q
      <4>1. k \in 0 .. q - 1
        BY <1>2, <3>1
      <4>2. dels[vect.items[k]] = 0 /\ vect.items[k] \in VectItem
        BY <4>1 DEF VectInv, Unharmed
      <4> QED
        BY <3>0, <4>1, <4>2
    <3>2. CASE ~(k < q)
      BY <1>3, <3>0, <3>2
    <3> QED
      BY <3>1, <3>2
  <2>3. dels' \in [VectItem -> Nat]
    BY DEF VectInv, V!PutIn
  <2> QED
    BY <2>1, <2>2, <2>3 DEF VectInv, Alone, Unharmed, Vector
<1> DEFINE s == Shown(vect)
           t == s \o y
<1>5. /\ s \in Seq(Stored) /\ Len(s) = q
      /\ \A j \in 1 .. q : s[j] = vect.items[j - 1]
      /\ \A x : x \in V!Abstract!ToSet(s) <=> \E i \in 0 .. q - 1 : vect.items[i] = x
  BY <1>1, ShownIsSeq
<1> HIDE DEF s
<1>6. y \in Seq(Stored) /\ Len(y) = n /\ V!Abstract!ToSet(y) = new
  <2>1. y \in Seq(Stored) /\ Len(y) = n
    BY <1>2
  <2>2. DOMAIN y = 1 .. n
    OBVIOUS
  <2>3. V!Abstract!ToSet(y) = {y[j] : j \in DOMAIN y}
    BY DEF V!Abstract!ToSet
  <2> QED
    BY <2>1, <2>2, <2>3, Zenon
<1>7. /\ t \in Seq(Stored) /\ Len(t) = Len(s) + Len(y)
      /\ \A k \in 1 .. Len(s) + Len(y) : t[k] = IF k <= Len(s) THEN s[k] ELSE y[k - Len(s)]
  <2>1. t = s \o y
    OBVIOUS
  <2> HIDE DEF t
  <2>2. Joins(Stored, s, y, t)
    BY <1>5, <1>6, <2>1, Concatenated
  <2> QED
    BY <2>2 DEF Joins
<1> HIDE DEF t
<1>8. ASSUME NEW k \in 1 .. q + n PROVE t[k] = vect'.items[k - 1]
  <2>1. t[k] = IF k <= q THEN s[k] ELSE y[k - q]
    BY <1>5, <1>6, <1>7
  <2>2. CASE k <= q
    <3>1. k - 1 \in 0 .. q - 1 /\ k \in 1 .. q
      BY <1>2, <2>2
    <3> QED
      BY <1>5, <2>1, <2>2, <3>1
  <2>3. CASE ~(k <= q)
    <3>1. k - 1 \in 0 .. q + n - 1 /\ ~(k - 1 < q) /\ k - 1 - q + 1 = k - q
      BY <1>2, <2>3
    <3> QED
      BY <1>3, <2>1, <2>3, <3>1
  <2> QED
    BY <2>2, <2>3
<1>9. Shown(vect') = t
  BY <1>5, <1>6, <1>7, <1>8, ShownAs
<1>10. V!Abstract!AppendAll(y)
  <2>1. ASSUME NEW x, x \in V!Abstract!ToSet(y), x \in V!Abstract!ToSet(s), x \in VectItem PROVE FALSE
    <3>1. x \in new
      BY <1>6, <2>1
    <3>2. PICK i \in 0 .. q - 1 : vect.items[i] = x
      BY <1>5, <2>1
    <3> QED
      BY <2>1, <3>1, <3>2
  <2>2. dels' = [x \in VectItem |-> IF x \in V!Abstract!ToSet(y) THEN 0 ELSE dels[x]]
    BY <1>6, Zenon DEF V!PutIn
  <2> QED
    BY <1>9, <2>1, <2>2 DEF V!Abstract!AppendAll, Shown, s, t
<1> QED
  BY <1>4, <1>10 DEF V!Abstract!Next, Stored

LEMMA CreateStep ==
  ASSUME VectInv, V!VectAssumption, NEW n \in 0 .. VectMax, V!Create(n)
  PROVE  VectInv' /\ [V!Abstract!Next]_(V!Abstract!vars)
<1> DEFINE cap == IF n = 0 THEN VectDefault ELSE 2 * n
           b == [i \in 0 .. cap - 1 |-> Zero]
<1>1. /\ vect = V!NoVect /\ vect' = [length |-> n, items |-> b] /\ UNCHANGED dels
  BY DEF V!Create
<1>2. cap \in Nat /\ n \in Nat /\ n <= cap /\ vect.length = 0 /\ Zero \notin VectItem
  BY <1>1 DEF V!VectAssumption, V!NoVect
<1> HIDE DEF cap
<1>3. b \in [0 .. cap - 1 -> Stored] /\ \A i \in 0 .. cap - 1 : b[i] = Zero
  BY DEF Stored
<1> HIDE DEF b
<1>4. Vector(vect', cap) /\ vect'.length = n /\ vect'.items = b
  BY <1>1, <1>2, <1>3 DEF Vector
<1>5. CASE n = 0
  BY <1>1, <1>2, <1>4, <1>5, SameItems
<1>6. CASE n # 0
  <2> DEFINE y == [j \in 1 .. n |-> Zero]
  <2>1. y \in [1 .. n -> Stored] /\ (\A j \in 1 .. n : y[j] = Zero) /\ n \in 1 .. VectMax
    BY <1>2, <1>6 DEF Stored
  <2> HIDE DEF y
  <2>2. \A j \in 1 .. n : vect'.items[vect.length + j - 1] = y[j]
    BY <1>2, <1>3, <1>4, <2>1
  <2>3. V!PutIn({y[j] : j \in 1 .. n})
    BY <1>1, <1>2, <2>1 DEF VectInv, V!PutIn
  <2>4. vect'.length = vect.length + n /\ \A j \in 1 .. n : y[j] \notin VectItem
    BY <1>2, <1>4, <2>1
  <2>5. \A k \in 0 .. vect.length - 1 : FALSE
    BY <1>2
  <2> QED
    BY <1>2, <1>4, <2>1, <2>2, <2>3, <2>4, <2>5, Appended
<1> QED
  BY <1>5, <1>6

LEMMA ResizeStep ==
  ASSUME VectInv, V!VectAssumption, NEW n \in 0 .. VectMax,
         NEW xs \in [vect.length .. n - 1 -> VectItem], V!Resize(n, xs)
  PROVE  VectInv' /\ [V!Abstract!Next]_(V!Abstract!vars)
<1> DEFINE q == vect.length
           r == V!Reserved(vect, n)
           e == [i \in DOMAIN r.items |-> IF i \in q .. n - 1 THEN xs[i] ELSE r.items[i]]
<1>1. PICK cap \in Nat : Vector(vect, cap)
  BY DEF VectInv
<1>2. q \in Nat /\ n \in Nat
  BY <1>1 DEF Vector, V!VectAssumption
<1>3. PICK c \in Nat : /\ Vector(r, c) /\ n <= c /\ r.length = q
                       /\ \A k \in 0 .. q - 1 : r.items[k] = vect.items[k]
  BY <1>1, <1>2, ReservedKeeps
<1>4. /\ vect' = [length |-> n, items |-> e] /\ V!PutIn({xs[i] : i \in DOMAIN xs})
      /\ \A i \in DOMAIN xs : V!Outside(xs[i])
      /\ \A i, j \in DOMAIN xs : i # j => xs[i] # xs[j]
  BY DEF V!Resize
<1> HIDE DEF r
<1>5. r.items \in [0 .. c - 1 -> Stored] /\ q <= c
  BY <1>3 DEF Vector
<1>6. /\ e \in [0 .. c - 1 -> Stored]
      /\ \A i \in 0 .. c - 1 : e[i] = IF i \in q .. n - 1 THEN xs[i] ELSE r.items[i]
  BY <1>5 DEF Stored
<1> HIDE DEF e
<1>7. Vector(vect', c) /\ vect'.length = n /\ vect'.items = e
  BY <1>2, <1>3, <1>4, <1>6 DEF Vector
<1>8. \A k \in 0 .. q - 1 : vect'.items[k] = vect.items[k]
  <2>1. TAKE k \in 0 .. q - 1
  <2>2. k \in 0 .. c - 1 /\ k \notin q .. n - 1
    BY <1>2, <1>5
  <2>3. e[k] = r.items[k] /\ r.items[k] = vect.items[k]
    BY <1>3, <1>6, <2>2
  <2> QED
    BY <1>7, <2>3
<1>9. dels' = [x \in VectItem |-> IF x \in {xs[i] : i \in q .. n - 1} THEN 0 ELSE dels[x]]
  BY <1>4 DEF V!PutIn
<1>10. n <= q => UNCHANGED dels
  <2>1. n <= q => q .. n - 1 = {}
    BY <1>2
  <2> QED
    BY <1>9, <2>1 DEF VectInv
<1>11. CASE n < q
  <2>1. Closes(vect, vect', n, q)
    BY <1>2, <1>7, <1>8, <1>11 DEF Closes
  <2>2. UNCHANGED dels
    BY <1>2, <1>10, <1>11
  <2> QED
    BY <1>7, <2>1, <2>2, GapTakenOut
<1>12. CASE n = q
  <2>1. UNCHANGED dels
    BY <1>2, <1>10, <1>12
  <2> QED
    BY <1>7, <1>8, <1>12, <2>1, SameItems
<1>13. CASE n > q
  <2> DEFINE d == n - q
             y == [j \in 1 .. d |-> xs[q + j - 1]]
  <2>1. d \in 1 .. VectMax /\ d \in Nat /\ q + d = n
    BY <1>2, <1>13 DEF V!VectAssumption
  <2> HIDE DEF d
  <2>2. \A j \in 1 .. d : q + j - 1 \in q .. n - 1
    BY <1>2, <2>1
  <2>3. y \in [1 .. d -> Stored] /\ \A j \in 1 .. d : y[j] = xs[q + j - 1]
    BY <2>2 DEF Stored
  <2> HIDE DEF y
  <2>4. {y[j] : j \in 1 .. d} = {xs[i] : i \in q .. n - 1}
    <3>1. \A i \in q .. n - 1 : i - q + 1 \in 1 .. d /\ q + (i - q + 1) - 1 = i
      BY <1>2, <2>1
    <3> QED
      BY <2>2, <2>3, <3>1
  <2>5. \A j \in 1 .. d : vect'.items[q + j - 1] = y[j]
    BY <1>2, <1>3, <1>6, <1>7, <2>2, <2>3
  <2>6. V!PutIn({y[j] : j \in 1 .. d})
    BY <1>9, <2>4, Zenon DEF V!PutIn
  <2>7. \A k \in 0 .. q - 1 : vect.items[k] \notin {y[j] : j \in 1 .. d} \cap VectItem
    BY <1>4, <2>4 DEF V!Outside, V!Positions
  <2>8. \A j, k \in 1 .. d : y[j] \in VectItem /\ y[j] = y[k] => j = k
    <3>1. ASSUME NEW j \in 1 .. d, NEW k \in 1 .. d, y[j] = y[k] PROVE j = k
      <4>1. q + j - 1 = q + k - 1
        BY <1>4, <2>2, <2>3, <3>1
      <4> QED
        BY <1>2, <2>1, <4>1
    <3> QED
      BY <3>1
  <2>9. vect'.length = q + d
    BY <1>7, <2>1
  <2>10. \A k \in 0 .. q - 1 : /\ vect'.items[k] = vect.items[k]
                                /\ vect.items[k] \notin {y[j] : j \in 1 .. d} \cap VectItem
    BY <1>8, <2>7
  <2>11. VectInv' /\ V!Abstract!Next
    BY <1>7, <2>1, <2>3, <2>5, <2>6, <2>8, <2>9, <2>10, Appended, Zenon
  <2> QED
    BY <2>11
<1> QED
  BY <1>2, <1>11, <1>12, <1>13

\* Clear and destroy call itemdel once on everything that is shown.
LEMMA EmptyStep ==
  ASSUME VectInv, V!Clear \/ V!DestroyVect
  PROVE  VectInv' /\ V!Abstract!Next
<1>1. PICK cap \in Nat : Vector(vect, cap)
  BY DEF VectInv
<1>2. V!Destroy(0 .. vect.length - 1) /\ vect'.length = 0
  BY <1>1 DEF V!Clear, V!DestroyVect, V!Positions, V!NoVect, Vector
<1>3. \E c \in Nat : Vector(vect', c)
  <2>1. CASE V!Clear
    BY <1>1, <2>1 DEF V!Clear, Vector
  <2>2. CASE V!DestroyVect
    <3>1. vect' = V!NoVect
      BY <2>2 DEF V!DestroyVect
    <3>2. Vector(V!NoVect, 0)
      BY DEF V!NoVect, Vector
    <3> QED
      BY <3>1, <3>2
  <2> QED
    BY <2>1, <2>2
<1>4. PICK c \in Nat : Vector(vect', c)
  BY <1>3
<1>5. dels' = [x \in VectItem |->
                 dels[x] + IF \E k \in 0 .. vect.length - 1 : vect.items[k] = x THEN 1 ELSE 0]
  BY <1>2, DestroyedOnce
<1>6. VectInv'
  <2>1. dels' \in [VectItem -> Nat]
    BY <1>5 DEF VectInv
  <2>2. \A k \in 0 .. vect'.length - 1 : FALSE
    BY <1>2
  <2> QED
    BY <1>4, <2>1, <2>2 DEF VectInv, Alone, Unharmed, Vector
<1>7. Shown(vect') = <<>>
  BY <1>2, <1>4, ShownIsSeq, EmptySeq
<1>8. dels' = [x \in VectItem |-> IF x \in V!Abstract!ToSet(Shown(vect)) THEN 1 ELSE dels[x]]
  <2>1. \A x : x \in V!Abstract!ToSet(Shown(vect)) <=> \E i \in 0 .. vect.length - 1 : vect.items[i] = x
    BY <1>1, ShownIsSeq
  <2>2. ASSUME NEW x \in VectItem
        PROVE  dels[x] + (IF \E k \in 0 .. vect.length - 1 : vect.items[k] = x THEN 1 ELSE 0)
                 = IF x \in V!Abstract!ToSet(Shown(vect)) THEN 1 ELSE dels[x]
    <3>1. (\E k \in 0 .. vect.length - 1 : vect.items[k] = x) => dels[x] = 0
      BY DEF VectInv, Unharmed
    <3>2. dels[x] \in Nat
      BY DEF VectInv
    <3> QED
      BY <2>1, <3>1, <3>2
  <2> QED
    BY <1>5, <2>2
<1>9. V!Abstract!DeleteAll
  BY <1>7, <1>8 DEF V!Abstract!DeleteAll, Shown
<1> QED
  BY <1>6, <1>9 DEF V!Abstract!Next

LEMMA VectNext ==
  ASSUME V!VectAssumption, VectInv, vect.length <= VectMax, [V!Next]_(V!vars)
  PROVE  VectInv' /\ [V!Abstract!Next]_(V!Abstract!vars)
<1>1. ASSUME NEW n \in 0 .. VectMax, V!Create(n) \/ V!Reserve(n)
      PROVE  VectInv' /\ [V!Abstract!Next]_(V!Abstract!vars)
  BY <1>1, CreateStep, ReserveStep
<1>2. ASSUME NEW i \in 0 .. vect.length, NEW x \in VectItem, V!Ins(i, x)
      PROVE  VectInv' /\ V!Abstract!Next
  BY <1>2, InsStep
<1>3. ASSUME NEW i \in V!Positions, V!Del(i) PROVE VectInv' /\ V!Abstract!Next
  BY <1>3, DelStep
<1>4. ASSUME NEW i \in V!Positions, NEW n \in Count, V!DelN(i, n)
      PROVE  VectInv' /\ V!Abstract!Next
  BY <1>4, DelNStep
<1>5. ASSUME NEW n \in 1 .. VectMax, V!PopN(n) PROVE VectInv' /\ V!Abstract!Next
  BY <1>5, PopNStep
<1>6. ASSUME NEW n \in 0 .. VectMax, NEW xs \in [vect.length .. n - 1 -> VectItem], V!Resize(n, xs)
      PROVE  VectInv' /\ [V!Abstract!Next]_(V!Abstract!vars)
  BY <1>6, ResizeStep
<1>7. CASE V!Clear \/ V!DestroyVect
  BY <1>7, EmptyStep
<1>8. CASE UNCHANGED V!vars
  BY <1>8 DEF V!vars, VectInv, Vector, Alone, Unharmed, V!Abstract!vars
<1> QED
  BY <1>1, <1>2, <1>3, <1>4, <1>5, <1>6, <1>7, <1>8 DEF V!Next

LEMMA VectBounded ==
  ASSUME V!VectAssumption, VectInv, vect.length <= VectMax, [V!Next]_(V!vars)
  PROVE  vect'.length <= VectMax
<1>1. PICK cap \in Nat : Vector(vect, cap)
  BY DEF VectInv
<1>2. vect.length \in Nat /\ VectMax \in Nat
  BY <1>1 DEF Vector, V!VectAssumption
<1>3. ASSUME NEW n \in 0 .. VectMax, V!Create(n) \/ V!Reserve(n) PROVE vect'.length <= VectMax
  <2>1. CASE V!Create(n)
    BY <1>2, <2>1 DEF V!Create
  <2>2. CASE V!Reserve(n)
    <3>1. V!Reserved(vect, n).length = vect.length
      BY <1>1, ReservedKeeps
    <3> QED
      BY <2>2, <3>1 DEF V!Reserve
  <2> QED
    BY <1>3, <2>1, <2>2
<1>4. ASSUME NEW i \in 0 .. vect.length, NEW x \in VectItem, V!Ins(i, x)
      PROVE  vect'.length <= VectMax
  BY <1>2, <1>4 DEF V!Ins
<1>5. ASSUME NEW i \in V!Positions, V!Del(i) PROVE vect'.length <= VectMax
  BY <1>2, <1>5 DEF V!Del, V!Positions
<1>6. ASSUME NEW i \in V!Positions, NEW n \in Count, V!DelN(i, n) PROVE vect'.length <= VectMax
  BY <1>6, DelNStep
<1>7. ASSUME NEW n \in 1 .. VectMax, V!PopN(n) PROVE vect'.length <= VectMax
  <2>1. vect' = [vect EXCEPT !.length = IF vect.length > n THEN vect.length - n ELSE 0]
    BY <1>7 DEF V!PopN
  <2>2. vect'.length = IF vect.length > n THEN vect.length - n ELSE 0
    BY <1>1, <2>1 DEF Vector
  <2> QED
    BY <1>2, <2>2
<1>8. ASSUME NEW n \in 0 .. VectMax, NEW xs \in [vect.length .. n - 1 -> VectItem], V!Resize(n, xs)
      PROVE  vect'.length <= VectMax
  BY <1>2, <1>8 DEF V!Resize
<1>9. CASE V!Clear \/ V!DestroyVect
  BY <1>1, <1>2, <1>9 DEF V!Clear, V!DestroyVect, V!NoVect, Vector
<1>10. CASE UNCHANGED V!vars
  BY <1>10 DEF V!vars
<1> QED
  BY <1>3, <1>4, <1>5, <1>6, <1>7, <1>8, <1>9, <1>10 DEF V!Next

LEMMA VectInit == ASSUME V!Init PROVE VectInv /\ V!Abstract!Init
<1>1. vect = V!NoVect /\ dels = [x \in VectItem |-> 0] /\ vect.length = 0
  BY DEF V!Init, V!NoVect
<1>2. Vector(vect, 0)
  BY <1>1 DEF Vector, V!NoVect
<1>3. \A k \in 0 .. vect.length - 1 : FALSE
  BY <1>1
<1>4. VectInv
  BY <1>1, <1>2, <1>3 DEF VectInv, Alone, Unharmed
<1>5. Shown(vect) = <<>>
  BY <1>1, <1>2, ShownIsSeq, EmptySeq
<1> QED
  BY <1>1, <1>4, <1>5 DEF V!Abstract!Init, Shown

\* The vector of C/vect.h is a sequence that owns its items: the moves of
\* memory keep their order, growth loses none, and itemdel is called once for
\* each that is deleted or cleared and never for one that is given back.  It
\* is one while no number given to vect_del_n wraps around (VectAssumption);
\* WrappedDeletionGrows is what happens when one does.
THEOREM VectRefinement == ASSUME V!VectAssumption PROVE V!Spec => ImplementsOwningSeq
<1> DEFINE Bounded == vect.length <= VectMax
<1>1. VectInv /\ Bounded /\ [V!Next]_(V!vars) =>
        VectInv' /\ Bounded' /\ [V!Abstract!Next]_(V!Abstract!vars)
  BY VectNext, VectBounded
<1>2. V!Init => VectInv /\ Bounded /\ V!Abstract!Init
  BY VectInit DEF V!Init, V!NoVect, V!VectAssumption
<1> HIDE DEF Bounded
<1> QED
  BY <1>1, <1>2, PTL DEF V!Spec, ImplementsOwningSeq, V!ImplementsOwningSeq, V!Abstract!Spec

-----------------------------------------------------------------------------
\* Dict.

Node == [key : Key, item : Item]

\* A dictionary whose nodes are in the buckets of their keys.
WellFormed(d) ==
  /\ d \in [capacity : Nat, length : Nat, buckets : [0 .. d.capacity - 1 -> Node \cup {Nothing}]]
  /\ \A i \in 0 .. d.capacity - 1 :
       d.buckets[i] # Nothing => Bucket(d.buckets[i].key, d.capacity) = i

ContentsOf(d) == [k \in Key |-> IF d.capacity = 0 THEN Nothing ELSE Get(d, k)]
KeysOf(d) == {k \in Key : ContentsOf(d)[k] # Nothing}

\* The bucket of a key is one of the dictionary's.
LEMMA BucketIn ==
  ASSUME DictAssumption, NEW k \in Key, NEW cap \in Nat \ {0}
  PROVE  Bucket(k, cap) \in 0 .. cap - 1
<1>1. Hash[k] \in Nat
  BY DEF DictAssumption
<1> QED
  BY <1>1 DEF Bucket

\* A node is found in the bucket of its key, so a key has at most one.
LEMMA NodesAtHome ==
  ASSUME DictAssumption, NEW d, WellFormed(d)
  PROVE  /\ Nodes(d) \subseteq Node
         /\ \A n \in Nodes(d) : d.capacity # 0 /\ d.buckets[Bucket(n.key, d.capacity)] = n
         /\ \A m, n \in Nodes(d) : m.key = n.key => m = n
<1>1. DOMAIN d.buckets = 0 .. d.capacity - 1
  BY DEF WellFormed
<1>2. Nodes(d) \subseteq Node
  BY <1>1 DEF Nodes, WellFormed
<1>3. ASSUME NEW n \in Nodes(d)
      PROVE  d.capacity # 0 /\ d.buckets[Bucket(n.key, d.capacity)] = n
  <2>1. PICK i \in 0 .. d.capacity - 1 : d.buckets[i] = n /\ n # Nothing
    BY <1>1 DEF Nodes
  <2>2. Bucket(n.key, d.capacity) = i /\ d.capacity \in Nat
    BY <2>1 DEF WellFormed
  <2> QED
    BY <2>1, <2>2
<1> QED
  BY <1>2, <1>3

\* What get answers depends on the nodes alone.
LEMMA ContentsOfNodes ==
  ASSUME DictAssumption, NEW d, WellFormed(d), NEW k \in Key
  PROVE  /\ \A n \in Nodes(d) : n.key = k => ContentsOf(d)[k] = n.item
         /\ (\A n \in Nodes(d) : n.key # k) => ContentsOf(d)[k] = Nothing
<1>1. ASSUME NEW n \in Nodes(d), n.key = k PROVE ContentsOf(d)[k] = n.item
  <2>1. d.capacity # 0 /\ d.buckets[Bucket(k, d.capacity)] = n /\ n \in Node
    BY <1>1, NodesAtHome
  <2>2. n # Nothing
    BY DEF Nodes
  <2> QED
    BY <1>1, <2>1, <2>2 DEF ContentsOf, Get
<1>2. ASSUME \A n \in Nodes(d) : n.key # k PROVE ContentsOf(d)[k] = Nothing
  <2>1. CASE d.capacity = 0
    BY <2>1 DEF ContentsOf
  <2>2. CASE d.capacity # 0
    <3>1. Bucket(k, d.capacity) \in DOMAIN d.buckets
      BY <2>2, BucketIn DEF WellFormed
    <3>2. \/ d.buckets[Bucket(k, d.capacity)] = Nothing
          \/ d.buckets[Bucket(k, d.capacity)].key # k
      BY <1>2, <3>1 DEF Nodes
    <3> QED
      BY <2>2, <3>2 DEF ContentsOf, Get
  <2> QED
    BY <2>1, <2>2
<1> QED
  BY <1>1, <1>2

LEMMA SameNodesSameContents ==
  ASSUME DictAssumption, NEW d, NEW e, WellFormed(d), WellFormed(e), Nodes(d) = Nodes(e)
  PROVE  ContentsOf(d) = ContentsOf(e)
<1>1. ASSUME NEW k \in Key PROVE ContentsOf(d)[k] = ContentsOf(e)[k]
  <2>1. CASE \E n \in Nodes(d) : n.key = k
    BY <2>1, ContentsOfNodes
  <2>2. CASE \A n \in Nodes(d) : n.key # k
    BY <2>2, ContentsOfNodes
  <2> QED
    BY <2>1, <2>2
<1>2. ContentsOf(d) = [k \in Key |-> ContentsOf(d)[k]] /\ ContentsOf(e) = [k \in Key |-> ContentsOf(e)[k]]
  BY DEF ContentsOf
<1> QED
  BY <1>1, <1>2

\* Replacing fields of a dictionary.
LEMMA CapacityReplaced ==
  ASSUME NEW Blocks, NEW Larger, NEW d \in [capacity : Nat, length : Nat, buckets : Blocks],
         NEW cap \in Nat, NEW b \in Larger,
         NEW e, e = [d EXCEPT !.capacity = cap, !.buckets = b]
  PROVE  /\ e \in [capacity : Nat, length : Nat, buckets : Larger]
         /\ e.capacity = cap /\ e.length = d.length /\ e.buckets = b
OBVIOUS

LEMMA LengthReplaced ==
  ASSUME NEW Blocks, NEW d \in [capacity : Nat, length : Nat, buckets : Blocks],
         NEW len \in Nat, NEW b \in Blocks,
         NEW e, e = [d EXCEPT !.length = len, !.buckets = b]
  PROVE  /\ e \in [capacity : Nat, length : Nat, buckets : Blocks]
         /\ e.capacity = d.capacity /\ e.length = len /\ e.buckets = b
OBVIOUS

\* A rehash in which no two nodes meet keeps them all.
LEMMA RehashedKeeps ==
  ASSUME DictAssumption, NEW d, WellFormed(d), NEW cap \in Nat \ {0}, ~Meet(d, cap)
  PROVE  /\ WellFormed(Rehashed(d, cap))
         /\ Nodes(Rehashed(d, cap)) = Nodes(d)
         /\ Rehashed(d, cap).capacity = cap /\ Rehashed(d, cap).length = d.length
<1> DEFINE here(i) == {n \in Nodes(d) : Bucket(n.key, cap) = i}
           b == [i \in 0 .. cap - 1 |->
                   IF here(i) = {} THEN Nothing ELSE CHOOSE n \in here(i) : TRUE]
           r == Rehashed(d, cap)
<1>1. r = [d EXCEPT !.capacity = cap, !.buckets = b]
  BY DEF Rehashed
<1>2. Nodes(d) \subseteq Node
  BY NodesAtHome
<1>3. ASSUME NEW i \in 0 .. cap - 1, here(i) # {} PROVE b[i] \in here(i)
  BY <1>3
<1>4. ASSUME NEW i \in 0 .. cap - 1, here(i) = {} PROVE b[i] = Nothing
  BY <1>4
<1>5. b \in [0 .. cap - 1 -> Node \cup {Nothing}]
  BY <1>2, <1>3, <1>4
<1> HIDE DEF b
<1>6. /\ r \in [capacity : Nat, length : Nat, buckets : [0 .. cap - 1 -> Node \cup {Nothing}]]
      /\ r.capacity = cap /\ r.length = d.length /\ r.buckets = b
  <2>1. d \in [capacity : Nat, length : Nat, buckets : [0 .. d.capacity - 1 -> Node \cup {Nothing}]]
    BY DEF WellFormed
  <2> HIDE DEF r
  <2> QED
    BY <1>1, <1>5, <2>1, CapacityReplaced
<1>7. \A i \in 0 .. cap - 1 : b[i] # Nothing => Bucket(b[i].key, cap) = i
  BY <1>3, <1>4
<1>8. WellFormed(r)
  BY <1>6, <1>7 DEF WellFormed
<1>9. ASSUME NEW n \in Nodes(d) PROVE n \in Nodes(r)
  <2> DEFINE i == Bucket(n.key, cap)
  <2>1. n.key \in Key /\ n # Nothing
    BY <1>2 DEF Nodes, Node
  <2>2. i \in 0 .. cap - 1 /\ n \in here(i)
    BY <2>1, BucketIn
  <2>3. b[i] \in here(i)
    BY <1>3, <2>2
  <2>4. b[i] = n
    BY <2>2, <2>3 DEF Meet
  <2> QED
    BY <1>6, <2>1, <2>2, <2>4 DEF Nodes
<1>10. ASSUME NEW n \in Nodes(r) PROVE n \in Nodes(d)
  <2>1. PICK i \in 0 .. cap - 1 : b[i] = n /\ n # Nothing
    BY <1>6 DEF Nodes
  <2> QED
    BY <1>3, <1>4, <2>1
<1> QED
  BY <1>6, <1>8, <1>9, <1>10

LEMMA EmptyWellFormed ==
  ASSUME NEW cap \in Nat, NEW len \in Nat, NEW d,
         d = [capacity |-> cap, length |-> len, buckets |-> EmptyBuckets(cap)]
  PROVE  WellFormed(d) /\ Nodes(d) = {}
BY DEF WellFormed, Nodes, EmptyBuckets

LEMMA NoBucketsWellFormed == WellFormed(NoBuckets) /\ Nodes(NoBuckets) = {}
BY DEF WellFormed, Nodes, NoBuckets

\* _dict_checkcapacity changes nothing that get answers.
LEMMA CheckedKeeps ==
  ASSUME DictAssumption, NEW d, WellFormed(d), Checked(d).capacity \in 1 .. MaxCapacity,
         ~(NeedsRehash(d) /\ Meet(d, NextCapacity(d)))
  PROVE  /\ WellFormed(Checked(d))
         /\ Nodes(Checked(d)) = Nodes(d)
         /\ Checked(d).capacity \in Nat \ {0} /\ Checked(d).length = d.length
<1>1. CASE d.capacity = 0
  <2> DEFINE b == EmptyBuckets(InitCapacity)
  <2>1. Checked(d) = [d EXCEPT !.capacity = InitCapacity, !.buckets = b]
    BY <1>1 DEF Checked
  <2>2. b \in [0 .. InitCapacity - 1 -> Node \cup {Nothing}] /\ \A i \in 0 .. InitCapacity - 1 : b[i] = Nothing
    BY DEF EmptyBuckets
  <2>3. InitCapacity \in Nat \ {0}
    BY DEF DictAssumption
  <2> HIDE DEF b
  <2>4. /\ Checked(d) \in [capacity : Nat, length : Nat,
                           buckets : [0 .. InitCapacity - 1 -> Node \cup {Nothing}]]
        /\ Checked(d).capacity = InitCapacity /\ Checked(d).length = d.length
        /\ Checked(d).buckets = b
    <3>1. d \in [capacity : Nat, length : Nat, buckets : [0 .. d.capacity - 1 -> Node \cup {Nothing}]]
      BY DEF WellFormed
    <3> QED
      BY <2>1, <2>2, <2>3, <3>1, CapacityReplaced
  <2>5. WellFormed(Checked(d)) /\ Nodes(Checked(d)) = {}
    BY <2>2, <2>4 DEF WellFormed, Nodes
  <2>6. Nodes(d) = {}
    BY <1>1, NodesAtHome
  <2> QED
    BY <2>3, <2>4, <2>5, <2>6
<1>2. CASE d.capacity # 0 /\ ~NeedsRehash(d)
  BY <1>2 DEF Checked, WellFormed
<1>3. CASE d.capacity # 0 /\ NeedsRehash(d)
  <2>1. Checked(d) = Rehashed(d, NextCapacity(d))
    BY <1>3 DEF Checked
  <2>2. Checked(d).capacity = NextCapacity(d)
    BY <2>1 DEF Rehashed, WellFormed
  <2>3. NextCapacity(d) \in Nat \ {0}
    BY <2>2
  <2> QED
    BY <1>3, <2>1, <2>2, <2>3, RehashedKeeps
<1> QED
  BY <1>1, <1>2, <1>3

With(d, k, x, len) == [d EXCEPT !.length = len,
                                !.buckets[Bucket(k, d.capacity)] = [key |-> k, item |-> x]]

\* An insertion into a bucket without another key replaces the node of the
\* key, if there is one, and leaves the others.
LEMMA PutIn ==
  ASSUME DictAssumption, NEW d, WellFormed(d), d.capacity # 0,
         NEW k \in Key, NEW x \in Item, ~Collides(d, k), NEW len \in Nat
  PROVE  /\ WellFormed(With(d, k, x, len)) /\ With(d, k, x, len).length = len
         /\ Nodes(With(d, k, x, len)) = {n \in Nodes(d) : n.key # k} \cup {[key |-> k, item |-> x]}
<1> DEFINE i == Bucket(k, d.capacity)
           n == [key |-> k, item |-> x]
           b == [d.buckets EXCEPT ![i] = n]
           Blocks == [0 .. d.capacity - 1 -> Node \cup {Nothing}]
           e == With(d, k, x, len)
<1>1. d.capacity \in Nat \ {0} /\ d.buckets \in Blocks /\ d \in [capacity : Nat, length : Nat, buckets : Blocks]
  BY DEF WellFormed
<1>2. i \in 0 .. d.capacity - 1 /\ n \in Node /\ n # Nothing
  BY <1>1, BucketIn DEF Node, DictAssumption
<1>3. b \in Blocks /\ b[i] = n /\ \A j \in 0 .. d.capacity - 1 : j # i => b[j] = d.buckets[j]
  BY <1>1, <1>2
<1>4. e = [d EXCEPT !.length = len, !.buckets = b]
  BY DEF With
<1> HIDE DEF b, Blocks
<1>5. /\ e \in [capacity : Nat, length : Nat, buckets : Blocks]
      /\ e.capacity = d.capacity /\ e.length = len /\ e.buckets = b
  BY <1>1, <1>3, <1>4, LengthReplaced
<1>6. \A j \in 0 .. d.capacity - 1 : b[j] # Nothing => Bucket(b[j].key, d.capacity) = j
  BY <1>3 DEF WellFormed
<1>7. WellFormed(e)
  BY <1>5, <1>6 DEF WellFormed, Blocks
<1>8. Nodes(e) = {b[j] : j \in 0 .. d.capacity - 1} \ {Nothing}
  BY <1>3, <1>5 DEF Nodes, Blocks
<1>9. Nodes(d) = {d.buckets[j] : j \in 0 .. d.capacity - 1} \ {Nothing}
  BY <1>1 DEF Nodes, Blocks
<1>10. ASSUME NEW m \in Nodes(e), m # n PROVE m \in Nodes(d) /\ m.key # k
  <2>1. PICK j \in 0 .. d.capacity - 1 : m = b[j]
    BY <1>8
  <2>2. j # i /\ m = d.buckets[j] /\ m # Nothing
    BY <1>3, <1>8, <1>10, <2>1
  <2>3. m \in Nodes(d) /\ Bucket(m.key, d.capacity) = j
    BY <1>9, <2>2 DEF WellFormed
  <2> QED
    BY <2>2, <2>3
<1>11. ASSUME NEW m \in Nodes(d), m.key # k PROVE m \in Nodes(e)
  <2>1. PICK j \in 0 .. d.capacity - 1 : m = d.buckets[j]
    BY <1>9
  <2>2. m # Nothing /\ Bucket(m.key, d.capacity) = j
    BY <1>9, <2>1 DEF WellFormed
  <2>3. j # i
    BY <1>11, <2>2 DEF Collides
  <2> QED
    BY <1>3, <1>8, <2>1, <2>2, <2>3
<1>12. n \in Nodes(e)
  BY <1>2, <1>3, <1>8
<1> QED
  BY <1>5, <1>7, <1>10, <1>11, <1>12

-----------------------------------------------------------------------------
\* The inductive invariant: the nodes are in the buckets of their keys, the
\* nodes in them are the ones that were not destroyed, no two have the same
\* item, and length counts them.
DictInv == /\ WellFormed(dict)
           /\ owned = {n.item : n \in Nodes(dict)}
           /\ \A m, n \in Nodes(dict) : m.item = n.item => m = n
           /\ IsFiniteSet(Nodes(dict)) /\ dict.length = Cardinality(Nodes(dict))

LEMMA ContentsAre == Contents = ContentsOf(dict)
BY DEF Contents, ContentsOf

LEMMA InitDictInv == Init => DictInv
BY NoBucketsWellFormed, FS_EmptySet DEF Init, DictInv, NoBuckets

\* What a set does to the nodes.
LEMMA SetNodes ==
  ASSUME DictAssumption, DictInv, NEW k \in Key, NEW x \in Item, Set(k, x)
  PROVE  LET old == {n \in Nodes(dict) : n.key = k}
         IN  /\ WellFormed(dict')
             /\ Nodes(dict)' = (Nodes(dict) \ old) \cup {[key |-> k, item |-> x]}
             /\ dict'.length = IF old = {} THEN dict.length + 1 ELSE dict.length
             /\ owned' = (owned \ {n.item : n \in old}) \cup {x}
             /\ x \notin owned
<1> DEFINE d == Checked(dict)
           old == {n \in Nodes(d) : n.key = k}
           len == IF old = {} THEN d.length + 1 ELSE d.length
<1>1. /\ WellFormed(d) /\ Nodes(d) = Nodes(dict)
      /\ d.capacity \in Nat \ {0} /\ d.length = dict.length
  BY CheckedKeeps DEF DictInv, Set, SetCrashing
<1>2. len \in Nat
  BY <1>1 DEF WellFormed
<1>3. dict' = With(d, k, x, len)
  BY DEF Set, With
<1>4. ~Collides(d, k)
  BY DEF Set, SetCrashing
<1>5. /\ WellFormed(dict') /\ dict'.length = len
      /\ Nodes(dict') = {n \in Nodes(d) : n.key # k} \cup {[key |-> k, item |-> x]}
  <2> HIDE DEF d, len
  <2>1. d.capacity # 0
    BY <1>1
  <2> QED
    BY <1>1, <1>2, <1>3, <1>4, <2>1, PutIn
<1>6. Nodes(dict)' = Nodes(dict')
  BY DEF Nodes
<1>7. owned' = (owned \ {n.item : n \in old}) \cup {x} /\ x \notin owned
  BY DEF Set
<1> QED
  BY <1>1, <1>5, <1>6, <1>7

\* A key has one node at most, so a set adds one or takes the place of one.
LEMMA SetKeeps ==
  ASSUME DictAssumption, DictInv, NEW k \in Key, NEW x \in Item, Set(k, x)
  PROVE  DictInv'
<1> DEFINE N == Nodes(dict)
           old == {n \in N : n.key = k}
           new == [key |-> k, item |-> x]
<1>1. /\ WellFormed(dict') /\ N' = (N \ old) \cup {new}
      /\ dict'.length = IF old = {} THEN dict.length + 1 ELSE dict.length
      /\ owned' = (owned \ {n.item : n \in old}) \cup {x} /\ x \notin owned
  BY SetNodes
<1>2. new \notin N /\ new.item = x /\ \A n \in N : n.item # x
  BY <1>1 DEF DictInv
<1>3. \A m, n \in N : m.key = n.key => m = n
  BY NodesAtHome DEF DictInv
<1>4. owned' = {n.item : n \in N'}
  BY <1>1, <1>2 DEF DictInv
<1>5. \A m, n \in N' : m.item = n.item => m = n
  BY <1>1, <1>2 DEF DictInv
<1>6. IsFiniteSet(N) /\ dict.length = Cardinality(N) /\ Cardinality(N) \in Nat
  BY FS_CardinalityType DEF DictInv
<1>7. IsFiniteSet(N') /\ dict'.length = Cardinality(N')
  <2>1. CASE old = {}
    <3>1. N' = N \cup {new}
      BY <1>1, <2>1
    <3> QED
      BY <1>1, <1>2, <1>6, <2>1, <3>1, FS_AddElement
  <2>2. CASE old # {}
    <3>1. PICK m \in N : m.key = k
      BY <2>2
    <3>2. old = {m}
      BY <1>3, <3>1
    <3> DEFINE rest == N \ {m}
    <3>3. IsFiniteSet(rest) /\ Cardinality(rest) = Cardinality(N) - 1
      BY <1>6, <3>1, FS_RemoveElement
    <3>4. N' = rest \cup {new} /\ new \notin rest
      BY <1>1, <1>2, <3>2
    <3>5. dict'.length = dict.length
      BY <1>1, <2>2
    <3> HIDE DEF rest, N, new, old
    <3>6. IsFiniteSet(rest \cup {new}) /\ Cardinality(rest \cup {new}) = Cardinality(rest) + 1
      BY <3>3, <3>4, FS_AddElement
    <3> QED
      BY <1>6, <3>3, <3>4, <3>5, <3>6
  <2> QED
    BY <2>1, <2>2
<1> QED
  BY <1>1, <1>4, <1>5, <1>7 DEF DictInv, WellFormed

\* Clear and destroy leave no node.
LEMMA EmptiedKeeps ==
  ASSUME DictAssumption, DictInv, Clear \/ Destroy
  PROVE  DictInv' /\ Nodes(dict)' = {} /\ owned' = {}
<1>1. WellFormed(dict)' /\ Nodes(dict)' = {} /\ dict'.length = 0
  <2>1. CASE Destroy
    BY <2>1, NoBucketsWellFormed DEF Destroy, WellFormed, Nodes, NoBuckets
  <2>2. CASE Clear
    <3> DEFINE b == EmptyBuckets(dict.capacity)
               Blocks == [0 .. dict.capacity - 1 -> Node \cup {Nothing}]
    <3>1. b \in Blocks /\ \A i \in 0 .. dict.capacity - 1 : b[i] = Nothing
      BY DEF EmptyBuckets
    <3>2. dict' = [dict EXCEPT !.length = 0, !.buckets = b]
      BY <2>2 DEF Clear
    <3>3. dict \in [capacity : Nat, length : Nat, buckets : Blocks]
      BY DEF DictInv, WellFormed
    <3> HIDE DEF b, Blocks
    <3>4. /\ dict' \in [capacity : Nat, length : Nat, buckets : Blocks]
          /\ dict'.capacity = dict.capacity /\ dict'.length = 0 /\ dict'.buckets = b
      BY <3>1, <3>2, <3>3, LengthReplaced
    <3> QED
      BY <3>1, <3>4 DEF WellFormed, Nodes, Blocks
  <2> QED
    BY <2>1, <2>2
<1>2. owned' = {}
  BY DEF Clear, Destroy, DictInv
<1> QED
  BY <1>1, <1>2, FS_EmptySet DEF DictInv

LEMMA NextDictInv == ASSUME DictAssumption, DictInv, [Next]_vars PROVE DictInv'
<1>1. ASSUME NEW k \in Key, NEW x \in Item, Set(k, x) PROVE DictInv'
  BY <1>1, SetKeeps
<1>2. CASE Clear \/ Destroy
  BY <1>2, EmptiedKeeps
<1>3. CASE UNCHANGED <<dict, owned>>
  BY <1>3 DEF DictInv, WellFormed, Nodes
<1>4. ASSUME NEW k \in Key, SetCrashes(k) PROVE DictInv'
  BY <1>3, <1>4 DEF SetCrashes, Crash
<1>5. CASE GetCrashes
  BY <1>3, <1>5 DEF GetCrashes, Crash
<1>6. CASE UNCHANGED vars
  BY <1>3, <1>6 DEF vars
<1> QED
  BY <1>1, <1>2, <1>4, <1>5, <1>6 DEF Next

-----------------------------------------------------------------------------
\* The steps are those of a dictionary that owns its items.

LEMMA DictInitRefines == Init => Dictionary!Init
BY NoBucketsWellFormed DEF Init, Dictionary!Init, Dictionary!Empty, Contents, NoBuckets

LEMMA SetRefines ==
  ASSUME DictAssumption, DictInv, NEW k \in Key, NEW x \in Item, Set(k, x)
  PROVE  Dictionary!Put(k, x)
<1> DEFINE N == Nodes(dict)
           old == {n \in N : n.key = k}
           new == [key |-> k, item |-> x]
<1>1. /\ WellFormed(dict) /\ WellFormed(dict') /\ N' = (N \ old) \cup {new}
      /\ owned' = (owned \ {n.item : n \in old}) \cup {x} /\ x \notin owned
  BY SetNodes DEF DictInv
<1>2. Contents = ContentsOf(dict) /\ Contents' = ContentsOf(dict') /\ N' = Nodes(dict')
  BY ContentsAre DEF Contents, ContentsOf, Nodes
<1>3. ASSUME NEW j \in Key PROVE Contents'[j] = IF j = k THEN x ELSE Contents[j]
  <2>1. CASE j = k
    BY <1>1, <1>2, <2>1, ContentsOfNodes
  <2>2. CASE j # k /\ \E n \in N : n.key = j
    <3>1. PICK n \in N : n.key = j
      BY <2>2
    <3>2. n \in N'
      BY <1>1, <2>2, <3>1
    <3> QED
      BY <1>1, <1>2, <2>2, <3>1, <3>2, ContentsOfNodes
  <2>3. CASE j # k /\ \A n \in N : n.key # j
    <3>1. \A n \in N' : n.key # j
      BY <1>1, <2>3
    <3> QED
      BY <1>1, <1>2, <2>3, <3>1, ContentsOfNodes
  <2> QED
    BY <2>1, <2>2, <2>3
<1>4. Contents' = [Contents EXCEPT ![k] = x]
  BY <1>3 DEF Contents
<1>5. owned \ {n.item : n \in old} = owned \ {Contents[k]}
  <2>1. CASE old = {}
    <3>1. Contents[k] = Nothing
      BY <1>1, <1>2, <2>1, ContentsOfNodes
    <3>2. Nothing \notin owned
      <4>1. N \subseteq Node
        BY <1>1, NodesAtHome
      <4> QED
        BY <4>1 DEF DictInv, DictAssumption, Node
    <3> QED
      BY <2>1, <3>1, <3>2
  <2>2. CASE old # {}
    <3>1. PICK m \in N : m.key = k
      BY <2>2
    <3>2. old = {m}
      BY <1>1, <3>1, NodesAtHome
    <3>3. Contents[k] = m.item
      BY <1>1, <1>2, <3>1, ContentsOfNodes
    <3> QED
      BY <3>2, <3>3
  <2> QED
    BY <2>1, <2>2
<1> QED
  BY <1>1, <1>4, <1>5 DEF Dictionary!Put

LEMMA DictStep ==
  ASSUME DictAssumption, DictInv, [Next]_vars
  PROVE  [Dictionary!Next]_(Dictionary!vars)
<1>1. ASSUME NEW k \in Key, NEW x \in Item, Set(k, x) PROVE Dictionary!Next
  BY <1>1, SetRefines DEF Dictionary!Next
<1>2. CASE Clear \/ Destroy
  <2>1. WellFormed(dict)' /\ Nodes(dict)' = {} /\ owned' = {}
    BY <1>2, EmptiedKeeps DEF DictInv
  <2>2. WellFormed(dict') /\ Nodes(dict') = {} /\ Contents' = ContentsOf(dict')
    BY <2>1 DEF WellFormed, Nodes, Contents, ContentsOf
  <2>3. \A k \in Key : Contents'[k] = Nothing
    BY <2>2, ContentsOfNodes
  <2>4. Contents' = Dictionary!Empty
    BY <2>3 DEF Contents, Dictionary!Empty
  <2> QED
    BY <2>1, <2>4 DEF Dictionary!Next, Dictionary!DeleteAll
<1>3. CASE UNCHANGED <<dict, owned>>
  BY <1>3 DEF Dictionary!vars, Contents
<1>4. ASSUME NEW k \in Key, SetCrashes(k) PROVE UNCHANGED <<dict, owned>>
  BY <1>4 DEF SetCrashes, Crash
<1>5. CASE GetCrashes
  BY <1>3, <1>5 DEF GetCrashes, Crash
<1>6. CASE UNCHANGED vars
  BY <1>3, <1>6 DEF vars
<1> QED
  BY <1>1, <1>2, <1>3, <1>4, <1>5, <1>6 DEF Next

\* DictInv holds in every state of a dictionary.
THEOREM DictInductive == ASSUME DictAssumption PROVE Spec => []DictInv
<1>1. DictInv /\ [Next]_vars => DictInv'
  BY NextDictInv
<1> QED
  BY <1>1, InitDictInv, PTL DEF Spec

\* The dictionary of C/old/dict.c owns its nodes and answers with the one that
\* was set last, through replacements, rehashes and clears, until it crashes.
THEOREM DictRefinement == ASSUME DictAssumption PROVE Spec => ImplementsOwningMap
<1>1. DictInv /\ [Next]_vars => [Dictionary!Next]_(Dictionary!vars)
  BY DictStep
<1> QED
  BY <1>1, DictInductive, DictInitRefines, PTL DEF Spec, ImplementsOwningMap, Dictionary!Spec

\* dict_getlength is the number of keys that dict_get answers.
THEOREM DictLengthExact == ASSUME DictAssumption PROVE Spec => []LengthExact
<1>1. ASSUME DictInv PROVE LengthExact
  <2> DEFINE N == Nodes(dict)
             K == {k \in Key : Contents[k] # Nothing}
             f == [n \in N |-> n.key]
  <2>1. N \subseteq Node /\ \A m, n \in N : m.key = n.key => m = n
    BY <1>1, NodesAtHome DEF DictInv
  <2>2. \A n \in N : Contents[n.key] = n.item /\ n.item # Nothing
    BY <1>1, <2>1, ContentsAre, ContentsOfNodes DEF DictInv, Node, DictAssumption
  <2>3. ASSUME NEW k \in K PROVE \E n \in N : n.key = k
    BY <1>1, ContentsAre, ContentsOfNodes DEF DictInv
  <2>4. f \in Bijection(N, K)
    <3>1. f \in [N -> K]
      BY <2>1, <2>2 DEF Node
    <3>2. f \in Injection(N, K)
      BY <2>1, <3>1 DEF Injection, IsInjective
    <3>3. f \in Surjection(N, K)
      BY <2>3, <3>1 DEF Surjection
    <3> QED
      BY <3>2, <3>3 DEF Bijection
  <2>5. IsFiniteSet(N) /\ f \in Bijection(N, K)
    BY <1>1, <2>4 DEF DictInv
  <2> HIDE DEF N, K, f
  <2>6. Cardinality(N) = Cardinality(K)
    BY <2>5, FS_Bijection DEF ExistsBijection
  <2> QED
    BY <1>1, <2>6 DEF LengthExact, DictInv, N, K
<1> QED
  BY <1>1, DictInductive, PTL

-----------------------------------------------------------------------------
\* Bluetooth.

\* What the menu shows, and what is about to be written, is what it was when
\* it was read, but for the labels in stale.
Reading == {"options", "rows", "menu", "rfkill", "negate"}

ShownInv ==
  /\ on = [a \in Adapter |-> on[a]] /\ adapter \in Adapter
  /\ pc \in {"main", "devices", "list", "device", "ended"} => DOMAIN shown = {}
  /\ pc \in Reading => \A l \in DOMAIN shown \ stale : shown[l] = B!Value(adapter, l)
  /\ pc \in {"rfkill", "negate", "write"} => label \in DOMAIN shown /\ label # "Scanning"
  /\ pc = "write" /\ label \notin stale => value = ~shown[label]

\* Other clients change a property only while its label becomes stale.
LEMMA OthersKeepShown == ASSUME ShownInv, B!Others PROVE ShownInv'
<1>1. UNCHANGED <<adapter, shown, pc, label, value>>
  BY DEF B!Others, B!menu
<1>2. on' = [a \in Adapter |-> on'[a]]
  BY DEF B!Others, B!OthersTurn, B!OthersScan, B!OthersFlag, B!Turned, ShownInv
<1>3. stale \subseteq stale'
  BY DEF B!Others
<1>4. pc \in Reading => \A l \in DOMAIN shown \ stale' : B!Value(adapter, l) = B!Value(adapter, l)'
  BY DEF B!Others, Reading
<1>5. ASSUME pc \in Reading, NEW l \in DOMAIN shown \ stale'
      PROVE  shown[l] = B!Value(adapter, l)'
  <2>1. shown[l] = B!Value(adapter, l)
    BY <1>3, <1>5 DEF ShownInv
  <2> QED
    BY <1>4, <1>5, <2>1, Zenon
<1>6. (pc \in Reading => \A l \in DOMAIN shown \ stale : shown[l] = B!Value(adapter, l))'
  BY <1>1, <1>5, Zenon
<1>7. (pc = "write" /\ label \notin stale => value = ~shown[label])'
  BY <1>1, <1>3 DEF ShownInv
<1> QED
  BY <1>1, <1>2, <1>6, <1>7, Zenon DEF ShownInv

\* What is left of the menu when nothing that Value reads changes.
LEMMA SameShown ==
  ASSUME ShownInv, UNCHANGED <<on, scanners, adapter>>, stale \cap DOMAIN shown' \subseteq stale',
         NEW K \in SUBSET DOMAIN shown, shown' = [k \in K |-> shown[k]],
         pc \in Reading
  PROVE  /\ on' = [a \in Adapter |-> on'[a]] /\ adapter' \in Adapter
         /\ \A l \in DOMAIN shown' \ stale' : shown'[l] = B!Value(adapter, l)'
<1>1. \A l : B!Value(adapter, l)' = B!Value(adapter, l)
  BY DEF B!Value, B!Scanning
<1>2. \A l \in DOMAIN shown \ stale : shown[l] = B!Value(adapter, l)
  BY DEF ShownInv
<1>3. DOMAIN shown' = K /\ \A l \in K : shown'[l] = shown[l]
  OBVIOUS
<1>4. \A l \in DOMAIN shown' \ stale' : shown'[l] = B!Value(adapter, l)'
  BY <1>1, <1>2, <1>3, Zenon
<1> QED
  BY <1>4 DEF ShownInv

LEMMA ScriptKeepsShown ==
  ASSUME B!BluetoothAssumption, ShownInv, B!Script
  PROVE  ShownInv'
<1>1. ASSUME NEW to \in {"main", "ended"}, B!Leave(to), on' = [a \in Adapter |-> on'[a]]
      PROVE  ShownInv'
  <2>1. pc' = to /\ adapter' = First /\ DOMAIN shown' = {}
    BY <1>1 DEF B!Leave
  <2> QED
    BY <1>1, <2>1 DEF ShownInv, Reading, B!BluetoothAssumption
<1>2. ASSUME B!End PROVE ShownInv'
  BY <1>1, <1>2 DEF B!End, ShownInv
<1>3. ASSUME B!ShowMain, UNCHANGED on PROVE ShownInv'
  BY <1>1, <1>3 DEF B!ShowMain, ShownInv
<1>4. CASE B!Close \/ B!Raise
  BY <1>2, <1>4 DEF B!Close, B!Raise
<1>5. CASE B!Back
  BY <1>3, <1>5 DEF B!Back, B!world
<1>6. CASE B!Write
  <2>1. on' = [a \in Adapter |-> on'[a]]
    BY <1>6 DEF B!Write, B!Turned, ShownInv
  <2> QED
    BY <1>1, <1>6, <2>1 DEF B!Write, B!ShowMain
<1>7. CASE B!FindSelectedAdapter
  BY <1>7 DEF B!FindSelectedAdapter, ShownInv, Reading, B!world, B!BluetoothAssumption
<1>8. CASE B!ReadDevices
  BY <1>8 DEF B!ReadDevices, ShownInv, Reading, B!world
<1>9. CASE B!ReadScanning
  BY <1>9 DEF B!ReadScanning, ShownInv, Reading, B!world
<1>10. CASE B!ReadPoweredAgain
  BY <1>10 DEF B!ReadPoweredAgain, ShownInv, Reading, B!world, B!menu, B!Value, B!Scanning
<1>11. CASE B!ReadToScan
  BY <1>11 DEF B!ReadToScan, B!Go, ShownInv, Reading, B!world, B!menu
<1>12. CASE B!StopDiscovery \/ B!StartDiscovery
  <2>1. UNCHANGED on
    BY <1>12 DEF B!StopDiscovery, B!StartDiscovery
  <2>2. B!ShowMain \/ (pc' = "start" /\ UNCHANGED B!menu)
    BY <1>12 DEF B!StopDiscovery, B!StartDiscovery
  <2> QED
    BY <1>3, <2>1, <2>2 DEF ShownInv, Reading, B!menu
<1>13. ASSUME NEW a \in Adapter, B!ChooseAdapter(a) PROVE ShownInv'
  BY <1>3, <1>13 DEF B!ChooseAdapter, B!WriteConfig, B!world
<1>14. ASSUME NEW d \in Device, B!ChooseDevice(d) PROVE ShownInv'
  <2>1. UNCHANGED on
    BY <1>14 DEF B!ChooseDevice, B!WriteConfig, B!world
  <2>2. B!ShowMain \/ (pc' = "device" /\ shown' = <<>> /\ UNCHANGED adapter)
    BY <1>14 DEF B!ChooseDevice, B!WriteConfig
  <2> QED
    BY <1>3, <2>1, <2>2 DEF ShownInv, Reading
<1>15. ASSUME NEW call, B!CallDevice(call) PROVE ShownInv'
  BY <1>15 DEF B!CallDevice, ShownInv, Reading, B!menu
<1>16. CASE B!ReadOption
  <2> DEFINE r == B!Labels[Cardinality(DOMAIN shown) + 1]
  <2>1. /\ pc = "options" /\ pc' \in {"rows", "menu", "options"}
        /\ UNCHANGED <<on, scanners, adapter, stale>>
    BY <1>16 DEF B!ReadOption, B!world
  <2>2. PICK l : shown' = [k \in {l} \cup DOMAIN shown |->
                            IF k = l THEN B!Value(adapter, l) ELSE shown[k]]
    BY <1>16 DEF B!ReadOption
  <2>3. \A k : B!Value(adapter, k)' = B!Value(adapter, k)
    BY <2>1 DEF B!Value, B!Scanning
  <2>4. \A k \in DOMAIN shown \ stale : shown[k] = B!Value(adapter, k)
    BY <2>1 DEF ShownInv, Reading
  <2>5. \A k \in DOMAIN shown' \ stale : shown'[k] = B!Value(adapter, k)
    BY <2>2, <2>4
  <2>6. (\A k \in DOMAIN shown \ stale : shown[k] = B!Value(adapter, k))'
    BY <2>1, <2>3, <2>5, Zenon
  <2>7. on' = [a \in Adapter |-> on'[a]] /\ adapter' \in Adapter
    BY <2>1 DEF ShownInv
  <2>8. /\ (pc \in {"main", "devices", "list", "device", "ended"} => DOMAIN shown = {})'
        /\ (pc \in {"rfkill", "negate", "write"} => label \in DOMAIN shown /\ label # "Scanning")'
        /\ (pc = "write" /\ label \notin stale => value = ~shown[label])'
    BY <2>1
  <2> QED
    BY <2>6, <2>7, <2>8, Zenon DEF ShownInv
<1>17. CASE B!ChooseOption \/ B!ChooseUpdate
  <2>1. PICK l, to : /\ B!Choose(l, to) /\ to \in {"rfkill", "scan", "negate", "stop"}
                     /\ to \in {"rfkill", "negate"} => l \in DOMAIN shown /\ l # "Scanning"
    BY <1>17 DEF B!ChooseOption, B!ChooseUpdate
  <2> DEFINE K == DOMAIN shown \cap {l}
  <2>2. /\ shown' = [k \in K |-> shown[k]] /\ pc \in Reading /\ pc' = to /\ label' = l
        /\ UNCHANGED <<on, scanners, adapter>> /\ stale' = stale \cap {l}
    BY <2>1 DEF B!Choose, B!world, Reading
  <2>3. K \in SUBSET DOMAIN shown /\ stale \cap DOMAIN shown' \subseteq stale' /\ DOMAIN shown' = K
    BY <2>2
  <2>4. /\ on' = [a \in Adapter |-> on'[a]] /\ adapter' \in Adapter
        /\ \A k \in DOMAIN shown' \ stale' : shown'[k] = B!Value(adapter, k)'
    BY <2>2, <2>3, SameShown
  <2>5. /\ (pc \in {"main", "devices", "list", "device", "ended"} => DOMAIN shown = {})'
        /\ (pc \in {"rfkill", "negate", "write"} => label \in DOMAIN shown /\ label # "Scanning")'
        /\ (pc = "write" /\ label \notin stale => value = ~shown[label])'
    BY <2>1, <2>2, <2>3
  <2> QED
    BY <2>4, <2>5, Zenon DEF ShownInv
<1>18. CASE B!UnblockRfkill
  <2>1. CASE B!End
    BY <1>2, <2>1
  <2>2. CASE pc = "rfkill" /\ B!Go("negate")
    BY <2>2 DEF B!Go, ShownInv, Reading, B!world, B!menu, B!Value, B!Scanning
  <2> QED
    BY <1>18, <2>1, <2>2 DEF B!UnblockRfkill
<1>19. CASE B!ReadToNegate
  <2>1. /\ pc = "negate" /\ pc' = "write" /\ value' = ~B!Value(adapter, label)
        /\ UNCHANGED <<on, adapter, shown, label, stale>>
    BY <1>19 DEF B!ReadToNegate, B!world, B!menu
  <2>2. label \notin stale => shown[label] = B!Value(adapter, label)
    BY <2>1 DEF ShownInv, Reading
  <2>3. (pc = "write" /\ label \notin stale => value = ~shown[label])'
    BY <2>1, <2>2, Zenon
  <2> QED
    BY <2>1, <2>3 DEF ShownInv, Reading
<1> QED
  BY <1>4, <1>5, <1>6, <1>7, <1>8, <1>9, <1>10, <1>11, <1>12, <1>13, <1>14, <1>15, <1>16, <1>17,
     <1>18, <1>19 DEF B!Script

\* A toggle writes the opposite of what the menu showed, whatever other clients
\* do between its read and its write, unless one changed the property before
\* that read, for any adapters and switches.
THEOREM TogglesAsShown == ASSUME B!BluetoothAssumption PROVE B!Spec => ToggleAsShown
<1>1. B!Init => ShownInv
  BY DEF B!Init, ShownInv, Reading, B!BluetoothAssumption
<1>2. ShownInv /\ [B!Next]_(B!vars) => ShownInv'
  <2>1. CASE B!Script
    BY <2>1, ScriptKeepsShown
  <2>2. CASE B!Others
    BY <2>2, OthersKeepShown
  <2>3. CASE UNCHANGED B!vars
    BY <2>3 DEF B!vars, B!world, B!menu, ShownInv, Reading, B!Value, B!Scanning
  <2> QED
    BY <2>1, <2>2, <2>3 DEF B!Next
<1>3. ASSUME ShownInv, NEW a \in Adapter, NEW l \in B!LabelSet,
             B!Write, a = adapter, l = label, l \notin stale
      PROVE  B!Value(a, l)' = ~shown[l]
  <2>1. pc = "write" /\ on' = [on EXCEPT ![a] = IF value THEN @ \cup {l} ELSE @ \ {l}]
    BY <1>3 DEF B!Write, B!Turned
  <2>2. l # "Scanning" /\ value = ~shown[l] /\ on = [b \in Adapter |-> on[b]]
    BY <1>3, <2>1 DEF ShownInv
  <2>3. on'[a] = IF value THEN on[a] \cup {l} ELSE on[a] \ {l}
    BY <2>1, <2>2
  <2>4. value \in BOOLEAN /\ (l \in on'[a] <=> value)
    BY <2>2, <2>3
  <2>5. B!Value(a, l)' = (l \in on'[a])
    BY <2>2 DEF B!Value
  <2>6. (l \in on'[a]) = value
    BY <2>4
  <2> QED
    BY <2>2, <2>5, <2>6, Zenon
<1>4. ShownInv /\ [B!Next]_(B!vars) =>
        [\A a \in Adapter, l \in B!LabelSet :
           B!Write /\ a = adapter /\ l = label /\ l \notin stale => B!Value(a, l)' = ~shown[l]]_(B!vars)
  BY <1>3
<1> QED
  BY <1>1, <1>2, <1>4, PTL DEF B!Spec, ToggleAsShown, B!ToggleAsShown

-----------------------------------------------------------------------------
\* Str: naturals first, as lengths and loops are.

\* A non-empty set of naturals has a least element: strict inclusion of the
\* finite sets 0 .. x - 1 is well-founded.
LEMMA LeastNatural ==
  ASSUME NEW Z \in SUBSET Nat, Z # {}
  PROVE  \E x \in Z : \A y \in Z : x <= y
<1> DEFINE Below(x) == 0 .. x - 1
           R == StrictSubsetOrdering(Nat)
           T == {Below(x) : x \in Z}
<1>1. IsWellFoundedOn(R, FiniteSubsetsOf(Nat))
  BY FS_StrictSubsetOrderingWellFounded
<1>2. T \subseteq FiniteSubsetsOf(Nat)
  <2>1. \A x \in Nat : x - 1 \in Int /\ IsFiniteSet(Below(x)) /\ Below(x) \in SUBSET Nat
    BY FS_Interval
  <2> QED
    BY <2>1 DEF FiniteSubsetsOf
<1>3. T # {}
  OBVIOUS
<1>4. \E s \in T : \A u \in T : ~(<<u, s>> \in R)
  <2> HIDE DEF T, R
  <2> QED BY <1>1, <1>2, <1>3, WFMin
<1>5. PICK x \in Z : \A y \in Z : ~(<<Below(y), Below(x)>> \in R)
  BY <1>4
<1>6. ASSUME NEW y \in Z, y < x PROVE FALSE
  <2>1. /\ Below(y) \subseteq Below(x) /\ y \in Below(x) /\ y \notin Below(y)
        /\ Below(x) \in SUBSET Nat /\ Below(y) \in SUBSET Nat
    BY <1>6
  <2>2. <<Below(y), Below(x)>> \in R
    <3> HIDE DEF Below
    <3> QED BY <2>1 DEF StrictSubsetOrdering
  <2> QED
    BY <1>5, <2>2
<1> QED
  BY <1>6

LEMMA MinOfNats ==
  ASSUME NEW Z \in SUBSET Nat, Z # {}
  PROVE  S!Min(Z) \in Z /\ \A x \in Z : S!Min(Z) <= x
BY LeastNatural DEF S!Min

\* Induction up to a bound, for the set of the numbers that have the property.
LEMMA InductionUpTo ==
  ASSUME NEW n \in Nat, NEW Z, 0 \in Z,
         \A i \in 1 .. n : i - 1 \in Z => i \in Z
  PROVE  0 .. n \subseteq Z
<1> SUFFICES ASSUME NEW z \in 0 .. n, z \notin Z PROVE FALSE
  OBVIOUS
<1> DEFINE T == (0 .. n) \ Z
<1>1. PICK x \in T : \A y \in T : x <= y
  <2>1. T \in SUBSET Nat /\ T # {}
    OBVIOUS
  <2> HIDE DEF T
  <2> QED
    BY <2>1, LeastNatural
<1>2. x \in 1 .. n /\ x - 1 \in 0 .. n /\ ~(x <= x - 1)
  BY <1>1
<1> QED
  BY <1>1, <1>2

-----------------------------------------------------------------------------
\* Str: its memory.

Byte == Letter \cup {Nul}

\* A string with memory for cap characters and the terminator behind them.
Buffer(s, cap) == /\ cap \in Nat
                  /\ s \in [length : 0 .. cap, bytes : [0 .. cap -> Byte]]
                  /\ s.bytes[cap] = Nul
                  /\ s.length <= StrMax

LEMMA StrBounds ==
  ASSUME S!StrAssumption
  PROVE  StrMax \in Nat /\ MaxWord \in Nat /\ StrDefault \in Nat /\ Word \in Nat /\ StrMax + 1 < Word
BY DEF S!StrAssumption

LEMMA SameStrCardinality == ASSUME NEW set PROVE S!Cardinality(set) = Cardinality(set)
BY DEF S!Cardinality, S!IsFiniteSet, Cardinality, IsFiniteSet

LEMMA CapacityOfBuffer ==
  ASSUME NEW s, NEW cap, Buffer(s, cap)
  PROVE  S!Capacity(s) = cap
<1>1. cap \in Int /\ 0 \in Int /\ cap \in Nat
  BY DEF Buffer
<1>2. (IF 0 > cap THEN 0 ELSE cap - 0 + 1) = cap + 1
  BY <1>1
<1>3. Cardinality(0 .. cap) = cap + 1
  BY <1>1, <1>2, FS_Interval
<1>4. S!Cardinality(DOMAIN s.bytes) = Cardinality(0 .. cap)
  BY SameStrCardinality DEF Buffer
<1>5. S!Size(s.bytes) = cap + 1
  BY <1>3, <1>4 DEF S!Size
<1> QED
  BY <1>1, <1>5 DEF S!Capacity

\* r is s with memory for c characters.
Widens(s, cap, r, c) == /\ Buffer(r, c) /\ cap <= c
                        /\ r.length = s.length
                        /\ \A i \in 0 .. cap : r.bytes[i] = s.bytes[i]
                        /\ \A i \in cap .. c : r.bytes[i] = Nul

\* _str_reserve keeps the bytes and makes room for n characters.
LEMMA ReservedBytes ==
  ASSUME NEW s, NEW cap, Buffer(s, cap), NEW n \in Nat
  PROVE  \E c \in Nat : n <= c /\ Widens(s, cap, S!Reserved(s, n), c)
<1>1. S!Capacity(s) = cap
  BY CapacityOfBuffer
<1>2. CASE cap >= n
  <2>1. S!Reserved(s, n) = s
    BY <1>1, <1>2 DEF S!Reserved
  <2> QED
    BY <1>2, <2>1 DEF Buffer, Widens
<1>3. CASE ~(cap >= n)
  <2> DEFINE g == S!Grown(s.bytes, n + 1, Nul)
  <2>1. S!Reserved(s, n) = [s EXCEPT !.bytes = g]
    BY <1>1, <1>3 DEF S!Reserved
  <2>2. /\ g \in [0 .. n -> Byte] /\ \A i \in 0 .. cap : g[i] = s.bytes[i]
        /\ \A i \in cap .. n : g[i] = Nul
    BY <1>3 DEF S!Grown, Buffer, Byte
  <2> HIDE DEF g
  <2> QED
    BY <1>3, <2>1, <2>2 DEF Buffer, Widens
<1> QED
  BY <1>2, <1>3 DEF Buffer

\* r is s with w in the place of what is behind position i, up to position j,
\* in memory that ends in a terminator.
Edits(s, i, w, j, r) ==
  /\ \E c \in Nat : Buffer(r, c)
  /\ r.length = i + Len(w) + (s.length - j)
  /\ \A k \in 0 .. r.length - 1 : r.bytes[k] = IF k < i THEN s.bytes[k]
                                               ELSE IF k < i + Len(w) THEN w[k - i + 1]
                                               ELSE s.bytes[k - (i + Len(w)) + j]

LEMMA InsertedEdits ==
  ASSUME NEW s, NEW cap, Buffer(s, cap), NEW i \in 0 .. s.length, NEW w \in Seq(Letter),
         s.length + Len(w) <= StrMax
  PROVE  /\ Edits(s, i, w, i, S!Inserted(s, i, w))
         /\ S!Inserted(s, i, w).bytes[S!Inserted(s, i, w).length] = Nul
<1> DEFINE n == s.length + Len(w)
           end == i + Len(w)
<1>1. /\ s.length \in Nat /\ Len(w) \in Nat /\ i \in Nat /\ n \in Nat /\ end \in Nat /\ end <= n
      /\ i <= s.length /\ s.length <= cap /\ cap \in Nat
      /\ \A j \in 1 .. Len(w) : w[j] \in Byte
  BY LenProperties, ElementOfSeq DEF Buffer, Byte
<1>2. PICK c \in Nat : n <= c /\ Widens(s, cap, S!Reserved(s, n), c)
  <2> HIDE DEF n
  <2> QED
    BY <1>1, ReservedBytes
<1> DEFINE r == S!Reserved(s, n).bytes
           moved == IF i < s.length THEN S!Memmove(r, end, i, s.length - i + 1) ELSE r
           b == [j \in DOMAIN r |-> IF j \in i .. end - 1 THEN w[j - i + 1]
                                    ELSE IF j = n THEN Nul ELSE moved[j]]
<1>3. S!Inserted(s, i, w) = [length |-> n, bytes |-> b]
  BY DEF S!Inserted
<1>4. /\ r \in [0 .. c -> Byte]
      /\ \A j \in 0 .. cap : r[j] = s.bytes[j]
      /\ \A j \in cap .. c : r[j] = Nul
      /\ n <= c /\ cap <= c
  BY <1>2 DEF Buffer, Widens
<1> HIDE DEF r
<1>5. ASSUME NEW j \in 0 .. c
      PROVE  moved[j] = IF i < s.length /\ j \in end .. n THEN r[j - end + i] ELSE r[j]
  <2>1. end + (s.length - i + 1) - 1 = n
    BY <1>1
  <2> HIDE DEF n, end
  <2> QED
    BY <1>4, <2>1 DEF S!Memmove
<1> HIDE DEF moved
<1>6. ASSUME NEW j \in 0 .. c
      PROVE  b[j] = IF j \in i .. end - 1 THEN w[j - i + 1] ELSE IF j = n THEN Nul ELSE moved[j]
  BY <1>4
<1>7. DOMAIN b = 0 .. c
  BY <1>4
<1>8. ASSUME NEW j \in 0 .. c PROVE b[j] \in Byte
  <2>1. j \in i .. end - 1 => j - i + 1 \in 1 .. Len(w)
    BY <1>1
  <2>2. j \in end .. n => j - end + i \in 0 .. c
    BY <1>1, <1>4
  <2>3. moved[j] \in Byte
    BY <1>4, <1>5, <2>2
  <2> QED
    BY <1>1, <1>6, <2>1, <2>3 DEF Byte
<1>9. b = [j \in 0 .. c |-> b[j]]
  BY <1>7
<1> HIDE DEF b
<1>10. b[c] = Nul
  <2>1. c \notin i .. end - 1
    BY <1>1, <1>4
  <2>2. c # n => moved[c] = r[c]
    <3>1. c \in 0 .. c /\ (c # n => c \notin end .. n)
      BY <1>1, <1>4
    <3> QED
      BY <1>5, <3>1
  <2>3. r[c] = Nul /\ c \in 0 .. c
    BY <1>1, <1>4
  <2>4. b[c] = IF c = n THEN Nul ELSE moved[c]
    BY <1>6, <2>1, <2>3
  <2> QED
    BY <2>2, <2>3, <2>4
<1>11. Buffer([length |-> n, bytes |-> b], c)
  BY <1>1, <1>4, <1>8, <1>9, <1>10 DEF Buffer
<1>12. b[n] = Nul
  <2>1. n \in 0 .. c /\ n \notin i .. end - 1
    BY <1>1, <1>4
  <2> QED
    BY <1>6, <2>1
<1>13. ASSUME NEW k \in 0 .. n - 1
       PROVE  b[k] = IF k < i THEN s.bytes[k] ELSE IF k < end THEN w[k - i + 1]
                     ELSE s.bytes[k - end + i]
  <2>5. n <= c
    BY <1>4
  <2>1. k \in 0 .. c /\ k # n /\ (k \in i .. end - 1 <=> ~(k < i) /\ k < end)
    BY <1>1, <2>5
  <2>2. k < i => moved[k] = s.bytes[k]
    <3>1. k < i => k \notin end .. n /\ k \in 0 .. cap
      BY <1>1
    <3> QED
      BY <1>4, <1>5, <2>1, <3>1
  <2>3. ~(k < end) => i < s.length /\ k - end + i \in 0 .. cap
    BY <1>1
  <2>4. ~(k < end) => k \in end .. n /\ moved[k] = r[k - end + i] /\ r[k - end + i] = s.bytes[k - end + i]
    <3>1. ~(k < end) => k \in end .. n
      BY <1>1, <2>1
    <3> HIDE DEF n, end
    <3> QED
      BY <1>4, <1>5, <2>1, <2>3, <3>1
  <2> QED
    BY <1>1, <1>6, <2>1, <2>2, <2>4
<1>14. n = end + (s.length - i)
  BY <1>1
<1> HIDE DEF n, end
<1> QED
  BY <1>3, <1>11, <1>12, <1>13, <1>14 DEF Edits, n, end

\* str_del of a valid range, and a turn of str_delstr_n, move the bytes from
\* j on, the terminator with them, to i.
Closing(s, i, j) == [length |-> s.length - (j - i),
                     bytes |-> S!Memmove(s.bytes, i, j, s.length - j + 1)]

LEMMA ClosingEdits ==
  ASSUME S!StrAssumption, NEW s, NEW cap, Buffer(s, cap), NEW i \in 0 .. s.length, NEW j \in i .. s.length,
         NEW r, r = Closing(s, i, j)
  PROVE  /\ Buffer(r, cap) /\ Edits(s, i, <<>>, j, r)
         /\ \A k \in i .. r.length : r.bytes[k] = s.bytes[k + (j - i)]
<1> DEFINE n == s.length - (j - i)
           b == S!Memmove(s.bytes, i, j, s.length - j + 1)
<1>1. /\ s.length \in Nat /\ i \in Nat /\ j \in Nat /\ i <= j /\ j <= s.length /\ s.length <= cap
      /\ cap \in Nat /\ s.bytes \in [0 .. cap -> Byte] /\ s.bytes[cap] = Nul /\ s.length <= StrMax
  BY DEF Buffer
<1>2. ASSUME NEW k \in 0 .. cap
      PROVE  b[k] = IF k \in i .. n THEN s.bytes[k - i + j] ELSE s.bytes[k]
  <2>1. i + (s.length - j + 1) - 1 = n
    BY <1>1
  <2> HIDE DEF n
  <2> QED
    BY <1>1, <2>1 DEF S!Memmove
<1>3. b = [k \in 0 .. cap |-> b[k]]
  BY <1>1 DEF S!Memmove
<1> HIDE DEF b
<1>4. ASSUME NEW k \in 0 .. cap PROVE b[k] \in Byte
  <2>1. k \in i .. n => k - i + j \in 0 .. cap
    BY <1>1
  <2> QED
    BY <1>1, <1>2, <2>1
<1>5. n \in 0 .. cap /\ n <= StrMax /\ n + 0 = i + 0 + (s.length - j)
  BY <1>1, StrBounds
<1>6. b[cap] = Nul
  <2>1. cap \in i .. n => cap - i + j = cap
    BY <1>1
  <2> QED
    BY <1>1, <1>2, <2>1
<1>7. Buffer([length |-> n, bytes |-> b], cap)
  BY <1>1, <1>3, <1>4, <1>5, <1>6 DEF Buffer
<1>8. r = [length |-> n, bytes |-> b]
  BY DEF Closing, b
<1>9. ASSUME NEW k \in i .. n PROVE b[k] = s.bytes[k + (j - i)]
  <2>1. k \in 0 .. cap /\ k - i + j = k + (j - i)
    BY <1>1
  <2> QED
    BY <1>2, <2>1
<1>10. ASSUME NEW k \in 0 .. n - 1
       PROVE  b[k] = IF k < i THEN s.bytes[k] ELSE IF k < i + 0 THEN <<>>[k - i + 1]
                     ELSE s.bytes[k - (i + 0) + j]
  <2>1. /\ k \in 0 .. cap /\ (k < i <=> k \notin i .. n) /\ (k < i + 0 <=> k < i)
        /\ k - (i + 0) + j = k - i + j
    BY <1>1
  <2> QED
    BY <1>2, <2>1
<1>11. Len(<<>>) = 0
  OBVIOUS
<1> HIDE DEF n
<1> QED
  BY <1>1, <1>5, <1>7, <1>8, <1>9, <1>10, <1>11 DEF Edits

\* The range of str_del is valid, and nothing wraps.
LEMMA DeletedCloses ==
  ASSUME S!StrAssumption, NEW s, NEW cap, Buffer(s, cap), NEW i \in Nat, i < s.length,
         NEW n \in Nat, i + n <= s.length
  PROVE  S!Deleted(s, i, n) = Closing(s, i, i + n)
<1>1. s.length \in Nat /\ s.length + 1 < Word /\ Word \in Nat
  BY DEF Buffer, S!StrAssumption
<1>1a. /\ i + n \in Nat /\ i + n < Word /\ s.length - n \in Nat /\ s.length - n < Word
       /\ s.length - i - n + 1 \in Nat /\ s.length - i - n + 1 < Word
  BY <1>1
<1>2. /\ (i + n) % Word = i + n /\ (s.length - n) % Word = s.length - n
      /\ (s.length - i - n + 1) % Word = s.length - i - n + 1
  BY <1>1, <1>1a, SmallMod
<1>3. s.length - n = s.length - (i + n - i) /\ s.length - i - n + 1 = s.length - (i + n) + 1
  BY <1>1
<1>4. ~S!InvalidRange(s, i, n)
  BY <1>1, <1>2 DEF S!InvalidRange
<1> QED
  BY <1>2, <1>3, <1>4 DEF S!Deleted, Closing

-----------------------------------------------------------------------------
\* Str: the searches.

\* w is at position i of t.
Occurs(t, w, i) == \A k \in 1 .. Len(w) : t[i + k] = w[k]

LEMMA MatchesIs ==
  ASSUME NEW T, NEW t \in Seq(T), NEW w \in Seq(T), NEW i \in 0 .. Len(t) - Len(w)
  PROVE  S!MatchesAt(t, w, i) <=> Occurs(t, w, i)
<1> DEFINE m == i + 1
           j == i + Len(w)
           v == SubSeq(t, m, j)
<1>1. /\ Len(t) \in Nat /\ Len(w) \in Nat /\ i \in Nat /\ m \in Int /\ j \in Int /\ i + Len(w) <= Len(t)
      /\ \A k \in 1 .. Len(t) : t[k] \in T
  BY LenProperties, ElementOfSeq
<1>2. m \in Int /\ j \in Int /\ \A k \in m .. j : t[k] \in T
  BY <1>1
<1>3. /\ v \in Seq(T) /\ Len(v) = IF m <= j THEN j - m + 1 ELSE 0
      /\ \A k \in 1 .. j - m + 1 : v[k] = t[m + k - 1]
  <2> HIDE DEF m, j
  <2> QED
    BY <1>2, SubSeqProperties
<1>4. S!MatchesAt(t, w, i) <=> v = w
  BY DEF S!MatchesAt, S!View
<1> HIDE DEF v
<1>5. Len(v) = Len(w) /\ \A k \in 1 .. Len(w) : v[k] = t[i + k]
  BY <1>1, <1>3
<1>6. (\A k \in 1 .. Len(w) : v[k] = w[k]) => v = w
  BY <1>3, <1>5, SeqEqual
<1> QED
  BY <1>4, <1>5, <1>6 DEF Occurs

\* p is the first position of w in t, or none.
FirstAt(t, w, p) ==
  \/ /\ p \in 0 .. Len(t) - Len(w) /\ S!MatchesAt(t, w, p)
     /\ \A i \in 0 .. p - 1 : ~S!MatchesAt(t, w, i)
  \/ p = S!Npos /\ \A i \in 0 .. Len(t) - Len(w) : ~S!MatchesAt(t, w, i)

LEMMA CstrIndexIs ==
  ASSUME NEW T, NEW t \in Seq(T), NEW w \in Seq(T)
  PROVE  FirstAt(t, w, S!CstrIndex(t, w))
<1> DEFINE at == {i \in 0 .. Len(t) - Len(w) : S!MatchesAt(t, w, i)}
<1>1. S!CstrIndex(t, w) = IF at = {} THEN S!Npos ELSE S!Min(at)
  BY DEF S!CstrIndex
<1>2. Len(t) \in Nat /\ Len(w) \in Nat
  BY LenProperties
<1>3. at \in SUBSET Nat
  BY <1>2
<1>4. CASE at = {}
  BY <1>1, <1>4 DEF FirstAt
<1>5. CASE at # {}
  <2> DEFINE p == S!Min(at)
  <2>1. p \in at /\ \A i \in at : p <= i
    <3> HIDE DEF at
    <3> QED
      BY <1>3, <1>5, MinOfNats
  <2>2. S!CstrIndex(t, w) = p
    BY <1>1, <1>5
  <2> HIDE DEF p
  <2>3. p \in 0 .. Len(t) - Len(w) /\ S!MatchesAt(t, w, p)
    BY <2>1
  <2>4. ASSUME NEW i \in 0 .. p - 1 PROVE ~S!MatchesAt(t, w, i)
    <3>1. i \in 0 .. Len(t) - Len(w) /\ ~(p <= i)
      BY <1>2, <2>3
    <3> QED
      BY <2>1, <3>1
  <2> QED
    BY <2>2, <2>3, <2>4 DEF FirstAt
<1> QED
  BY <1>4, <1>5

\* The C string ends at the first terminator, which the memory has.
LEMMA CCharsAre ==
  ASSUME NEW s, NEW cap, Buffer(s, cap)
  PROVE  /\ S!CChars(s) \in Seq(Byte) /\ Len(S!CChars(s)) \in 0 .. cap
         /\ S!CChars(s) = S!Items(s.bytes, 0, Len(S!CChars(s)))
         /\ s.bytes[Len(S!CChars(s))] = Nul
         /\ \A i \in 0 .. cap : s.bytes[i] = Nul => Len(S!CChars(s)) <= i
<1> DEFINE nuls == {i \in DOMAIN s.bytes : s.bytes[i] = Nul}
           f == S!Min(nuls)
<1>1. /\ cap \in Nat /\ s.bytes \in [0 .. cap -> Byte] /\ s.bytes[cap] = Nul
      /\ DOMAIN s.bytes = 0 .. cap
  BY DEF Buffer
<1>2. nuls \in SUBSET Nat /\ nuls # {}
  BY <1>1
<1>3. f \in nuls /\ \A i \in nuls : f <= i
  <2> HIDE DEF nuls
  <2> QED
    BY <1>2, MinOfNats
<1>4a. S!CChars(s) = S!Items(s.bytes, 0, f)
  BY DEF S!CChars
<1>4. S!CChars(s) = [j \in 1 .. f |-> s.bytes[0 + j - 1]]
  BY DEF S!CChars, S!Items
<1> HIDE DEF f
<1>5. f \in 0 .. cap
  BY <1>1, <1>3
<1>6. ASSUME NEW j \in 1 .. f PROVE s.bytes[0 + j - 1] \in Byte
  <2>1. 0 + j - 1 \in 0 .. cap
    BY <1>1, <1>5
  <2> QED
    BY <1>1, <2>1
<1>7. S!CChars(s) \in Seq(Byte) /\ Len(S!CChars(s)) = f
  BY <1>4, <1>5, <1>6
<1> QED
  BY <1>1, <1>3, <1>4a, <1>5, <1>7

-----------------------------------------------------------------------------
\* Str: str_delstr_n.

\* The C string of s ends within its length.
Ended(s) == \E i \in 0 .. s.length : s.bytes[i] = Nul

LEMMA DelstrTurnKeeps ==
  ASSUME S!StrAssumption, NEW s, NEW cap, Buffer(s, cap), Ended(s), NEW w \in Seq(Letter), w # <<>>
  PROVE  Buffer(S!DelstrTurn(s, w), cap) /\ Ended(S!DelstrTurn(s, w))
<1> DEFINE t == S!CChars(s)
           p == S!CstrIndex(t, w)
           j == p + Len(w)
           r == Closing(s, p, j)
<1>1. /\ w \in Seq(Byte) /\ Len(w) \in Nat /\ Len(w) # 0 /\ s.length \in Nat /\ s.length <= cap
      /\ cap \in Nat
  BY EmptySeq, LenProperties DEF Byte, Buffer
<1>2. /\ t \in Seq(Byte) /\ Len(t) \in 0 .. cap /\ s.bytes[Len(t)] = Nul
      /\ \A i \in 0 .. cap : s.bytes[i] = Nul => Len(t) <= i
  BY CCharsAre
<1>3. Len(t) <= s.length
  BY <1>1, <1>2 DEF Ended
<1>4. CASE p = S!Npos
  BY <1>4 DEF S!DelstrTurn
<1>5. CASE p # S!Npos
  <2>1. FirstAt(t, w, p)
    <3> HIDE DEF t
    <3> QED
      BY <1>1, <1>2, CstrIndexIs
  <2>2. p \in 0 .. Len(t) - Len(w)
    BY <1>5, <2>1 DEF FirstAt
  <2>3. S!DelstrTurn(s, w) = r
    <3>1. s.length - Len(w) = s.length - (j - p) /\ s.length - p - Len(w) + 1 = s.length - j + 1
      BY <1>1, <1>2, <2>2
    <3> QED
      BY <1>5, <3>1 DEF S!DelstrTurn, Closing
  <2> HIDE DEF p, t
  <2>4. p \in 0 .. s.length /\ j \in p .. s.length /\ j - p = Len(w)
    BY <1>1, <1>2, <1>3, <2>2
  <2> HIDE DEF j
  <2>5. Buffer(r, cap) /\ \A k \in p .. r.length : r.bytes[k] = s.bytes[k + (j - p)]
    BY <2>4, ClosingEdits
  <2>6. r.length = s.length - (j - p)
    BY DEF Closing
  <2>7. Ended(r)
    <3> DEFINE k == Len(t) - Len(w)
    <3>1. k \in p .. r.length /\ k \in 0 .. r.length /\ k + (j - p) = Len(t)
      BY <1>1, <1>2, <1>3, <2>2, <2>4, <2>6
    <3> HIDE DEF k, r
    <3>2. r.bytes[k] = Nul
      BY <1>2, <2>5, <3>1
    <3> QED
      BY <3>1, <3>2 DEF Ended
  <2> QED
    BY <2>3, <2>5, <2>7
<1> QED
  BY <1>4, <1>5

\* The loop of str_delstr_n is a function.
LEMMA DelstrLoop ==
  ASSUME NEW s, s.length \in Nat, NEW w
  PROVE  /\ S!DelstrTurns(s, w)[0] = s
         /\ \A i \in 1 .. s.length : S!DelstrTurns(s, w)[i] = S!DelstrTurn(S!DelstrTurns(s, w)[i - 1], w)
<1> DEFINE n == s.length
           Loop(g, j) == g = [i \in 0 .. j |-> IF i = 0 THEN s ELSE S!DelstrTurn(g[i - 1], w)]
           Z == {j \in Nat : \E g : Loop(g, j)}
<1>1. 0 \in Z
  <2>1. Loop([i \in 0 .. 0 |-> s], 0)
    OBVIOUS
  <2> QED
    BY <2>1
<1>2. ASSUME NEW j \in 1 .. n, j - 1 \in Z PROVE j \in Z
  <2>1. PICK g : Loop(g, j - 1)
    BY <1>2
  <2> DEFINE h == [i \in 0 .. j |-> IF i < j THEN g[i] ELSE S!DelstrTurn(g[j - 1], w)]
  <2>2. ASSUME NEW i \in 0 .. j
        PROVE  h[i] = IF i = 0 THEN s ELSE S!DelstrTurn(h[i - 1], w)
    BY <2>1
  <2>3. h = [i \in 0 .. j |-> h[i]]
    OBVIOUS
  <2> HIDE DEF h
  <2>4. Loop(h, j)
    BY <2>2, <2>3
  <2> QED
    BY <2>4
<1> HIDE DEF Z
<1>3. n \in Z
  BY <1>1, <1>2, InductionUpTo
<1>4. \E g : g = [i \in 0 .. n |-> IF i = 0 THEN s ELSE S!DelstrTurn(g[i - 1], w)]
  BY <1>3 DEF Z
<1>5. S!DelstrTurns(s, w)
        = [i \in 0 .. n |-> IF i = 0 THEN s ELSE S!DelstrTurn(S!DelstrTurns(s, w)[i - 1], w)]
  BY <1>4 DEF S!DelstrTurns
<1> QED
  BY <1>5

LEMMA DelstrKeeps ==
  ASSUME S!StrAssumption, NEW s, NEW cap, Buffer(s, cap), Ended(s), NEW w \in Seq(Letter), w # <<>>
  PROVE  Buffer(S!Delstred(s, w), cap)
<1> DEFINE u == S!DelstrTurns(s, w)
           Z == {i \in 0 .. s.length : Buffer(u[i], cap) /\ Ended(u[i])}
<1>1. s.length \in Nat
  BY DEF Buffer
<1>2. u[0] = s /\ \A i \in 1 .. s.length : u[i] = S!DelstrTurn(u[i - 1], w)
  BY <1>1, DelstrLoop
<1> HIDE DEF u
<1>3. 0 \in Z
  BY <1>1, <1>2
<1>4. ASSUME NEW i \in 1 .. s.length, i - 1 \in Z PROVE i \in Z
  <2>1. Buffer(u[i - 1], cap) /\ Ended(u[i - 1])
    BY <1>4
  <2>2. Buffer(S!DelstrTurn(u[i - 1], w), cap) /\ Ended(S!DelstrTurn(u[i - 1], w))
    BY <2>1, DelstrTurnKeeps
  <2> QED
    BY <1>1, <1>2, <2>2
<1> HIDE DEF Z
<1>5. 0 .. s.length \subseteq Z
  BY <1>1, <1>3, <1>4, InductionUpTo
<1>6. s.length \in Z
  BY <1>1, <1>5
<1> QED
  BY <1>6 DEF Z, u, S!Delstred

-----------------------------------------------------------------------------
\* Str: the text.

LEMMA TextIs ==
  ASSUME NEW s, NEW cap, Buffer(s, cap)
  PROVE  /\ S!Chars(s) \in Seq(Byte) /\ Len(S!Chars(s)) = s.length
         /\ \A k \in 1 .. s.length : S!Chars(s)[k] = s.bytes[k - 1]
<1>1. S!Chars(s) = [j \in 1 .. s.length |-> s.bytes[0 + j - 1]]
  BY DEF S!Chars, S!Items
<1>2. s.length \in Nat /\ \A j \in 1 .. s.length : s.bytes[0 + j - 1] \in Byte
  BY DEF Buffer
<1>3. S!Chars(s) \in Seq(Byte) /\ Len(S!Chars(s)) = s.length
  BY <1>1, <1>2
<1> QED
  BY <1>1, <1>2, <1>3

LEMMA EditsText ==
  ASSUME NEW s, NEW cap, Buffer(s, cap), NEW i \in 0 .. s.length, NEW j \in i .. s.length,
         NEW w \in Seq(Byte), NEW r, Edits(s, i, w, j, r)
  PROVE  S!Chars(r) = Spliced(S!Chars(s), i, w, j)
<1> DEFINE t == S!Chars(s)
           u == S!Chars(r)
           v == Spliced(t, i, w, j)
<1>1. t \in Seq(Byte) /\ Len(t) = s.length /\ \A k \in 1 .. s.length : t[k] = s.bytes[k - 1]
  BY TextIs
<1>2. u \in Seq(Byte) /\ Len(u) = r.length /\ \A k \in 1 .. r.length : u[k] = r.bytes[k - 1]
  BY TextIs DEF Edits
<1>3. s.length \in Nat /\ Len(w) \in Nat
  BY LenProperties DEF Buffer
<1>4. Splices(Byte, t, i, w, j, v)
  <2> HIDE DEF t
  <2>1. i \in 0 .. Len(t) /\ j \in i .. Len(t)
    BY <1>1
  <2> QED
    BY <1>1, <2>1, SplicedIs
<1> HIDE DEF t, u, v
<1>5. r.length = i + Len(w) + (s.length - j)
  BY DEF Edits
<1>6. v \in Seq(Byte) /\ Len(v) = r.length
  BY <1>1, <1>4, <1>5 DEF Splices
<1>7. ASSUME NEW k \in 1 .. r.length PROVE u[k] = v[k]
  <2> DEFINE h == k - 1
  <2>1. /\ h \in 0 .. r.length - 1 /\ (h < i <=> k <= i) /\ (h < i + Len(w) <=> k <= i + Len(w))
        /\ (k <= i => k \in 1 .. s.length) /\ h - i + 1 = k - i
        /\ h - (i + Len(w)) + j = k - (i + Len(w)) + j - 1
        /\ (~(k <= i + Len(w)) => k - (i + Len(w)) + j \in 1 .. s.length)
    BY <1>3, <1>5
  <2>2. v[k] = IF k <= i THEN t[k] ELSE IF k <= i + Len(w) THEN w[k - i]
               ELSE t[k - (i + Len(w)) + j]
    BY <1>4, <1>6 DEF Splices
  <2>3. u[k] = r.bytes[h]
    BY <1>2
  <2> HIDE DEF h
  <2>4. r.bytes[h] = IF h < i THEN s.bytes[h] ELSE IF h < i + Len(w) THEN w[h - i + 1]
                     ELSE s.bytes[h - (i + Len(w)) + j]
    BY <2>1 DEF Edits
  <2>5. k <= i => t[k] = s.bytes[h]
    BY <1>1, <2>1 DEF h
  <2>6. ~(k <= i + Len(w)) => t[k - (i + Len(w)) + j] = s.bytes[h - (i + Len(w)) + j]
    BY <1>1, <2>1
  <2> QED
    BY <2>1, <2>2, <2>3, <2>4, <2>5, <2>6
<1>8. u = v
  BY <1>2, <1>6, <1>7, SeqEqual
<1> QED
  BY <1>8 DEF t, u, v

\* Out with what is at i to j - 1, then in with w.
LEMMA EditsTwice ==
  ASSUME NEW s, NEW cap, Buffer(s, cap), NEW i \in 0 .. s.length, NEW j \in i .. s.length,
         NEW d, Edits(s, i, <<>>, j, d), NEW w \in Seq(Byte), NEW r, Edits(d, i, w, i, r)
  PROVE  Edits(s, i, w, j, r)
<1>1. /\ s.length \in Nat /\ i \in Nat /\ j \in Nat /\ Len(w) \in Nat /\ i <= j /\ j <= s.length
      /\ Len(<<>>) = 0
  BY LenProperties DEF Buffer
<1>2. /\ d.length = i + 0 + (s.length - j)
      /\ \A k \in 0 .. d.length - 1 : d.bytes[k] = IF k < i THEN s.bytes[k]
                                                   ELSE IF k < i + 0 THEN <<>>[k - i + 1]
                                                   ELSE s.bytes[k - (i + 0) + j]
  BY <1>1 DEF Edits
<1>3. /\ \E c \in Nat : Buffer(r, c)
      /\ r.length = i + Len(w) + (d.length - i)
      /\ \A k \in 0 .. r.length - 1 : r.bytes[k] = IF k < i THEN d.bytes[k]
                                                   ELSE IF k < i + Len(w) THEN w[k - i + 1]
                                                   ELSE d.bytes[k - (i + Len(w)) + i]
  BY DEF Edits
<1>4. r.length = i + Len(w) + (s.length - j)
  BY <1>1, <1>2, <1>3
<1>5. ASSUME NEW k \in 0 .. r.length - 1
      PROVE  r.bytes[k] = IF k < i THEN s.bytes[k] ELSE IF k < i + Len(w) THEN w[k - i + 1]
                          ELSE s.bytes[k - (i + Len(w)) + j]
  <2>1. k < i => k \in 0 .. d.length - 1
    BY <1>1, <1>2
  <2> DEFINE h == k - (i + Len(w)) + i
  <2>2. ~(k < i + Len(w)) => /\ h \in 0 .. d.length - 1 /\ ~(h < i) /\ ~(h < i + 0) /\ ~(k < i)
                             /\ h - (i + 0) + j = k - (i + Len(w)) + j
    BY <1>1, <1>2, <1>4
  <2>3. k < i => d.bytes[k] = s.bytes[k]
    BY <1>2, <2>1
  <2>4. r.bytes[k] = IF k < i THEN d.bytes[k] ELSE IF k < i + Len(w) THEN w[k - i + 1] ELSE d.bytes[h]
    BY <1>3
  <2> HIDE DEF h
  <2>5. ~(k < i + Len(w)) => d.bytes[h] = s.bytes[k - (i + Len(w)) + j]
    BY <1>2, <2>2
  <2> QED
    BY <2>2, <2>3, <2>4, <2>5
<1> QED
  BY <1>3, <1>4, <1>5 DEF Edits

\* The words of EditsActOnText.
LEMMA ViewsOfSplice ==
  ASSUME NEW T, NEW t \in Seq(T), NEW i \in 0 .. Len(t), NEW j \in i .. Len(t), NEW w \in Seq(T)
  PROVE  /\ S!View(t, 0, i) \o w \o S!View(t, j, Len(t)) = Spliced(t, i, w, j)
         /\ S!View(t, 0, i) \o S!View(t, j, Len(t)) = Spliced(t, i, <<>>, j)
<1>1. SubSeq(t, 1, i) \in Seq(T)
  BY FirstPart
<1>2. SubSeq(t, 1, i) \o <<>> = SubSeq(t, 1, i)
  BY <1>1, ConcatEmptySeq
<1>3. 0 + 1 = 1
  OBVIOUS
<1>4. S!View(t, 0, i) = SubSeq(t, 1, i) /\ S!View(t, j, Len(t)) = SubSeq(t, j + 1, Len(t))
  BY <1>3 DEF S!View
<1> QED
  BY <1>2, <1>4, Zenon DEF Spliced

\* What is found at i splits the text.
LEMMA SplicedItself ==
  ASSUME NEW T, NEW t \in Seq(T), NEW w \in Seq(T), NEW i \in 0 .. Len(t) - Len(w),
         S!MatchesAt(t, w, i)
  PROVE  t = Spliced(t, i, w, i + Len(w))
<1>4. \A k \in 1 .. Len(w) : t[i + k] = w[k]
  BY MatchesIs DEF Occurs
<1> DEFINE j == i + Len(w)
           v == Spliced(t, i, w, j)
<1>1. Len(t) \in Nat /\ Len(w) \in Nat /\ i \in 0 .. Len(t) /\ j \in i .. Len(t)
  BY LenProperties
<1>2. Splices(T, t, i, w, j, v)
  <2> HIDE DEF j
  <2> QED
    BY <1>1, SplicedIs
<1> HIDE DEF v
<1>3. v \in Seq(T) /\ Len(v) = Len(t)
  BY <1>1, <1>2 DEF Splices
<1>5. ASSUME NEW k \in 1 .. Len(t) PROVE v[k] = t[k]
  <2>1. v[k] = IF k <= i THEN t[k] ELSE IF k <= i + Len(w) THEN w[k - i] ELSE t[k - (i + Len(w)) + j]
    BY <1>2, <1>3 DEF Splices
  <2>2. k - (i + Len(w)) + j = k /\ (~(k <= i) /\ k <= i + Len(w) => k - i \in 1 .. Len(w))
        /\ i + (k - i) = k
    BY <1>1
  <2>3. ~(k <= i) /\ k <= i + Len(w) => w[k - i] = t[k]
    BY <1>4, <2>2
  <2> QED
    BY <2>1, <2>2, <2>3
<1>6. t = v
  BY <1>3, <1>5, SeqEqual
<1> QED
  BY <1>6 DEF v

-----------------------------------------------------------------------------
\* Str: the steps.

StrInv == str = S!NoStr \/ \E cap \in Nat : Buffer(str, cap)

LEMMA BufferIsStr ==
  ASSUME NEW s, NEW cap, Buffer(s, cap)
  PROVE  s # S!NoStr
<1>1. 0 \in DOMAIN s.bytes
  BY DEF Buffer
<1>2. DOMAIN S!NoStr.bytes = {}
  BY DEF S!NoStr
<1> QED
  BY <1>1, <1>2

LEMMA WordsAre ==
  ASSUME NEW w \in S!Words
  PROVE  w \in Seq(Letter) /\ w \in Seq(Byte) /\ (S!StrAssumption => Len(w) \in 0 .. MaxWord)
<1>1. PICK n \in 0 .. MaxWord : w \in [1 .. n -> Letter]
  BY DEF S!Words
<1> QED
  BY <1>1 DEF S!StrAssumption, Byte

LEMMA CreateStrStep ==
  ASSUME S!StrAssumption, NEW n \in 0 .. MaxWord, NEW w \in S!Words, S!Create(n, w)
  PROVE  StrInv'
<1> DEFINE cap == IF n = 0 THEN StrDefault ELSE 2 * n
           s == [length |-> 0, bytes |-> [i \in 0 .. cap |-> Nul]]
<1>1. cap \in Nat /\ n \in Nat
  BY StrBounds
<1>2. Buffer(s, cap)
  <2> HIDE DEF cap
  <2> QED
    BY <1>1, StrBounds DEF Buffer, Byte
<1>3. str' = S!Inserted(s, 0, w) /\ s.length = 0
  BY DEF S!Create
<1>4. w \in Seq(Letter) /\ 0 + Len(w) <= StrMax
  BY WordsAre, StrBounds DEF S!StrAssumption
<1> HIDE DEF s, cap
<1>5. 0 \in 0 .. s.length
  BY <1>3
<1>6. Edits(s, 0, w, 0, S!Inserted(s, 0, w))
  BY <1>2, <1>3, <1>4, <1>5, InsertedEdits
<1> QED
  BY <1>3, <1>6 DEF Edits, StrInv

LEMMA InsStrStep ==
  ASSUME StrInv, NEW i \in S!Offsets, NEW w \in S!Words, S!Ins(i, w)
  PROVE  /\ StrInv' /\ S!Closed'
         /\ S!Text' = S!View(S!Text, 0, i) \o w \o S!View(S!Text, i, Len(S!Text))
<1>1. PICK cap \in Nat : Buffer(str, cap)
  BY DEF StrInv, S!Ins
<1>2. /\ i \in 0 .. str.length /\ i \in i .. str.length /\ w \in Seq(Letter) /\ w \in Seq(Byte)
      /\ str.length + Len(w) <= StrMax /\ str' = S!Inserted(str, i, w)
  BY <1>1, WordsAre DEF S!Offsets, S!Ins
<1>3. Edits(str, i, w, i, str') /\ str'.bytes[str'.length] = Nul
  BY <1>1, <1>2, InsertedEdits
<1>4. StrInv' /\ S!Closed'
  BY <1>3, BufferIsStr DEF Edits, StrInv, S!Closed
<1>5. S!Chars(str') = Spliced(S!Chars(str), i, w, i)
  BY <1>1, <1>2, <1>3, EditsText
<1>6. S!Chars(str) \in Seq(Byte) /\ i \in 0 .. Len(S!Chars(str)) /\ i \in i .. Len(S!Chars(str))
  BY <1>1, <1>2, TextIs
<1>7. S!View(S!Chars(str), 0, i) \o w \o S!View(S!Chars(str), i, Len(S!Chars(str)))
        = Spliced(S!Chars(str), i, w, i)
  BY <1>2, <1>6, ViewsOfSplice
<1> QED
  BY <1>4, <1>5, <1>7 DEF S!Text

\* A deletion of what is not there leaves the string unchanged.
LEMMA NothingDeleted ==
  ASSUME NEW s, NEW cap, Buffer(s, cap), NEW i \in 0 .. s.length, NEW n, S!InvalidRange(s, i, n)
  PROVE  S!Deleted(s, i, n) = s /\ Edits(s, i, <<>>, i, s)
<1>1. s.length \in Nat /\ Len(<<>>) = 0
  BY DEF Buffer
<1>2. s.length = i + 0 + (s.length - i)
  BY <1>1
<1>3. ASSUME NEW k \in 0 .. s.length - 1
      PROVE  s.bytes[k] = IF k < i THEN s.bytes[k] ELSE IF k < i + 0 THEN <<>>[k - i + 1]
                          ELSE s.bytes[k - (i + 0) + i]
  <2>1. (k < i + 0 <=> k < i) /\ k - (i + 0) + i = k
    BY <1>1
  <2> QED
    BY <2>1
<1>4. cap \in Nat
  BY DEF Buffer
<1> QED
  BY <1>1, <1>2, <1>3, <1>4 DEF S!Deleted, Edits

LEMMA DeletedEdits ==
  ASSUME S!StrAssumption, NEW s, NEW cap, Buffer(s, cap), NEW i \in 0 .. s.length,
         NEW n \in Nat, i + n <= s.length
  PROVE  LET d == S!Deleted(s, i, n)
         IN  Buffer(d, cap) /\ Edits(s, i, <<>>, i + n, d) /\ d.bytes[d.length] = s.bytes[s.length]
<1> DEFINE d == S!Deleted(s, i, n)
           j == i + n
<1>1. s.length \in Nat /\ i \in Nat /\ j \in i .. s.length /\ j - i = n
  BY DEF Buffer
<1>2. CASE i < s.length
  <2>1. d = Closing(s, i, j)
    BY <1>1, <1>2, DeletedCloses
  <2> HIDE DEF d, j
  <2>2. /\ Buffer(d, cap) /\ Edits(s, i, <<>>, j, d)
        /\ \A k \in i .. d.length : d.bytes[k] = s.bytes[k + (j - i)]
    BY <1>1, <2>1, ClosingEdits
  <2>3. d.length = s.length - (j - i)
    BY <2>1 DEF Closing
  <2>4. d.length \in i .. d.length /\ d.length + (j - i) = s.length
    BY <1>1, <2>3
  <2> QED
    BY <2>2, <2>4 DEF d, j
<1>3. CASE ~(i < s.length)
  <2>1. i = s.length /\ n = 0 /\ j = i /\ S!InvalidRange(s, i, n)
    BY <1>1, <1>3 DEF S!InvalidRange
  <2> HIDE DEF j
  <2>2. d = s /\ Edits(s, i, <<>>, i, s)
    BY <2>1, NothingDeleted
  <2> QED
    BY <2>1, <2>2 DEF j
<1> QED
  BY <1>2, <1>3

LEMMA DelStrStep ==
  ASSUME S!StrAssumption, StrInv, NEW i \in S!Offsets, NEW n \in Count, S!Del(i, n)
  PROVE  /\ StrInv'
         /\ i + n <= Len(S!Text) =>
              /\ S!Text' = S!View(S!Text, 0, i) \o S!View(S!Text, i + n, Len(S!Text))
              /\ S!Closed' = S!Closed
<1>1. PICK cap \in Nat : Buffer(str, cap)
  BY DEF StrInv, S!Del
<1>2. i \in 0 .. str.length /\ n \in Nat /\ str' = S!Deleted(str, i, n) /\ StrMax + n < Word /\ Word \in Nat
  BY DEF S!Offsets, S!Del, S!StrAssumption
<1>3. str.length \in Nat /\ str.length <= StrMax /\ StrMax \in Nat
  BY <1>1, StrBounds DEF Buffer
<1>4. S!Chars(str) \in Seq(Byte) /\ Len(S!Chars(str)) = str.length
  BY <1>1, TextIs
<1>5. CASE i + n <= str.length
  <2> DEFINE j == i + n
  <2>1. j \in i .. str.length
    BY <1>2, <1>3, <1>5
  <2>2. Buffer(str', cap) /\ Edits(str, i, <<>>, j, str') /\ str'.bytes[str'.length] = str.bytes[str.length]
    BY <1>1, <1>2, <1>5, DeletedEdits
  <2> HIDE DEF j
  <2>3. S!Chars(str') = Spliced(S!Chars(str), i, <<>>, j)
    BY <1>1, <1>2, <2>1, <2>2, EmptySeq, EditsText
  <2>4. S!View(S!Chars(str), 0, i) \o S!View(S!Chars(str), j, Len(S!Chars(str)))
          = Spliced(S!Chars(str), i, <<>>, j)
    <3> DEFINE t == S!Chars(str)
    <3>1. t \in Seq(Byte) /\ i \in 0 .. Len(t) /\ j \in i .. Len(t)
      BY <1>2, <1>4, <2>1
    <3> HIDE DEF t
    <3>2. S!View(t, 0, i) \o S!View(t, j, Len(t)) = Spliced(t, i, <<>>, j)
      BY <3>1, EmptySeq, ViewsOfSplice
    <3> QED
      BY <3>2 DEF t
  <2>5. StrInv' /\ S!Closed' = S!Closed
    BY <1>1, <2>2, BufferIsStr DEF StrInv, S!Closed
  <2> QED
    BY <2>3, <2>4, <2>5 DEF S!Text, j
<1>6. CASE ~(i + n <= str.length)
  <2>1. i + n \in Nat /\ i + n < Word
    BY <1>2, <1>3
  <2>2. (i + n) % Word = i + n
    BY <1>2, <2>1, SmallMod
  <2>3. S!InvalidRange(str, i, n)
    BY <1>2, <1>3, <1>6, <2>2 DEF S!InvalidRange
  <2>4. str' = str
    BY <1>2, <2>3 DEF S!Deleted
  <2> QED
    BY <1>4, <1>6, <2>4 DEF StrInv, S!Text
<1> QED
  BY <1>5, <1>6

\* What str_replace does to the text.
Replaced(old, new) ==
  \E i \in S!Offsets :
    /\ S!Text = S!View(S!Text, 0, i) \o old \o S!View(S!Text, i + Len(old), Len(S!Text))
    /\ S!Text' = S!View(S!Text, 0, i) \o new \o S!View(S!Text, i + Len(old), Len(S!Text))

LEMMA ReplaceStrStep ==
  ASSUME S!StrAssumption, StrInv, NEW old \in S!Words, NEW new \in S!Words, S!Replace(old, new)
  PROVE  StrInv' /\ S!Closed' /\ Replaced(old, new)
<1> DEFINE t == S!Chars(str)
           i == S!CstrIndex(t, old)
           j == i + Len(old)
           d == S!Deleted(str, i, Len(old))
<1>1. PICK cap \in Nat : Buffer(str, cap)
  BY DEF StrInv, S!Replace
<1>2. /\ i # S!Npos /\ str.length - Len(old) + Len(new) <= StrMax
      /\ str' = S!Inserted(d, i, new)
  BY DEF S!Replace
<1>3. /\ old \in Seq(Byte) /\ new \in Seq(Byte) /\ new \in Seq(Letter)
      /\ Len(old) \in Nat /\ Len(new) \in Nat /\ str.length \in Nat
  BY <1>1, WordsAre, LenProperties DEF Buffer
<1>4. t \in Seq(Byte) /\ Len(t) = str.length
  BY <1>1, TextIs
<1> HIDE DEF t
<1>5. FirstAt(t, old, i)
  BY <1>3, <1>4, CstrIndexIs
<1>6. i \in 0 .. Len(t) - Len(old) /\ S!MatchesAt(t, old, i)
  BY <1>2, <1>5 DEF FirstAt
<1> HIDE DEF i
<1>7. i \in 0 .. str.length /\ j \in i .. str.length /\ j <= str.length
  BY <1>3, <1>4, <1>6
<1>8. Buffer(d, cap) /\ Edits(str, i, <<>>, j, d)
  BY <1>1, <1>3, <1>7, DeletedEdits
<1>9. t = Spliced(t, i, old, j)
  BY <1>3, <1>4, <1>6, SplicedItself
<1> HIDE DEF d, j
<1>10. d.length = i + 0 + (str.length - j) /\ j = i + Len(old)
  BY <1>8 DEF Edits, j
<1>11. i \in 0 .. d.length /\ d.length + Len(new) <= StrMax
  BY <1>2, <1>3, <1>7, <1>10
<1>12. Edits(d, i, new, i, str') /\ str'.bytes[str'.length] = Nul
  BY <1>2, <1>3, <1>8, <1>11, InsertedEdits
<1>13. Edits(str, i, new, j, str')
  BY <1>1, <1>3, <1>7, <1>8, <1>12, EditsTwice
<1>14. S!Chars(str') = Spliced(t, i, new, j)
  BY <1>1, <1>3, <1>7, <1>13, EditsText DEF t
<1>15. i \in 0 .. Len(t) /\ j \in i .. Len(t)
  BY <1>4, <1>7
<1>16. /\ S!View(t, 0, i) \o old \o S!View(t, j, Len(t)) = Spliced(t, i, old, j)
       /\ S!View(t, 0, i) \o new \o S!View(t, j, Len(t)) = Spliced(t, i, new, j)
  BY <1>3, <1>4, <1>15, ViewsOfSplice
<1>17. StrInv' /\ S!Closed'
  BY <1>12, BufferIsStr DEF Edits, StrInv, S!Closed
<1>18. i \in S!Offsets
  BY <1>7 DEF S!Offsets
<1> QED
  BY <1>9, <1>14, <1>16, <1>17, <1>18 DEF Replaced, S!Text, t, j

LEMMA DelstrStrStep ==
  ASSUME S!StrAssumption, StrInv, NEW w \in S!Words, S!Delstr(w)
  PROVE  StrInv'
<1>1. PICK cap \in Nat : Buffer(str, cap)
  BY DEF StrInv, S!Delstr
<1>2. Len(S!CChars(str)) \in 0 .. cap /\ str.bytes[Len(S!CChars(str))] = Nul
  BY <1>1, CCharsAre
<1>3. Len(S!CChars(str)) \in 0 .. str.length
  BY <1>1, <1>2 DEF S!Delstr, Buffer
<1>4. Ended(str)
  BY <1>2, <1>3 DEF Ended
<1>5. w \in Seq(Letter) /\ w # <<>> /\ str' = S!Delstred(str, w)
  BY WordsAre DEF S!Delstr
<1> QED
  BY <1>1, <1>4, <1>5, DelstrKeeps DEF StrInv

LEMMA LengthStrStep ==
  ASSUME S!StrAssumption, StrInv, NEW n \in 1 .. StrMax, S!PopN(n) \/ S!Reserve(n) \/ S!Resize(n)
  PROVE  StrInv'
<1>1. PICK cap \in Nat : Buffer(str, cap)
  BY DEF StrInv, S!PopN, S!Reserve, S!Resize
<1>2. n \in Nat /\ n <= StrMax
  BY StrBounds
<1>3. CASE S!PopN(n)
  <2> DEFINE l == IF str.length > n THEN str.length - n ELSE 0
  <2>1. str.length \in 0 .. cap /\ str.length <= StrMax /\ cap \in Nat
    BY <1>1 DEF Buffer
  <2>2. l \in 0 .. cap /\ l <= StrMax
    BY <1>2, <2>1, StrBounds
  <2>3. str' = [str EXCEPT !.length = l]
    BY <1>3 DEF S!PopN
  <2> HIDE DEF l
  <2>4. Buffer(str', cap)
    BY <1>1, <2>2, <2>3 DEF Buffer
  <2> QED
    BY <2>4 DEF StrInv
<1>4. PICK c \in Nat : n <= c /\ Widens(str, cap, S!Reserved(str, n), c)
  BY <1>1, <1>2, ReservedBytes
<1>5. Buffer(S!Reserved(str, n), c)
  BY <1>4 DEF Widens
<1>6. CASE S!Reserve(n)
  BY <1>5, <1>6 DEF S!Reserve, StrInv
<1>7. CASE S!Resize(n)
  <2>1. str' = [S!Reserved(str, n) EXCEPT !.length = n]
    BY <1>7 DEF S!Resize
  <2>2. Buffer(str', c)
    BY <1>2, <1>4, <1>5, <2>1 DEF Buffer
  <2> QED
    BY <2>2 DEF StrInv
<1> QED
  BY <1>3, <1>6, <1>7

LEMMA ClearStrStep ==
  ASSUME S!StrAssumption, StrInv, S!Clear \/ S!Destroy
  PROVE  StrInv'
<1>1. CASE S!Destroy
  BY <1>1 DEF S!Destroy, StrInv
<1>2. CASE S!Clear
  <2>1. PICK cap \in Nat : Buffer(str, cap)
    BY <1>2 DEF StrInv, S!Clear
  <2> DEFINE b == [str.bytes EXCEPT ![0] = Nul]
  <2>2. str' = [length |-> 0, bytes |-> b]
    BY <1>2, <2>1 DEF S!Clear, Buffer
  <2>3. b \in [0 .. cap -> Byte] /\ b[cap] = Nul
    BY <2>1 DEF Buffer, Byte
  <2> HIDE DEF b
  <2>4. Buffer(str', cap)
    BY <2>2, <2>3, StrBounds DEF Buffer
  <2> QED
    BY <2>4 DEF StrInv
<1> QED
  BY <1>1, <1>2

LEMMA StrInductive ==
  ASSUME S!StrAssumption
  PROVE  (S!Init => StrInv) /\ (StrInv /\ [S!Next]_(S!vars) => StrInv')
<1>1. S!Init => StrInv
  BY DEF S!Init, StrInv
<1>2. ASSUME StrInv, S!Next PROVE StrInv'
  BY <1>2, CreateStrStep, InsStrStep, DelStrStep, ReplaceStrStep, DelstrStrStep, LengthStrStep,
     ClearStrStep DEF S!Next
<1>3. ASSUME StrInv, UNCHANGED S!vars PROVE StrInv'
  BY <1>3 DEF S!vars, StrInv
<1> QED
  BY <1>1, <1>2, <1>3

\* A string, whatever was done to it, has a terminator as the last byte of its
\* memory and its text before that byte: the functions of str.h and of the C
\* library that look for a terminator stay in the memory.
THEOREM TerminatorStays == ASSUME S!StrAssumption PROVE S!Spec => []MemoryEndsInNul
<1>1. ASSUME StrInv PROVE MemoryEndsInNul
  <2> SUFFICES ASSUME str # S!NoStr PROVE MemoryEndsInNul
    BY DEF MemoryEndsInNul, S!MemoryEndsInNul
  <2>1. PICK cap \in Nat : Buffer(str, cap)
    BY <1>1 DEF StrInv
  <2>2. S!Capacity(str) = cap
    BY <2>1, CapacityOfBuffer
  <2> QED
    BY <2>1, <2>2 DEF MemoryEndsInNul, S!MemoryEndsInNul, Buffer
<1> QED
  BY <1>1, StrInductive, PTL DEF S!Spec

\* str_ins_n, str_del and str_replace are edits of the text, with no byte of
\* what pop and resize left behind its end, and with the terminator that was
\* there or a new one.
THEOREM EditsAreOfText == ASSUME S!StrAssumption PROVE S!Spec => EditsActOnText
<1> DEFINE Edit ==
      /\ \A i \in S!Offsets, w \in S!Words : S!Ins(i, w) =>
           /\ S!Text' = S!View(S!Text, 0, i) \o w \o S!View(S!Text, i, Len(S!Text))
           /\ S!Closed'
      /\ \A i \in S!Offsets, n \in Count : S!Del(i, n) /\ i + n <= Len(S!Text) =>
           /\ S!Text' = S!View(S!Text, 0, i) \o S!View(S!Text, i + n, Len(S!Text))
           /\ S!Closed' = S!Closed
      /\ \A old, new \in S!Words : S!Replace(old, new) =>
           /\ S!Closed'
           /\ \E i \in S!Offsets :
                /\ S!Text = S!View(S!Text, 0, i) \o old \o S!View(S!Text, i + Len(old), Len(S!Text))
                /\ S!Text' = S!View(S!Text, 0, i) \o new \o S!View(S!Text, i + Len(old), Len(S!Text))
<1>1. ASSUME StrInv PROVE Edit
  <2>1. ASSUME NEW i \in S!Offsets, NEW w \in S!Words, S!Ins(i, w)
        PROVE  /\ S!Text' = S!View(S!Text, 0, i) \o w \o S!View(S!Text, i, Len(S!Text))
               /\ S!Closed'
    BY <1>1, <2>1, InsStrStep
  <2>2. ASSUME NEW i \in S!Offsets, NEW n \in Count, S!Del(i, n), i + n <= Len(S!Text)
        PROVE  /\ S!Text' = S!View(S!Text, 0, i) \o S!View(S!Text, i + n, Len(S!Text))
               /\ S!Closed' = S!Closed
    BY <1>1, <2>2, DelStrStep
  <2>3. ASSUME NEW old \in S!Words, NEW new \in S!Words, S!Replace(old, new)
        PROVE  S!Closed' /\ Replaced(old, new)
    BY <1>1, <2>3, ReplaceStrStep
  <2> QED
    BY <2>1, <2>2, <2>3 DEF Replaced
<1>2. StrInv /\ [S!Next]_(S!vars) => [Edit]_(S!vars)
  BY <1>1
<1>3. S!Spec => [][Edit]_(S!vars)
  BY <1>2, StrInductive, PTL DEF S!Spec
<1> QED
  BY <1>3 DEF EditsActOnText, S!EditsActOnText

-----------------------------------------------------------------------------
\* StrV: the searches and the split agree.

LEMMA TextTyped ==
  ASSUME StrInv
  PROVE  S!Text \in Seq(Byte)
<1>1. CASE str = S!NoStr
  <2>1. S!Text = [j \in 1 .. 0 |-> str.bytes[0 + j - 1]]
    BY <1>1 DEF S!Text, S!Chars, S!Items, S!NoStr
  <2>2. S!Text \in [1 .. 0 -> Byte]
    BY <2>1
  <2>3. 0 \in Nat
    OBVIOUS
  <2> HIDE DEF S!Text
  <2> QED
    BY <2>2, <2>3, SeqDef
<1>2. CASE str # S!NoStr
  BY <1>2, TextIs DEF StrInv, S!Text
<1> QED
  BY <1>1, <1>2

LEMMA StartsFirst ==
  ASSUME NEW T, NEW t \in Seq(T), NEW w \in Seq(T)
  PROVE  S!StartsWith(t, w) <=> S!CstrIndex(t, w) = 0
<1> DEFINE p == S!CstrIndex(t, w)
<1>1. FirstAt(t, w, p) /\ Len(t) \in Nat /\ Len(w) \in Nat
  BY CstrIndexIs, LenProperties
<1>2. S!StartsWith(t, w) <=> Len(w) <= Len(t) /\ S!MatchesAt(t, w, 0)
  <2>1. 0 + Len(w) = Len(w)
    BY <1>1
  <2> QED
    BY <2>1, Zenon DEF S!StartsWith, S!MatchesAt
<1> HIDE DEF p
<1>3. ASSUME Len(w) <= Len(t), S!MatchesAt(t, w, 0) PROVE p = 0
  <2>1. 0 \in 0 .. Len(t) - Len(w)
    BY <1>1, <1>3
  <2> QED
    BY <1>1, <1>3, <2>1 DEF FirstAt
<1>4. ASSUME p = 0 PROVE Len(w) <= Len(t) /\ S!MatchesAt(t, w, 0)
  BY <1>1, <1>4 DEF FirstAt, S!Npos
<1> QED
  BY <1>2, <1>3, <1>4 DEF p

\* The largest number of a set up to n.
LEMMA MaxUpTo ==
  ASSUME NEW n \in Int, NEW Z \in SUBSET (0 .. n), Z # {}
  PROVE  S!Max(Z) \in Z /\ \A x \in Z : x <= S!Max(Z)
<1> DEFINE Y == {n - x : x \in Z}
<1>1. Y \in SUBSET Nat /\ Y # {}
  <2>1. \A x \in Z : n - x \in Nat
    OBVIOUS
  <2> QED
    BY <2>1
<1>2. PICK y \in Y : \A x \in Y : y <= x
  <2> HIDE DEF Y
  <2> QED
    BY <1>1, LeastNatural
<1>3. \E z \in Z : \A x \in Z : x <= z
  <2>1. PICK z \in Z : y = n - z
    BY <1>2
  <2>2. ASSUME NEW x \in Z PROVE x <= z
    <3>1. n - z <= n - x
      BY <1>2, <2>1
    <3> QED
      BY <3>1
  <2> QED
    BY <2>2
<1> QED
  BY <1>3 DEF S!Max

\* What the searches for the first and the last occurrence answer.
BetweenSearches(t, w, p, q) ==
  /\ q # S!Npos => p # S!Npos /\ p <= q /\ S!MatchesAt(t, w, q)
  /\ \A i \in 0 .. Len(t) - Len(w) : S!MatchesAt(t, w, i) =>
       /\ p # S!Npos /\ p <= i
       /\ i <= q \/ (S!EndsWith(t, w) /\ i = Len(t) - Len(w))

LEMMA OccurrencesBetween ==
  ASSUME NEW T, NEW t \in Seq(T), NEW w \in Seq(T)
  PROVE  BetweenSearches(t, w, S!CstrIndex(t, w), S!CstrLastIndex(t, w))
<1> DEFINE p == S!CstrIndex(t, w)
           q == S!CstrLastIndex(t, w)
           last == Len(t) - Len(w)
           n == last - 1
           at == {i \in 0 .. n : S!MatchesAt(t, w, i)}
<1>1. FirstAt(t, w, p) /\ Len(t) \in Nat /\ Len(w) \in Nat
  BY CstrIndexIs, LenProperties
<1>2. q = IF at = {} THEN S!Npos ELSE S!Max(at)
  BY DEF S!CstrLastIndex
<1>3. at \in SUBSET (0 .. n) /\ n \in Int /\ last \in Int
  BY <1>1
<1> HIDE DEF p, q
<1>4. ASSUME NEW i \in 0 .. last, S!MatchesAt(t, w, i) PROVE p # S!Npos /\ p <= i
  <2>1. p # S!Npos
    <3> HIDE DEF at, n
    <3> QED
      BY <1>4, <1>1 DEF FirstAt, S!Npos
  <2>2. p \in 0 .. last /\ i \notin 0 .. p - 1
    <3> HIDE DEF at, n
    <3> QED
      BY <1>4, <2>1, <1>1 DEF FirstAt
  <2> QED
    BY <1>1, <1>4, <2>1, <2>2
<1>5. at # {} => S!Max(at) \in at /\ \A i \in at : i <= S!Max(at)
  <2> HIDE DEF at, n
  <2> QED
    BY <1>3, MaxUpTo
<1>6. ASSUME q # S!Npos PROVE p # S!Npos /\ p <= q /\ S!MatchesAt(t, w, q)
  <2>1. q \in at
    <3> HIDE DEF at
    <3> QED
      BY <1>2, <1>5, <1>6
  <2>2. q \in 0 .. last /\ S!MatchesAt(t, w, q)
    BY <1>1, <2>1
  <2> QED
    BY <1>4, <2>2
<1>7. ASSUME NEW i \in 0 .. last, S!MatchesAt(t, w, i), i # last PROVE i <= q
  <2>1. i \in at
    BY <1>1, <1>7
  <2> HIDE DEF at
  <2> QED
    BY <1>2, <1>5, <2>1
<1>8. ASSUME last \in 0 .. last, S!MatchesAt(t, w, last) PROVE S!EndsWith(t, w)
  <2>1. Len(w) <= Len(t) /\ last + Len(w) = Len(t)
    BY <1>1, <1>8
  <2>2. S!View(t, last, last + Len(w)) = w
    BY <1>8, Zenon DEF S!MatchesAt
  <2> QED
    BY <2>1, <2>2, Zenon DEF S!EndsWith, last
<1>9. \A i \in 0 .. last : S!MatchesAt(t, w, i) =>
        p # S!Npos /\ p <= i /\ (i <= q \/ (S!EndsWith(t, w) /\ i = last))
  <2> HIDE DEF last, n, at
  <2> QED
    BY <1>4, <1>7, <1>8
<1> HIDE DEF at, n
<1>10. BetweenSearches(t, w, p, q)
  BY <1>6, <1>9, Zenon DEF BetweenSearches, last
<1> QED
  BY <1>10 DEF p, q

\* The tokens joined, as a loop over them.
Joining(u, x, sep) == u \o x \o sep

LEMMA JoiningIn ==
  ASSUME NEW T, NEW u \in Seq(T), NEW x \in Seq(T), NEW sep \in Seq(T)
  PROVE  Joining(u, x, sep) \in Seq(T)
<1> DEFINE v == u \o x
<1>1. v \in Seq(T)
  BY ConcatProperties
<1>2. Joining(u, x, sep) = v \o sep
  BY DEF Joining
<1> HIDE DEF v
<1>3. v \o sep \in Seq(T)
  BY <1>1, ConcatProperties
<1> QED
  BY <1>2, <1>3, Zenon

LEMMA JoinedLoop ==
  ASSUME NEW tokens, Len(tokens) \in Nat, NEW sep
  PROVE  /\ S!JoinedUpTo(tokens, sep)[0] = <<>>
         /\ \A i \in 1 .. Len(tokens) :
              S!JoinedUpTo(tokens, sep)[i] = Joining(S!JoinedUpTo(tokens, sep)[i - 1], tokens[i], sep)
<1> DEFINE n == Len(tokens)
           Loop(g, j) == g = [i \in 0 .. j |-> IF i = 0 THEN <<>> ELSE Joining(g[i - 1], tokens[i], sep)]
           Z == {j \in Nat : \E g : Loop(g, j)}
<1>0. n \in Nat
  OBVIOUS
<1> HIDE DEF n
<1>1. 0 \in Z
  <2>1. Loop([i \in 0 .. 0 |-> <<>>], 0)
    OBVIOUS
  <2> QED
    BY <2>1
<1>2. ASSUME NEW j \in 1 .. n, j - 1 \in Z PROVE j \in Z
  <2>1. PICK g : Loop(g, j - 1)
    BY <1>2
  <2> DEFINE h == [i \in 0 .. j |-> IF i < j THEN g[i] ELSE Joining(g[j - 1], tokens[j], sep)]
  <2>2. ASSUME NEW i \in 0 .. j
        PROVE  h[i] = IF i = 0 THEN <<>> ELSE Joining(h[i - 1], tokens[i], sep)
    BY <2>1
  <2>3. h = [i \in 0 .. j |-> h[i]]
    OBVIOUS
  <2> HIDE DEF h
  <2>4. Loop(h, j)
    BY <2>2, <2>3
  <2> QED
    BY <1>0, <2>4
<1> HIDE DEF Z
<1>3. n \in Z
  BY <1>0, <1>1, <1>2, InductionUpTo
<1>4. \E g : g = [i \in 0 .. n |-> IF i = 0 THEN <<>> ELSE Joining(g[i - 1], tokens[i], sep)]
  BY <1>3 DEF Z
<1>5. S!JoinedUpTo(tokens, sep)
        = [i \in 0 .. n |-> IF i = 0 THEN <<>> ELSE Joining(S!JoinedUpTo(tokens, sep)[i - 1], tokens[i], sep)]
  BY <1>4 DEF S!JoinedUpTo, Joining, n
<1> QED
  BY <1>0, <1>5 DEF n

\* One more token.
Follows(tokens, x, sep) == S!Joined(Append(tokens, x), sep) = S!Joined(tokens, sep) \o x \o sep

LEMMA JoinedAppend ==
  ASSUME NEW T, NEW tokens \in Seq(Seq(T)), NEW x \in Seq(T), NEW sep \in Seq(T)
  PROVE  /\ S!Joined(tokens, sep) \in Seq(T)
         /\ Follows(tokens, x, sep)
<1> DEFINE n == Len(tokens)
           more == Append(tokens, x)
           f == S!JoinedUpTo(tokens, sep)
           g == S!JoinedUpTo(more, sep)
           Z == {i \in 0 .. n : f[i] \in Seq(T) /\ g[i] = f[i]}
<1>1. /\ n \in Nat /\ \A i \in 1 .. n : tokens[i] \in Seq(T)
      /\ Len(more) = n + 1 /\ (\A i \in 1 .. n : more[i] = tokens[i]) /\ more[n + 1] = x
  BY LenProperties, ElementOfSeq, AppendProperties
<1> HIDE DEF more, n
<1>2. f[0] = <<>> /\ \A i \in 1 .. n : f[i] = Joining(f[i - 1], tokens[i], sep)
  BY <1>1, JoinedLoop DEF n
<1>3. g[0] = <<>> /\ \A i \in 1 .. n + 1 : g[i] = Joining(g[i - 1], more[i], sep)
  <2>1. Len(more) \in Nat
    BY <1>1
  <2>2. g[0] = <<>> /\ \A i \in 1 .. Len(more) : g[i] = Joining(g[i - 1], more[i], sep)
    BY <2>1, JoinedLoop
  <2> QED
    BY <1>1, <2>2
<1> HIDE DEF f, g
<1>4. 0 \in Z
  <2>1. <<>> \in Seq(T) /\ 0 \in 0 .. n
    BY <1>1, EmptySeq
  <2> QED
    BY <1>2, <1>3, <2>1
<1>5. ASSUME NEW i \in 1 .. n, i - 1 \in Z PROVE i \in Z
  <2>1. f[i - 1] \in Seq(T) /\ g[i - 1] = f[i - 1] /\ tokens[i] \in Seq(T) /\ i \in 1 .. n + 1
    BY <1>1, <1>5
  <2>3. Joining(f[i - 1], tokens[i], sep) \in Seq(T)
    BY <2>1, JoiningIn
  <2>4. f[i] \in Seq(T) /\ g[i] = f[i]
    BY <1>1, <1>2, <1>3, <2>1, <2>3
  <2> QED
    BY <2>4
<1>6. n \in Z
  <2> HIDE DEF Z
  <2>1. 0 .. n \subseteq Z
    BY <1>1, <1>4, <1>5, InductionUpTo
  <2> QED
    BY <1>1, <2>1
<1>7. g[n + 1] = Joining(f[n], x, sep)
  <2>1. n + 1 \in 1 .. n + 1 /\ n + 1 - 1 = n
    BY <1>1
  <2> QED
    BY <1>1, <1>3, <1>6, <2>1
<1>8. S!Joined(tokens, sep) = f[n] /\ S!Joined(more, sep) = g[n + 1]
  BY <1>1 DEF S!Joined, f, g, n
<1> QED
  BY <1>6, <1>7, <1>8, Zenon DEF Follows, more, Joining

\* No position of t has w.
Misses(t, w) == S!CstrIndex(t, w) = S!Npos

Regroups(c, a, w, b) == (c \o a \o w) \o b = c \o (a \o w \o b)

LEMMA Regrouped ==
  ASSUME NEW T, NEW c \in Seq(T), NEW a \in Seq(T), NEW w \in Seq(T), NEW b \in Seq(T)
  PROVE  Regroups(c, a, w, b)
<1> DEFINE e == a \o w
<1>1. e \in Seq(T)
  BY ConcatProperties
<1>2. c \o a \o w = c \o e
  BY ConcatAssociative
<1> HIDE DEF e
<1>3. (c \o e) \o b = c \o (e \o b)
  BY <1>1, ConcatAssociative
<1> QED
  BY <1>2, <1>3, Zenon DEF e, Regroups

\* What the turns of a split have come to: the tokens, without a separator in
\* any of them, and the rest are the text.
Splitting(run, T, t, sep) ==
  /\ run \in [tokens : Seq(Seq(T)), rest : Seq(T)]
  /\ S!Joined(run.tokens, sep) \o run.rest = t
  /\ \A i \in 1 .. Len(run.tokens) : Misses(run.tokens[i], sep)

LEMMA SplitTurn ==
  ASSUME NEW T, NEW t, NEW sep \in Seq(T), sep # <<>>, NEW run, Splitting(run, T, t, sep),
         NEW next, next = S!Split(run, sep)
  PROVE  /\ Splitting(next, T, t, sep)
         /\ IF Misses(run.rest, sep) THEN next = run ELSE Len(next.rest) < Len(run.rest)
<1> DEFINE r == run.rest
           i == S!CstrIndex(r, sep)
           j == i + Len(sep)
           a == S!View(r, 0, i)
           b == S!View(r, j, Len(r))
           c == S!Joined(run.tokens, sep)
<1>1. r \in Seq(T) /\ run.tokens \in Seq(Seq(T)) /\ c \o r = t
  BY DEF Splitting
<1>2. CASE i = S!Npos
  BY <1>2 DEF S!Split, Misses
<1>3. CASE i # S!Npos
  <2>1. next = [tokens |-> Append(run.tokens, a), rest |-> b]
    BY <1>3 DEF S!Split
  <2> HIDE DEF r, c
  <2>2. FirstAt(r, sep, i) /\ Len(r) \in Nat /\ Len(sep) \in Nat /\ Len(sep) # 0
    BY <1>1, CstrIndexIs, LenProperties, EmptySeq
  <2>3. i \in 0 .. Len(r) - Len(sep) /\ S!MatchesAt(r, sep, i) /\ \A k \in 0 .. i - 1 : ~S!MatchesAt(r, sep, k)
    BY <1>3, <2>2 DEF FirstAt
  <2> HIDE DEF i
  <2>4. i \in 0 .. Len(r) /\ j \in 0 .. Len(r) /\ j \in i .. Len(r) /\ Len(r) - j < Len(r)
    BY <2>2, <2>3
  <2>5. r = Spliced(r, i, sep, j)
    BY <1>1, <2>3, SplicedItself
  <2> HIDE DEF j
  <2>6. a \o sep \o b = Spliced(r, i, sep, j)
    BY <1>1, <2>4, ViewsOfSplice
  <2>7. a = SubSeq(r, 1, i) /\ b = SubSeq(r, j + 1, Len(r))
    <3>1. 0 + 1 = 1
      OBVIOUS
    <3> QED
      BY <3>1 DEF S!View
  <2> HIDE DEF a, b
  <2>8. a \in Seq(T) /\ Len(a) = i /\ \A k \in 1 .. i : a[k] = r[k]
    BY <1>1, <2>4, <2>7, FirstPart
  <2>9. b \in Seq(T) /\ Len(b) = Len(r) - j
    BY <1>1, <2>4, <2>7, LastPart
  <2> DEFINE d == S!Joined(Append(run.tokens, a), sep)
  <2>10. c \in Seq(T) /\ d = c \o a \o sep
    <3>1. run.tokens \in Seq(Seq(T)) /\ a \in Seq(T) /\ sep \in Seq(T)
      BY <1>1, <2>8
    <3>2. S!Joined(run.tokens, sep) \in Seq(T)
      BY <3>1, JoinedAppend, Zenon
    <3>3. Follows(run.tokens, a, sep)
      BY <3>1, JoinedAppend, Zenon
    <3> QED
      BY <3>2, <3>3, Zenon DEF Follows, c
  <2> HIDE DEF d
  <2>11. d \o b = t
    <3>1. Regroups(c, a, sep, b)
      BY <2>8, <2>9, <2>10, Regrouped
    <3> QED
      BY <1>1, <2>5, <2>6, <2>10, <3>1, Zenon DEF Regroups
  <2>12. Misses(a, sep)
    <3> DEFINE p == S!CstrIndex(a, sep)
    <3> SUFFICES ASSUME p # S!Npos PROVE FALSE
      BY DEF Misses
    <3>1. FirstAt(a, sep, p)
      BY <2>8, CstrIndexIs
    <3> HIDE DEF p
    <3>2. p \in 0 .. Len(a) - Len(sep) /\ S!MatchesAt(a, sep, p)
      BY <3>1 DEF FirstAt
    <3>3. p \in 0 .. Len(r) - Len(sep) /\ p \in 0 .. i - 1 /\ \A k \in 1 .. Len(sep) : p + k \in 1 .. i
      BY <2>2, <2>3, <2>8, <3>2
    <3>4. Occurs(a, sep, p)
      BY <2>8, <3>2, MatchesIs
    <3>5. Occurs(r, sep, p)
      BY <2>8, <3>3, <3>4 DEF Occurs
    <3>6. S!MatchesAt(r, sep, p)
      BY <1>1, <3>3, <3>5, MatchesIs
    <3> QED
      BY <2>3, <3>3, <3>6
  <2>13. Splitting(next, T, t, sep)
    <3> DEFINE more == Append(run.tokens, a)
    <3>1. /\ more \in Seq(Seq(T)) /\ Len(more) = Len(run.tokens) + 1 /\ Len(run.tokens) \in Nat
          /\ (\A k \in 1 .. Len(run.tokens) : more[k] = run.tokens[k]) /\ more[Len(run.tokens) + 1] = a
      BY <1>1, <2>8, AppendProperties, LenProperties
    <3> HIDE DEF more
    <3>2. ASSUME NEW k \in 1 .. Len(more) PROVE Misses(more[k], sep)
      <4>1. CASE k \in 1 .. Len(run.tokens)
        BY <3>1, <4>1 DEF Splitting
      <4>2. CASE k \notin 1 .. Len(run.tokens)
        <5>1. k = Len(run.tokens) + 1
          BY <3>1, <4>2
        <5> QED
          BY <2>12, <3>1, <5>1
      <4> QED
        BY <4>1, <4>2
    <3>3. next.tokens = more /\ next.rest = b /\ next \in [tokens : Seq(Seq(T)), rest : Seq(T)]
      BY <2>1, <2>9, <3>1 DEF more
    <3> QED
      BY <2>11, <3>2, <3>3 DEF Splitting, d, more
  <2> QED
    BY <1>3, <2>1, <2>4, <2>9, <2>13 DEF r, i, Misses
<1> QED
  BY <1>2, <1>3

\* strv_foreach_split, as a loop.
LEMMA SplitLoop ==
  ASSUME NEW t, Len(t) \in Nat, NEW sep
  PROVE  /\ S!SplitTurns(t, sep)[0] = [tokens |-> <<>>, rest |-> t]
         /\ \A i \in 1 .. Len(t) : S!SplitTurns(t, sep)[i] = S!Split(S!SplitTurns(t, sep)[i - 1], sep)
<1> DEFINE n == Len(t)
           first == [tokens |-> <<>>, rest |-> t]
<1>1. n \in Nat
  OBVIOUS
<1> HIDE DEF n, first
<1> DEFINE Loop(g, j) == g = [i \in 0 .. j |-> IF i = 0 THEN first ELSE S!Split(g[i - 1], sep)]
           Z == {j \in Nat : \E g : Loop(g, j)}
<1>2. 0 \in Z
  <2>1. Loop([i \in 0 .. 0 |-> first], 0)
    OBVIOUS
  <2> QED
    BY <2>1
<1>3. ASSUME NEW j \in 1 .. n, j - 1 \in Z PROVE j \in Z
  <2>1. PICK g : Loop(g, j - 1)
    BY <1>3
  <2> DEFINE h == [i \in 0 .. j |-> IF i < j THEN g[i] ELSE S!Split(g[j - 1], sep)]
  <2>2. ASSUME NEW i \in 0 .. j
        PROVE  h[i] = IF i = 0 THEN first ELSE S!Split(h[i - 1], sep)
    BY <1>1, <2>1
  <2>3. h = [i \in 0 .. j |-> h[i]]
    OBVIOUS
  <2> HIDE DEF h
  <2>4. Loop(h, j)
    BY <2>2, <2>3
  <2> QED
    BY <1>1, <2>4
<1> HIDE DEF Z
<1>4. n \in Z
  BY <1>1, <1>2, <1>3, InductionUpTo
<1>5. \E g : g = [i \in 0 .. n |-> IF i = 0 THEN first ELSE S!Split(g[i - 1], sep)]
  BY <1>4 DEF Z
<1>6. S!SplitTurns(t, sep)
        = [i \in 0 .. n |-> IF i = 0 THEN first ELSE S!Split(S!SplitTurns(t, sep)[i - 1], sep)]
  BY <1>5 DEF S!SplitTurns, n, first
<1> QED
  BY <1>1, <1>6 DEF n, first

\* A rest that is too short has no separator.
LEMMA ShortMisses ==
  ASSUME NEW T, NEW t \in Seq(T), NEW w \in Seq(T), w # <<>>, Len(t) <= 0
  PROVE  Misses(t, w)
<1>1. FirstAt(t, w, S!CstrIndex(t, w))
  BY CstrIndexIs
<1>2. Len(t) \in Nat /\ Len(w) \in Nat /\ Len(w) # 0
  BY LenProperties, EmptySeq
<1>3. 0 .. Len(t) - Len(w) = {}
  BY <1>2
<1> QED
  BY <1>1, <1>3 DEF FirstAt, Misses

LEMMA SplitEnds ==
  ASSUME NEW T, NEW t \in Seq(T), NEW sep \in Seq(T), sep # <<>>
  PROVE  Splitting(S!SplitAll(t, sep), T, t, sep) /\ Misses(S!SplitAll(t, sep).rest, sep)
<1> DEFINE n == Len(t)
           u == S!SplitTurns(t, sep)
           Left(run, i) == Misses(run.rest, sep) \/ Len(run.rest) + i <= n
           Z == {i \in 0 .. n : Splitting(u[i], T, t, sep) /\ Left(u[i], i)}
<1>1. n \in Nat
  BY LenProperties
<1>2. u[0] = [tokens |-> <<>>, rest |-> t] /\ \A i \in 1 .. n : u[i] = S!Split(u[i - 1], sep)
  BY <1>1, SplitLoop
<1>3. S!SplitAll(t, sep) = u[n]
  BY DEF S!SplitAll
<1> HIDE DEF u
<1>4. Splitting(u[0], T, t, sep)
  <2>1. <<>> \in Seq(Seq(T)) /\ Len(<<>>) = 0
    BY EmptySeq
  <2>2. S!JoinedUpTo(<<>>, sep)[0] = <<>>
    BY <2>1, JoinedLoop
  <2>3. S!Joined(<<>>, sep) = <<>>
    BY <2>1, <2>2, Zenon DEF S!Joined
  <2>4. S!Joined(<<>>, sep) \o t = t
    BY <2>3, ConcatEmptySeq
  <2>5. u[0] \in [tokens : Seq(Seq(T)), rest : Seq(T)] /\ u[0].tokens = <<>> /\ u[0].rest = t
    BY <1>2, <2>1
  <2>6. \A i \in 1 .. Len(u[0].tokens) : FALSE
    BY <2>1, <2>5
  <2> QED
    BY <2>4, <2>5, <2>6, Zenon DEF Splitting
<1>5. 0 \in Z
  <2>1. u[0].rest = t
    BY <1>2
  <2>2. Left(u[0], 0)
    BY <1>1, <2>1
  <2> QED
    BY <1>1, <1>4, <2>2
<1>6. ASSUME NEW i \in 1 .. n, i - 1 \in Z PROVE i \in Z
  <2> DEFINE run == u[i - 1]
             next == u[i]
  <2>1. next = S!Split(run, sep) /\ Splitting(run, T, t, sep) /\ Left(run, i - 1)
    BY <1>2, <1>6
  <2> HIDE DEF run, next
  <2>2. /\ Splitting(next, T, t, sep)
        /\ IF Misses(run.rest, sep) THEN next = run ELSE Len(next.rest) < Len(run.rest)
    BY <2>1, SplitTurn
  <2>3. run.rest \in Seq(T) /\ next.rest \in Seq(T)
    BY <2>1, <2>2 DEF Splitting
  <2>4. Len(run.rest) \in Nat /\ Len(next.rest) \in Nat
    BY <2>3, LenProperties
  <2>5. Left(next, i)
    BY <1>1, <2>1, <2>2, <2>4
  <2> QED
    BY <1>1, <2>2, <2>5 DEF next
<1>7. n \in Z
  <2> HIDE DEF Z
  <2>1. 0 .. n \subseteq Z
    BY <1>1, <1>5, <1>6, InductionUpTo
  <2> QED
    BY <1>1, <2>1
<1>8. Splitting(u[n], T, t, sep) /\ Left(u[n], n) /\ u[n].rest \in Seq(T)
  BY <1>7 DEF Splitting
<1>9. Misses(u[n].rest, sep)
  <2>1. Len(u[n].rest) + n <= n => Len(u[n].rest) <= 0
    BY <1>1, <1>8, LenProperties
  <2> QED
    BY <1>8, <2>1, ShortMisses
<1> QED
  BY <1>3, <1>8, <1>9

\* On every text that a string can come to have, the searches agree but for an
\* occurrence at its very end, which the search for the last one leaves out.
THEOREM SearchesOfEveryText ==
  ASSUME S!StrAssumption PROVE S!Spec => []SearchesAgreeButAtEnd
<1>1. ASSUME StrInv PROVE SearchesAgreeButAtEnd
  <2> DEFINE t == S!Text
  <2>1. t \in Seq(Byte)
    BY <1>1, TextTyped
  <2> HIDE DEF t
  <2>2. ASSUME NEW w \in S!Words \ {<<>>}
        PROVE  /\ S!StartsWith(t, w) <=> S!CstrIndex(t, w) = 0
               /\ BetweenSearches(t, w, S!CstrIndex(t, w), S!CstrLastIndex(t, w))
               /\ LET all == S!SplitAll(t, w)
                  IN  /\ S!Joined(all.tokens, w) \o all.rest = t
                      /\ S!CstrIndex(all.rest, w) = S!Npos
                      /\ \A token \in S!ToSet(all.tokens) : S!CstrIndex(token, w) = S!Npos
    <3>1. w \in Seq(Byte) /\ w # <<>>
      BY WordsAre
    <3>2. S!StartsWith(t, w) <=> S!CstrIndex(t, w) = 0
      BY <2>1, <3>1, StartsFirst
    <3>3. BetweenSearches(t, w, S!CstrIndex(t, w), S!CstrLastIndex(t, w))
      BY <2>1, <3>1, OccurrencesBetween
    <3> DEFINE all == S!SplitAll(t, w)
    <3>4. Splitting(all, Byte, t, w) /\ Misses(all.rest, w)
      BY <2>1, <3>1, SplitEnds
    <3> HIDE DEF all
    <3>5. ASSUME NEW token \in S!ToSet(all.tokens) PROVE Misses(token, w)
      <4>1. PICK i \in DOMAIN all.tokens : token = all.tokens[i]
        BY DEF S!ToSet
      <4>2. all.tokens \in Seq(Seq(Byte))
        BY <3>4 DEF Splitting
      <4>3. i \in 1 .. Len(all.tokens)
        BY <4>2
      <4> QED
        BY <3>4, <4>1, <4>3 DEF Splitting
    <3>6. /\ S!Joined(all.tokens, w) \o all.rest = t
          /\ S!CstrIndex(all.rest, w) = S!Npos
          /\ \A token \in S!ToSet(all.tokens) : S!CstrIndex(token, w) = S!Npos
      BY <3>4, <3>5 DEF Splitting, Misses
    <3> QED
      BY <3>2, <3>3, <3>6 DEF all
  <2> QED
    BY <2>2, Zenon DEF SearchesAgreeButAtEnd, S!SearchesAgreeButAtEnd, BetweenSearches, t
<1> QED
  BY <1>1, StrInductive, PTL DEF S!Spec

-----------------------------------------------------------------------------
\* str_delstr_n leaves nothing of what it deletes, and all the rest.

\* The letters that are not in s, as a loop.
OneMore(u, x, s) == IF x \in S!ToSet(s) THEN u ELSE Append(u, x)

LEMMA OthersLoop ==
  ASSUME NEW t, Len(t) \in Nat, NEW s
  PROVE  /\ S!OthersUpTo(t, s)[0] = <<>>
         /\ \A i \in 1 .. Len(t) : S!OthersUpTo(t, s)[i] = OneMore(S!OthersUpTo(t, s)[i - 1], t[i], s)
<1> DEFINE n == Len(t)
<1>1. n \in Nat
  OBVIOUS
<1> HIDE DEF n
<1> DEFINE Loop(g, j) == g = [i \in 0 .. j |-> IF i = 0 THEN <<>> ELSE OneMore(g[i - 1], t[i], s)]
           Z == {j \in Nat : \E g : Loop(g, j)}
<1>2. 0 \in Z
  <2>1. Loop([i \in 0 .. 0 |-> <<>>], 0)
    OBVIOUS
  <2> QED
    BY <2>1
<1>3. ASSUME NEW j \in 1 .. n, j - 1 \in Z PROVE j \in Z
  <2>1. PICK g : Loop(g, j - 1)
    BY <1>3
  <2> DEFINE h == [i \in 0 .. j |-> IF i < j THEN g[i] ELSE OneMore(g[j - 1], t[j], s)]
  <2>2. ASSUME NEW i \in 0 .. j
        PROVE  h[i] = IF i = 0 THEN <<>> ELSE OneMore(h[i - 1], t[i], s)
    BY <1>1, <2>1
  <2>3. h = [i \in 0 .. j |-> h[i]]
    OBVIOUS
  <2> HIDE DEF h
  <2>4. Loop(h, j)
    BY <2>2, <2>3
  <2> QED
    BY <1>1, <2>4
<1> HIDE DEF Z
<1>4. n \in Z
  BY <1>1, <1>2, <1>3, InductionUpTo
<1>5. \E g : g = [i \in 0 .. n |-> IF i = 0 THEN <<>> ELSE OneMore(g[i - 1], t[i], s)]
  BY <1>4 DEF Z
<1>6. S!OthersUpTo(t, s)
        = [i \in 0 .. n |-> IF i = 0 THEN <<>> ELSE OneMore(S!OthersUpTo(t, s)[i - 1], t[i], s)]
  BY <1>5 DEF S!OthersUpTo, OneMore, n
<1> QED
  BY <1>1, <1>6 DEF n

LEMMA OneMoreBehind ==
  ASSUME NEW T, NEW u \in Seq(T), NEW v \in Seq(T), NEW x \in T, NEW s
  PROVE  /\ OneMore(v, x, s) \in Seq(T)
         /\ OneMore(u \o v, x, s) = u \o OneMore(v, x, s)
<1>1. CASE x \in S!ToSet(s)
  BY <1>1 DEF OneMore
<1>2. CASE x \notin S!ToSet(s)
  <2> DEFINE e == <<x>>
             uv == u \o v
  <2>1. e \in Seq(T) /\ uv \in Seq(T)
    BY ConcatProperties
  <2>2. Append(v, x) = v \o e /\ Append(uv, x) = uv \o e /\ Append(v, x) \in Seq(T)
    <3> HIDE DEF uv
    <3> QED
      BY <2>1, AppendIsConcat, AppendProperties
  <2> HIDE DEF e
  <2>3. uv \o e = u \o (v \o e)
    BY <2>1, ConcatAssociative
  <2>4. OneMore(v, x, s) = Append(v, x) /\ OneMore(uv, x, s) = Append(uv, x)
    BY <1>2 DEF OneMore
  <2> QED
    BY <2>2, <2>3, <2>4, Zenon
<1> QED
  BY <1>1, <1>2

\* The letters of a prefix.
LEMMA OthersOfPrefix ==
  ASSUME NEW T, NEW a \in Seq(T), NEW c \in Seq(T), Len(a) <= Len(c),
         \A i \in 1 .. Len(a) : c[i] = a[i], NEW s
  PROVE  \A i \in 0 .. Len(a) : /\ S!OthersUpTo(a, s)[i] \in Seq(T)
                                /\ S!OthersUpTo(c, s)[i] = S!OthersUpTo(a, s)[i]
<1> DEFINE n == Len(a)
           f == S!OthersUpTo(a, s)
           g == S!OthersUpTo(c, s)
           Z == {i \in 0 .. n : f[i] \in Seq(T) /\ g[i] = f[i]}
<1>1. n \in Nat /\ Len(c) \in Nat /\ n <= Len(c) /\ \A i \in 1 .. n : a[i] \in T /\ c[i] = a[i]
  BY LenProperties, ElementOfSeq
<1>2. /\ f[0] = <<>> /\ \A i \in 1 .. n : f[i] = OneMore(f[i - 1], a[i], s)
      /\ g[0] = <<>> /\ \A i \in 1 .. Len(c) : g[i] = OneMore(g[i - 1], c[i], s)
  BY <1>1, OthersLoop
<1> HIDE DEF f, g, n
<1>3. 0 \in Z
  <2>1. <<>> \in Seq(T) /\ 0 \in 0 .. n
    BY <1>1, EmptySeq
  <2> QED
    BY <1>2, <2>1
<1>4. ASSUME NEW i \in 1 .. n, i - 1 \in Z PROVE i \in Z
  <2>1. f[i - 1] \in Seq(T) /\ g[i - 1] = f[i - 1] /\ i \in 1 .. Len(c)
    BY <1>1, <1>4
  <2>2. OneMore(f[i - 1], a[i], s) \in Seq(T)
    BY <1>1, <2>1, OneMoreBehind
  <2>3. f[i] \in Seq(T) /\ g[i] = f[i]
    BY <1>1, <1>2, <2>1, <2>2
  <2> QED
    BY <2>3
<1>5. 0 .. n \subseteq Z
  <2> HIDE DEF Z
  <2> QED
    BY <1>1, <1>3, <1>4, InductionUpTo
<1> QED
  BY <1>5 DEF f, g, n

OthersAdd(a, b, s) == S!Others(a \o b, s) = S!Others(a, s) \o S!Others(b, s)

LEMMA OthersConcat ==
  ASSUME NEW T, NEW a \in Seq(T), NEW b \in Seq(T), NEW s
  PROVE  S!Others(a, s) \in Seq(T) /\ OthersAdd(a, b, s)
<1> DEFINE c == a \o b
           m == Len(a)
           n == Len(b)
           o == S!Others(a, s)
           f == S!OthersUpTo(b, s)
           g == S!OthersUpTo(c, s)
           Z == {i \in 0 .. n : f[i] \in Seq(T) /\ g[m + i] = o \o f[i]}
<1>1. m \in Nat /\ n \in Nat /\ \A i \in 1 .. n : b[i] \in T
  BY LenProperties, ElementOfSeq
<1>2. Joins(T, a, b, c)
  <2>1. c = a \o b
    OBVIOUS
  <2> HIDE DEF c
  <2> QED
    BY <2>1, Concatenated
<1> HIDE DEF c
<1>3. c \in Seq(T) /\ Len(c) = m + n /\ (\A i \in 1 .. m : c[i] = a[i]) /\ \A i \in 1 .. n : c[m + i] = b[i]
  <2>1. \A i \in 1 .. m : i \in 1 .. m + n /\ i <= m
    BY <1>1
  <2>2. \A i \in 1 .. n : m + i \in 1 .. m + n /\ ~(m + i <= m) /\ m + i - m = i
    BY <1>1
  <2> QED
    BY <1>2, <2>1, <2>2 DEF Joins
<1>4. /\ f[0] = <<>> /\ \A i \in 1 .. n : f[i] = OneMore(f[i - 1], b[i], s)
      /\ \A i \in 1 .. m + n : g[i] = OneMore(g[i - 1], c[i], s)
  <2>1. Len(c) \in Nat /\ Len(b) \in Nat
    BY <1>1, <1>3
  <2>2. f[0] = <<>> /\ \A i \in 1 .. n : f[i] = OneMore(f[i - 1], b[i], s)
    BY <2>1, OthersLoop
  <2>3. \A i \in 1 .. Len(c) : g[i] = OneMore(g[i - 1], c[i], s)
    BY <2>1, OthersLoop
  <2> QED
    BY <1>3, <2>2, <2>3
<1>5. o \in Seq(T) /\ g[m] = o
  <2>1. Len(a) <= Len(c)
    BY <1>1, <1>3
  <2>2. \A i \in 0 .. Len(a) : /\ S!OthersUpTo(a, s)[i] \in Seq(T)
                               /\ S!OthersUpTo(c, s)[i] = S!OthersUpTo(a, s)[i]
    BY <1>3, <2>1, OthersOfPrefix
  <2>3. m \in 0 .. Len(a)
    BY <1>1
  <2> QED
    BY <2>2, <2>3 DEF S!Others
<1>6. S!Others(b, s) = f[n] /\ S!Others(c, s) = g[m + n]
  BY <1>3 DEF S!Others
<1> HIDE DEF f, g, m, n, o
<1>7. 0 \in Z
  <2>1. 0 \in 0 .. n /\ m + 0 = m
    BY <1>1
  <2>2. <<>> \in Seq(T) /\ o \o <<>> = o
    BY <1>5, EmptySeq, ConcatEmptySeq
  <2> QED
    BY <1>4, <1>5, <2>1, <2>2
<1>8. ASSUME NEW i \in 1 .. n, i - 1 \in Z PROVE i \in Z
  <2>1. f[i - 1] \in Seq(T) /\ g[m + (i - 1)] = o \o f[i - 1]
    BY <1>8
  <2>2. m + i \in 1 .. m + n /\ b[i] \in T /\ c[m + i] = b[i]
    BY <1>1, <1>3
  <2>3. g[m + i] = OneMore(o \o f[i - 1], b[i], s) /\ f[i] = OneMore(f[i - 1], b[i], s)
    <3>1. f[i] = OneMore(f[i - 1], b[i], s)
      BY <1>4
    <3>2. g[m + i] = OneMore(g[m + (i - 1)], c[m + i], s)
      <4>1. (m + i) - 1 = m + (i - 1)
        BY <1>1
      <4>2. PICK k \in 1 .. m + n : k = m + i
        BY <2>2
      <4>3. g[k] = OneMore(g[k - 1], c[k], s)
        BY <1>4
      <4> QED
        BY <4>1, <4>2, <4>3, Zenon
    <3> QED
      BY <2>1, <2>2, <3>1, <3>2, Zenon
  <2> DEFINE v == f[i - 1]
  <2>4. OneMore(v, b[i], s) \in Seq(T) /\ OneMore(o \o v, b[i], s) = o \o OneMore(v, b[i], s)
    <3>1. v \in Seq(T)
      BY <2>1
    <3> HIDE DEF v
    <3> QED
      BY <1>5, <2>2, <3>1, OneMoreBehind
  <2>5. f[i] \in Seq(T) /\ g[m + i] = o \o f[i]
    BY <2>3, <2>4, Zenon
  <2> QED
    BY <2>5
<1>9. n \in Z
  <2> HIDE DEF Z
  <2>1. 0 .. n \subseteq Z
    BY <1>1, <1>7, <1>8, InductionUpTo
  <2> QED
    BY <1>1, <2>1
<1>10. g[m + n] = o \o f[n]
  BY <1>9
<1> QED
  BY <1>5, <1>6, <1>10, Zenon DEF c, o, OthersAdd

\* A string has no letters but its own.
LEMMA OthersItself ==
  ASSUME NEW T, NEW w \in Seq(T)
  PROVE  S!Others(w, w) = <<>>
<1> DEFINE n == Len(w)
           f == S!OthersUpTo(w, w)
           Z == {i \in 0 .. n : f[i] = <<>>}
<1>1. n \in Nat /\ \A i \in 1 .. n : w[i] \in S!ToSet(w)
  BY LenProperties DEF S!ToSet
<1>2. f[0] = <<>> /\ \A i \in 1 .. n : f[i] = OneMore(f[i - 1], w[i], w)
  BY <1>1, OthersLoop
<1>3. S!Others(w, w) = f[n]
  BY DEF S!Others
<1> HIDE DEF f, n
<1>4. 0 \in Z
  BY <1>1, <1>2
<1>5. ASSUME NEW i \in 1 .. n, i - 1 \in Z PROVE i \in Z
  BY <1>1, <1>2, <1>5 DEF OneMore
<1>6. 0 .. n \subseteq Z
  <2> HIDE DEF Z
  <2> QED
    BY <1>1, <1>4, <1>5, InductionUpTo
<1> QED
  BY <1>1, <1>3, <1>6

\* A text with w at i has the same other letters without it.
LEMMA OthersWithout ==
  ASSUME NEW T, NEW t \in Seq(T), NEW w \in Seq(T), NEW i \in 0 .. Len(t) - Len(w),
         S!MatchesAt(t, w, i)
  PROVE  S!Others(Spliced(t, i, <<>>, i + Len(w)), w) = S!Others(t, w)
<1> DEFINE j == i + Len(w)
           a == SubSeq(t, 1, i)
           b == SubSeq(t, j + 1, Len(t))
           u == Spliced(t, i, <<>>, j)
           aw == a \o w
<1>1. Len(t) \in Nat /\ Len(w) \in Nat /\ i \in 0 .. Len(t) /\ j \in 0 .. Len(t)
  BY LenProperties
<1>2. t = aw \o b
  BY SplicedItself, Zenon DEF Spliced
<1>3. u = a \o <<>> \o b
  BY DEF Spliced
<1> HIDE DEF j
<1>4. a \in Seq(T) /\ b \in Seq(T)
  BY <1>1, FirstPart, LastPart
<1> HIDE DEF a, b, u
<1>5. aw \in Seq(T) /\ a \o <<>> = a
  BY <1>4, ConcatProperties, ConcatEmptySeq
<1>6. S!Others(aw, w) = S!Others(a, w) \o S!Others(w, w) /\ S!Others(a, w) \in Seq(T)
  <2>1. OthersAdd(a, w, w) /\ S!Others(a, w) \in Seq(T)
    BY <1>4, OthersConcat
  <2> QED
    BY <2>1, Zenon DEF OthersAdd
<1> HIDE DEF aw
<1>7. S!Others(aw, w) = S!Others(a, w)
  <2>1. S!Others(w, w) = <<>>
    BY OthersItself
  <2>2. S!Others(a, w) \o <<>> = S!Others(a, w)
    BY <1>6, ConcatEmptySeq
  <2> QED
    BY <1>6, <2>1, <2>2, Zenon
<1>8. /\ S!Others(aw \o b, w) = S!Others(aw, w) \o S!Others(b, w)
      /\ S!Others(a \o b, w) = S!Others(a, w) \o S!Others(b, w)
  <2>1. OthersAdd(aw, b, w) /\ OthersAdd(a, b, w)
    BY <1>4, <1>5, OthersConcat
  <2> QED
    BY <2>1, Zenon DEF OthersAdd
<1>9. u = a \o b
  BY <1>3, <1>5, Zenon
<1> QED
  BY <1>2, <1>7, <1>8, <1>9, Zenon DEF u, j

\* The text is what a function of C sees.
Clean(s) == /\ s.bytes[s.length] = Nul
            /\ \A k \in 0 .. s.length - 1 : s.bytes[k] # Nul

LEMMA CleanCChars ==
  ASSUME NEW s, NEW cap, Buffer(s, cap), Clean(s)
  PROVE  S!CChars(s) = S!Chars(s) /\ Ended(s)
<1> DEFINE f == Len(S!CChars(s))
<1>1. /\ f \in 0 .. cap /\ S!CChars(s) = S!Items(s.bytes, 0, f) /\ s.bytes[f] = Nul
      /\ \A i \in 0 .. cap : s.bytes[i] = Nul => f <= i
  BY CCharsAre
<1>2. s.length \in 0 .. cap /\ s.length \in 0 .. s.length /\ cap \in Nat
  BY DEF Buffer
<1> HIDE DEF f
<1>3. f = s.length
  <2>1. f <= s.length /\ f \notin 0 .. s.length - 1
    BY <1>1, <1>2 DEF Clean
  <2> QED
    BY <1>1, <1>2, <2>1
<1> QED
  BY <1>1, <1>2, <1>3 DEF S!Chars, Clean, Ended

LEMMA CleanTurn ==
  ASSUME S!StrAssumption, NEW s, NEW cap, Buffer(s, cap), Clean(s), NEW w \in Seq(Letter), w # <<>>,
         NEW r, r = S!DelstrTurn(s, w)
  PROVE  /\ Buffer(r, cap) /\ Clean(r)
         /\ S!Others(S!Chars(r), w) = S!Others(S!Chars(s), w)
         /\ IF Misses(S!Chars(s), w) THEN r = s ELSE r.length < s.length
<1> DEFINE t == S!Chars(s)
           p == S!CstrIndex(t, w)
           j == p + Len(w)
<1>1. /\ w \in Seq(Byte) /\ Len(w) \in Nat /\ Len(w) # 0 /\ s.length \in Nat
  BY EmptySeq, LenProperties DEF Byte, Buffer
<1>2. t \in Seq(Byte) /\ Len(t) = s.length
  BY TextIs
<1>3. S!CChars(s) = t
  BY CleanCChars
<1>4. Misses(t, w) <=> p = S!Npos
  BY DEF Misses
<1>5. CASE p = S!Npos
  BY <1>3, <1>4, <1>5 DEF S!DelstrTurn
<1>6. CASE p # S!Npos
  <2>1. p \in 0 .. Len(t) - Len(w) /\ S!MatchesAt(t, w, p)
    <3>1. FirstAt(t, w, p)
      <4> HIDE DEF t
      <4> QED
        BY <1>1, <1>2, CstrIndexIs
    <3> QED
      BY <1>6, <3>1 DEF FirstAt
  <2>2. r = Closing(s, p, j)
    <3>1. s.length - Len(w) = s.length - (j - p) /\ s.length - p - Len(w) + 1 = s.length - j + 1
      BY <1>1, <1>2, <2>1
    <3> QED
      BY <1>3, <1>6, <3>1 DEF S!DelstrTurn, Closing
  <2>3. S!Others(Spliced(t, p, <<>>, j), w) = S!Others(t, w)
    <3> HIDE DEF t, p
    <3> QED
      BY <1>1, <1>2, <2>1, OthersWithout
  <2> HIDE DEF p, t
  <2>4. p \in 0 .. s.length /\ j \in p .. s.length /\ j - p = Len(w)
    BY <1>1, <1>2, <2>1
  <2> HIDE DEF j
  <2>5. /\ Buffer(r, cap) /\ Edits(s, p, <<>>, j, r)
        /\ \A k \in p .. r.length : r.bytes[k] = s.bytes[k + (j - p)]
    BY <2>2, <2>4, ClosingEdits
  <2>6. r.length = s.length - (j - p)
    BY <2>2 DEF Closing
  <2>7. S!Chars(r) = Spliced(t, p, <<>>, j)
    BY <2>4, <2>5, EmptySeq, EditsText DEF t
  <2>8. Clean(r)
    <3>1. r.length \in p .. r.length /\ r.length + (j - p) = s.length /\ r.length \in Nat
      BY <1>1, <2>4, <2>6
    <3>2. r.bytes[r.length] = Nul
      BY <2>5, <3>1 DEF Clean
    <3>3. ASSUME NEW k \in 0 .. r.length - 1 PROVE r.bytes[k] # Nul
      <4>1. CASE k < p
        <5>1. r.bytes[k] = s.bytes[k] /\ k \in 0 .. s.length - 1
          BY <1>1, <2>4, <2>5, <2>6, <4>1 DEF Edits
        <5> QED
          BY <5>1 DEF Clean
      <4>2. CASE ~(k < p)
        <5>1. k \in p .. r.length /\ k + (j - p) \in 0 .. s.length - 1
          BY <1>1, <2>4, <2>6, <4>2
        <5> QED
          BY <2>5, <5>1 DEF Clean
      <4> QED
        BY <4>1, <4>2
    <3> QED
      BY <3>2, <3>3 DEF Clean
  <2>9. r.length < s.length
    BY <1>1, <2>4, <2>6
  <2> QED
    BY <1>4, <1>6, <2>3, <2>5, <2>7, <2>8, <2>9 DEF t, p
<1> QED
  BY <1>5, <1>6

LEMMA DelstrRemoves ==
  ASSUME S!StrAssumption, NEW s, NEW cap, Buffer(s, cap), Clean(s), NEW w \in Seq(Letter), w # <<>>,
         NEW r, r = S!Delstred(s, w)
  PROVE  /\ Buffer(r, cap) /\ Clean(r)
         /\ S!Others(S!Chars(r), w) = S!Others(S!Chars(s), w)
         /\ Misses(S!Chars(r), w)
<1> DEFINE n == s.length
           u == S!DelstrTurns(s, w)
           Left(v, i) == Misses(S!Chars(v), w) \/ v.length + i <= n
           Kept(v) == /\ Buffer(v, cap) /\ Clean(v)
                      /\ S!Others(S!Chars(v), w) = S!Others(S!Chars(s), w)
           Z == {i \in 0 .. n : Kept(u[i]) /\ Left(u[i], i)}
<1>1. n \in Nat
  BY DEF Buffer
<1>2. u[0] = s /\ \A i \in 1 .. n : u[i] = S!DelstrTurn(u[i - 1], w)
  BY <1>1, DelstrLoop
<1>3. r = u[n]
  BY DEF S!Delstred
<1> HIDE DEF u
<1>4. 0 \in Z
  <2>1. n + 0 <= n /\ 0 \in 0 .. n
    BY <1>1
  <2> QED
    BY <1>2, <2>1
<1>5. ASSUME NEW i \in 1 .. n, i - 1 \in Z PROVE i \in Z
  <2> DEFINE v == u[i - 1]
             x == u[i]
  <2>1. x = S!DelstrTurn(v, w) /\ Kept(v) /\ Left(v, i - 1)
    BY <1>2, <1>5
  <2> HIDE DEF v, x
  <2>2. /\ Buffer(x, cap) /\ Clean(x)
        /\ S!Others(S!Chars(x), w) = S!Others(S!Chars(v), w)
        /\ IF Misses(S!Chars(v), w) THEN x = v ELSE x.length < v.length
    BY <2>1, CleanTurn
  <2>3. v.length \in Nat /\ x.length \in Nat
    BY <2>1, <2>2 DEF Buffer
  <2>4. Kept(x) /\ Left(x, i)
    BY <1>1, <2>1, <2>2, <2>3
  <2> QED
    BY <1>1, <2>4 DEF x
<1>6. n \in Z
  <2> HIDE DEF Z
  <2>1. 0 .. n \subseteq Z
    BY <1>1, <1>4, <1>5, InductionUpTo
  <2> QED
    BY <1>1, <2>1
<1>7. Kept(r) /\ Left(r, n)
  BY <1>3, <1>6
<1>8. Misses(S!Chars(r), w)
  <2>1. S!Chars(r) \in Seq(Byte) /\ Len(S!Chars(r)) = r.length /\ r.length \in Nat
    BY <1>7, TextIs DEF Buffer
  <2>2. r.length + n <= n => Len(S!Chars(r)) <= 0
    BY <1>1, <2>1
  <2>3. w \in Seq(Byte)
    BY DEF Byte
  <2> QED
    BY <1>7, <2>1, <2>2, <2>3, ShortMisses
<1> QED
  BY <1>7, <1>8

\* str_delstr_n leaves no occurrence, not even one that a removal brought
\* together, loses no other letter, and closes the text.
THEOREM DelstrIsThorough == ASSUME S!StrAssumption PROVE S!Spec => DelstrRemovesAll
<1> DEFINE Thorough ==
      \A w \in S!Words : S!Delstr(w) /\ S!Closed /\ Nul \notin S!ToSet(S!Text) =>
        /\ S!Closed'
        /\ S!CstrIndex(S!Text', w) = S!Npos
        /\ S!Others(S!Text', w) = S!Others(S!Text, w)
<1>1. ASSUME StrInv, NEW w \in S!Words, S!Delstr(w), S!Closed, Nul \notin S!ToSet(S!Text)
      PROVE  /\ S!Closed'
             /\ S!CstrIndex(S!Text', w) = S!Npos
             /\ S!Others(S!Text', w) = S!Others(S!Text, w)
  <2>1. PICK cap \in Nat : Buffer(str, cap)
    BY <1>1 DEF StrInv, S!Delstr
  <2>2. Clean(str)
    <3>1. /\ S!Text \in Seq(Byte) /\ Len(S!Text) = str.length /\ str.length \in Nat
          /\ \A k \in 1 .. str.length : S!Text[k] = str.bytes[k - 1]
      BY <2>1, TextIs DEF S!Text, Buffer
    <3> HIDE DEF S!Text
    <3>2. ASSUME NEW k \in 0 .. str.length - 1 PROVE str.bytes[k] # Nul
      <4>1. k + 1 \in 1 .. str.length /\ k + 1 - 1 = k
        BY <3>1
      <4>2. k + 1 \in DOMAIN S!Text
        BY <3>1, <4>1
      <4>3. S!Text[k + 1] \in S!ToSet(S!Text)
        BY <4>2 DEF S!ToSet
      <4> QED
        BY <1>1, <3>1, <4>1, <4>3
    <3> QED
      BY <1>1, <3>2 DEF Clean, S!Closed
  <2>3. w \in Seq(Letter) /\ w # <<>> /\ str' = S!Delstred(str, w)
    BY <1>1, WordsAre DEF S!Delstr
  <2>4. /\ Buffer(str', cap) /\ Clean(str')
        /\ S!Others(S!Chars(str'), w) = S!Others(S!Chars(str), w)
        /\ Misses(S!Chars(str'), w)
    BY <2>1, <2>2, <2>3, DelstrRemoves
  <2> QED
    BY <2>4, BufferIsStr DEF S!Text, S!Closed, Misses, Clean
<1>2. StrInv /\ [S!Next]_(S!vars) => [Thorough]_(S!vars)
  BY <1>1
<1>3. S!Spec => [][Thorough]_(S!vars)
  BY <1>2, StrInductive, PTL DEF S!Spec
<1> QED
  BY <1>3 DEF DelstrRemovesAll, S!DelstrRemovesAll

-----------------------------------------------------------------------------
\* UDev.

\* The j-th line of an event of p, and whatever can be in the pipe.
Line(a, p, j) == U!Lines(a, p)[j]
AnyLine == [line : {"header"}, action : {"add", "remove", "change"}, subsystem : {Subsystem[p] : p \in Path}]
             \cup [line : {"property"}, key : {"DEVPATH", "DEVTYPE"}, value : Path \cup {DevType[p] : p \in Path}]
             \cup [line : {"blank"}]

\* Of the lines of all the events, which were act[k] of path[k], c were read and
\* the others are in the pipe.
Log(c, act, path_) ==
  /\ c \in Nat /\ events \in Nat /\ pipe \in Seq(AnyLine) /\ c + Len(pipe) = 4 * events
  /\ \A k \in 1 .. events : act[k] \in {"add", "remove", "change"} /\ path_[k] \in Path
  /\ \A k \in 1 .. events, j \in 1 .. 4 :
       4 * (k - 1) + j > c => pipe[4 * (k - 1) + j - c] = Line(act[k], path_[k], j)

\* Whether the script reads an event or skips it, and what it knows of the
\* event when j of its lines were read.
IsRead(a, p) == a \in {"add", "remove"} /\ Subsystem[p] = "usb"
Halfway(j, a, p) ==
  IF j = 0 \/ ~IsRead(a, p) THEN device = Quiet
  ELSE /\ device \in U!Event /\ device.event = a
       /\ j >= 2 => "DEVPATH" \in DOMAIN device.detail /\ device.detail["DEVPATH"] = p
       /\ j >= 3 => "DEVTYPE" \in DOMAIN device.detail /\ device.detail["DEVTYPE"] = DevType[p]

\* The script is at the line where the log says it is.
Reader(c, act, path_) ==
  /\ c = 4 * events => device = Quiet
  /\ \A k \in 1 .. events : 4 * (k - 1) <= c /\ c < 4 * k => Halfway(c - 4 * (k - 1), act[k], path_[k])

\* The events that the table does not show yet: the last of a device tells
\* whether it is there.
Ahead(c, act, path_, p) ==
  {k \in 1 .. events : 4 * k > c /\ path_[k] = p /\ act[k] \in {"add", "remove"}}

\* A device is in the table as it should be once the events ahead are read.
Settled(c, act, path_) ==
  /\ announced \subseteq Path /\ devices \subseteq {p \in Path : U!IsUsbDevice(p)}
  /\ \A p \in Path : U!IsUsbDevice(p) =>
       \/ Ahead(c, act, path_, p) = {} /\ (p \in announced <=> p \in devices)
       \/ \E k \in Ahead(c, act, path_, p) : /\ \A i \in Ahead(c, act, path_, p) : i <= k
                                             /\ p \in announced <=> act[k] = "add"

UDevInv == \E c, act, path_ : Log(c, act, path_) /\ Reader(c, act, path_) /\ Settled(c, act, path_)

\* An event is four lines.
LEMMA LinesAre ==
  ASSUME NEW a \in {"add", "remove", "change"}, NEW p \in Path
  PROVE  /\ Line(a, p, 1) = U!Header(a, p) /\ Line(a, p, 2) = U!Property("DEVPATH", p)
         /\ Line(a, p, 3) = U!Property("DEVTYPE", DevType[p]) /\ Line(a, p, 4) = U!Blank
         /\ Len(U!Lines(a, p)) = 4 /\ U!Lines(a, p) \in Seq(AnyLine)
         /\ \A j \in 1 .. 4 : Line(a, p, j) \in AnyLine
<1> DEFINE h == U!Header(a, p)
           x == U!Property("DEVPATH", p)
           y == U!Property("DEVTYPE", DevType[p])
           b == U!Blank
<1>1. h \in AnyLine /\ x \in AnyLine /\ y \in AnyLine /\ b \in AnyLine
  BY DEF U!Header, U!Property, U!Blank, AnyLine
<1>2. U!Lines(a, p) = <<h, x, y, b>>
  BY DEF U!Lines
<1> HIDE DEF h, x, y, b
<1>3. /\ U!Lines(a, p)[1] = h /\ U!Lines(a, p)[2] = x /\ U!Lines(a, p)[3] = y /\ U!Lines(a, p)[4] = b
      /\ Len(U!Lines(a, p)) = 4 /\ U!Lines(a, p) \in Seq(AnyLine)
  BY <1>1, <1>2
<1>4. \A j \in 1 .. 4 : j = 1 \/ j = 2 \/ j = 3 \/ j = 4
  OBVIOUS
<1> QED
  BY <1>1, <1>3, <1>4, Zenon DEF Line, h, x, y, b

\* In the beginning no event was sent.
LEMMA UDevInit == U!Init => UDevInv
<1> SUFFICES ASSUME U!Init PROVE UDevInv
  OBVIOUS
<1>1. announced = {} /\ events = 0 /\ pipe = <<>> /\ device = Quiet /\ devices = {}
  BY DEF U!Init
<1>2. Log(0, <<>>, <<>>)
  BY <1>1 DEF Log
<1>3. Reader(0, <<>>, <<>>)
  BY <1>1 DEF Reader
<1>4. \A p : Ahead(0, <<>>, <<>>, p) = {}
  BY <1>1 DEF Ahead
<1>5. Settled(0, <<>>, <<>>)
  BY <1>1, <1>4, Zenon DEF Settled
<1> QED
  BY <1>2, <1>3, <1>5, Zenon DEF UDevInv

\* Another event.
LEMMA UDevSend ==
  ASSUME UDevInv, NEW a \in {"add", "remove", "change"}, NEW p \in Path, U!Send(a, p),
         announced' = IF a = "add" THEN announced \cup {p} ELSE IF a = "remove" THEN announced \ {p} ELSE announced
  PROVE  UDevInv'
<1>1. PICK c, act, path_ : Log(c, act, path_) /\ Reader(c, act, path_) /\ Settled(c, act, path_)
  BY Zenon DEF UDevInv
<1>2. events' = events + 1 /\ pipe' = pipe \o U!Lines(a, p) /\ device' = device /\ devices' = devices
  BY DEF U!Send
<1>0. PICK n : n = events + 1
  OBVIOUS
<1> DEFINE act2 == [k \in 1 .. n |-> IF k = n THEN a ELSE act[k]]
           path2 == [k \in 1 .. n |-> IF k = n THEN p ELSE path_[k]]
<1>3. /\ c \in Nat /\ events \in Nat /\ pipe \in Seq(AnyLine) /\ c + Len(pipe) = 4 * events /\ Len(pipe) \in Nat
      /\ \A k \in 1 .. events : act[k] \in {"add", "remove", "change"} /\ path_[k] \in Path
      /\ \A k \in 1 .. events, j \in 1 .. 4 :
           4 * (k - 1) + j > c => pipe[4 * (k - 1) + j - c] = Line(act[k], path_[k], j)
  <2>1. pipe \in Seq(AnyLine)
    BY <1>1 DEF Log
  <2> QED
    BY <1>1, <2>1, LenProperties DEF Log
<1>4. n \in Nat /\ n = events + 1 /\ events' = n /\ n \in 1 .. n /\ (\A k \in 1 .. events : k \in 1 .. n /\ k # n)
      /\ \A k \in 1 .. n : k = n \/ k \in 1 .. events
  BY <1>0, <1>2, <1>3
<1>5. /\ act2[n] = a /\ path2[n] = p
      /\ \A k \in 1 .. events : act2[k] = act[k] /\ path2[k] = path_[k]
  BY <1>4
<1> HIDE DEF act2, path2
<1>6. Log(c, act2, path2)'
  <2> DEFINE ls == U!Lines(a, p)
  <2>1. ls \in Seq(AnyLine) /\ Len(ls) = 4 /\ \A j \in 1 .. 4 : ls[j] = Line(a, p, j)
    BY LinesAre, Zenon DEF Line
  <2> HIDE DEF ls
  <2>2. Joins(AnyLine, pipe, ls, pipe')
    BY <1>2, <1>3, <2>1, Concatenated DEF ls
  <2>3. pipe' \in Seq(AnyLine) /\ Len(pipe') = Len(pipe) + 4
        /\ \A k \in 1 .. Len(pipe) + 4 : pipe'[k] = IF k <= Len(pipe) THEN pipe[k] ELSE ls[k - Len(pipe)]
    BY <2>1, <2>2, Zenon DEF Joins
  <2>4. c + Len(pipe') = 4 * n
    <3>1. PICK m \in Nat : m = Len(pipe) /\ c + m = 4 * events
      BY <1>3
    <3>2. c \in Nat /\ events \in Nat /\ n = events + 1
      BY <1>3, <1>4, Zenon
    <3>3. c + (m + 4) = 4 * n
      BY <3>1, <3>2
    <3> QED
      BY <2>3, <3>1, <3>3
  <2>5. \A k \in 1 .. n : act2[k] \in {"add", "remove", "change"} /\ path2[k] \in Path
    BY <1>3, <1>4, <1>5, Zenon
  <2>6. ASSUME NEW k \in 1 .. n, NEW j \in 1 .. 4, 4 * (k - 1) + j > c
        PROVE  pipe'[4 * (k - 1) + j - c] = Line(act2[k], path2[k], j)
    <3> DEFINE i == 4 * (k - 1) + j - c
    <3>1. CASE k = n
      <4>0. PICK m \in Nat : m = Len(pipe) /\ c + m = 4 * events
        BY <1>3
      <4>1. i = m + j /\ i \in 1 .. m + 4 /\ ~(i <= m) /\ i - m = j
        BY <1>3, <1>4, <3>1, <4>0
      <4>2. pipe'[i] = ls[j]
        <5> HIDE DEF i
        <5> QED
          BY <2>3, <4>0, <4>1
      <4> HIDE DEF i
      <4> QED
        BY <1>5, <2>1, <3>1, <4>2, Zenon DEF i
    <3>2. CASE k \in 1 .. events
      <4>1. i \in 1 .. Len(pipe) + 4 /\ i <= Len(pipe)
        BY <1>3, <1>4, <2>6, <3>2
      <4>2. pipe'[i] = pipe[i]
        <5> HIDE DEF i
        <5> QED
          BY <2>3, <4>1
      <4>3. pipe[i] = Line(act[k], path_[k], j)
        BY <1>3, <2>6, <3>2
      <4> HIDE DEF i
      <4> QED
        BY <1>5, <3>2, <4>2, <4>3, Zenon DEF i
    <3> QED
      BY <1>4, <3>1, <3>2
  <2> QED
    BY <1>3, <1>4, <2>3, <2>4, <2>5, <2>6, Zenon DEF Log
<1>7. Reader(c, act2, path2)'
  <2>1. c # 4 * n
    BY <1>3, <1>4
  <2>2. ASSUME NEW k \in 1 .. n, 4 * (k - 1) <= c, c < 4 * k
        PROVE  Halfway(c - 4 * (k - 1), act2[k], path2[k])'
    <3>1. CASE k = n
      <4>1. c = 4 * events /\ c - 4 * (k - 1) = 0
        BY <1>3, <1>4, <2>2, <3>1
      <4>2. device = Quiet
        BY <1>1, <4>1, Zenon DEF Reader
      <4> QED
        BY <1>2, <4>1, <4>2, Zenon DEF Halfway
    <3>2. CASE k \in 1 .. events
      <4>1. Halfway(c - 4 * (k - 1), act[k], path_[k])
        BY <1>1, <2>2, <3>2, Zenon DEF Reader
      <4>2. act2[k] = act[k] /\ path2[k] = path_[k]
        BY <1>5, <3>2
      <4> QED
        BY <1>2, <4>1, <4>2, Zenon DEF Halfway
    <3> QED
      BY <1>4, <3>1, <3>2
  <2> QED
    BY <1>4, <2>1, <2>2, Zenon DEF Reader
<1>8. Settled(c, act2, path2)'
  <2>1. announced \subseteq Path /\ devices \subseteq {q \in Path : U!IsUsbDevice(q)}
    BY <1>1, Zenon DEF Settled
  <2>2. announced' \subseteq Path /\ devices' \subseteq {q \in Path : U!IsUsbDevice(q)}
    BY <1>2, <2>1
  <2>3. ASSUME NEW q \in Path
        PROVE  Ahead(c, act2, path2, q)' = Ahead(c, act, path_, q) \cup (IF q = p /\ a # "change" THEN {n} ELSE {})
    <3>1. \A k \in 1 .. events :
             4 * k > c /\ path2[k] = q /\ act2[k] \in {"add", "remove"} <=> 4 * k > c /\ path_[k] = q /\ act[k] \in {"add", "remove"}
      BY <1>5, Zenon
    <3>2. 4 * n > c
      BY <1>3, <1>4
    <3>3. a \in {"add", "remove"} <=> a # "change"
      OBVIOUS
    <3>4. Ahead(c, act2, path2, q)' = {k \in 1 .. n : 4 * k > c /\ path2[k] = q /\ act2[k] \in {"add", "remove"}}
      BY <1>4, Zenon DEF Ahead
    <3>5. Ahead(c, act, path_, q) = {k \in 1 .. events : 4 * k > c /\ path_[k] = q /\ act[k] \in {"add", "remove"}}
      BY DEF Ahead
    <3> QED
      BY <1>4, <1>5, <3>1, <3>2, <3>3, <3>4, <3>5
  <2>4. ASSUME NEW q \in Path, U!IsUsbDevice(q)
        PROVE  \/ Ahead(c, act2, path2, q)' = {} /\ (q \in announced' <=> q \in devices')
               \/ \E k \in Ahead(c, act2, path2, q)' : /\ \A i \in Ahead(c, act2, path2, q)' : i <= k
                                                       /\ q \in announced' <=> act2[k] = "add"
    <3>1. \A i \in Ahead(c, act, path_, q) : i \in 1 .. events /\ i <= n
      BY <1>3, <1>4 DEF Ahead
    <3>2. CASE q = p /\ a # "change"
      <4>1. n \in Ahead(c, act2, path2, q)' /\ \A i \in Ahead(c, act2, path2, q)' : i <= n
        BY <1>4, <2>3, <3>1, <3>2
      <4>2. q \in announced' <=> act2[n] = "add"
        BY <1>5, <3>2
      <4> QED
        BY <4>1, <4>2, Zenon
    <3>3. CASE ~(q = p /\ a # "change")
      <4>1. Ahead(c, act2, path2, q)' = Ahead(c, act, path_, q)
        BY <2>3, <3>3
      <4>2. q \in announced' <=> q \in announced
        BY <3>3
      <4>3. \A k \in Ahead(c, act, path_, q) : act2[k] = act[k]
        BY <1>5, <3>1
      <4>4. \/ Ahead(c, act, path_, q) = {} /\ (q \in announced <=> q \in devices)
            \/ \E k \in Ahead(c, act, path_, q) : /\ \A i \in Ahead(c, act, path_, q) : i <= k
                                                  /\ q \in announced <=> act[k] = "add"
        BY <1>1, <2>4, Zenon DEF Settled
      <4>5. devices' = devices
        BY <1>2
      <4> QED
        BY <4>1, <4>2, <4>3, <4>4, <4>5, Zenon
    <3> QED
      BY <3>2, <3>3
  <2> QED
    BY <2>2, <2>4, Zenon DEF Settled
<1> QED
  BY <1>6, <1>7, <1>8, Zenon DEF UDevInv

\* What a line of an event does to the event that is being read and to the table.
LEMMA UDevLine ==
  ASSUME U!UDevAssumption, NEW a \in {"add", "remove", "change"}, NEW p \in Path, NEW j \in 1 .. 4,
         Halfway(j - 1, a, p), Head(pipe) = Line(a, p, j), U!ReadLine
  PROVE  /\ j < 4 => Halfway(j, a, p)' /\ devices' = devices
         /\ j = 4 => /\ device' = Quiet
                     /\ devices' = IF ~IsRead(a, p) \/ DevType[p] \notin DeviceType THEN devices
                                   ELSE IF a = "add" THEN devices \cup {p} ELSE devices \ {p}
<1> DEFINE l == Head(pipe)
           x == "DEVPATH"
           y == "DEVTYPE"
<1>1. /\ j = 1 => l = U!Header(a, p)
      /\ j = 2 => l = U!Property("DEVPATH", p)
      /\ j = 3 => l = U!Property("DEVTYPE", DevType[p])
      /\ j = 4 => l = U!Blank
  BY LinesAre, Zenon
<1>2. U!ReadHeader(l) \/ U!ReadDetail(l) \/ U!Yield(l)
  BY Zenon DEF U!ReadLine
<1> HIDE DEF l
<1>3. CASE j = 1
  <2>1. device = Quiet
    BY <1>3 DEF Halfway
  <2>2. l = [line |-> "header", action |-> a, subsystem |-> Subsystem[p]]
    BY <1>1, <1>3 DEF U!Header
  <2>3. U!ReadHeader(l)
    BY <1>2, <2>1, Zenon DEF U!ReadDetail, U!Yield
  <2>4. U!Starts(l) <=> IsRead(a, p)
    BY <2>2 DEF U!Starts, IsRead
  <2>5. devices' = devices /\ device' = IF IsRead(a, p) THEN [event |-> a, detail |-> <<>>] ELSE Quiet
    BY <2>2, <2>3, <2>4 DEF U!ReadHeader
  <2>6. ASSUME IsRead(a, p) PROVE device' \in U!Event /\ device'.event = a
    <3>1. device' = [event |-> a, detail |-> <<>>] /\ a \in {"add", "remove"}
      BY <2>5, <2>6 DEF IsRead
    <3>2. <<>> \in U!Detail
      <4>1. <<>> \in [{} -> Path \cup {DevType[q] : q \in Path}] /\ {} \in SUBSET {"DEVPATH", "DEVTYPE"}
        OBVIOUS
      <4> QED
        BY <4>1 DEF U!Detail
    <3> QED
      BY <3>1, <3>2 DEF U!Event
  <2> QED
    BY <1>3, <2>5, <2>6 DEF Halfway
<1>4. CASE j # 1 /\ ~IsRead(a, p)
  <2>1. device = Quiet
    BY <1>4 DEF Halfway
  <2>2. l.line # "header"
    BY <1>1, <1>4 DEF U!Property, U!Blank
  <2>3. U!ReadHeader(l)
    BY <1>2, <2>1, Zenon DEF U!ReadDetail, U!Yield
  <2>4. device' = Quiet /\ devices' = devices
    BY <2>2, <2>3, Zenon DEF U!ReadHeader, U!Starts
  <2> QED
    BY <1>4, <2>4 DEF Halfway
<1>5. CASE j # 1 /\ IsRead(a, p)
  <2>1. /\ device \in U!Event /\ device.event = a
        /\ j >= 3 => "DEVPATH" \in DOMAIN device.detail /\ device.detail["DEVPATH"] = p
        /\ j >= 4 => "DEVTYPE" \in DOMAIN device.detail /\ device.detail["DEVTYPE"] = DevType[p]
    BY <1>5 DEF Halfway
  <2>2. device # Quiet
    BY <2>1 DEF U!UDevAssumption
  <2>3. ~U!ReadHeader(l)
    BY <2>2, Zenon DEF U!ReadHeader
  <2>4. CASE j = 4
    <3>1. l.line = "blank"
      BY <1>1, <2>4 DEF U!Blank
    <3>2. U!Yield(l)
      BY <1>2, <2>3, <3>1, Zenon DEF U!ReadDetail
    <3>3. U!IsDevice(device) <=> DevType[p] \in DeviceType
      BY <2>1, <2>4 DEF U!IsDevice
    <3>4. device.detail["DEVPATH"] = p /\ device.event = a
      BY <2>1, <2>4
    <3> QED
      BY <1>5, <2>4, <3>2, <3>3, <3>4 DEF U!Yield
  <2>5. CASE j \in {2, 3}
    <3>1. PICK key \in {"DEVPATH", "DEVTYPE"}, value_ \in Path \cup {DevType[q] : q \in Path} :
            /\ l = U!Property(key, value_)
            /\ j = 2 => key = "DEVPATH" /\ value_ = p
            /\ j = 3 => key = "DEVTYPE" /\ value_ = DevType[p]
      BY <1>1, <2>5
    <3>2. l.line = "property" /\ l.key = key /\ l.value = value_
      BY <3>1 DEF U!Property
    <3>3. U!ReadDetail(l)
      BY <1>2, <2>3, <3>2 DEF U!Yield
    <3>4. device.detail \in U!Detail /\ device = [event |-> a, detail |-> device.detail] /\ a \in {"add", "remove"}
      BY <1>5, <2>1 DEF U!Event, IsRead
    <3> DEFINE d == device.detail
               e == [k \in {key} \cup DOMAIN d |-> IF k = key THEN value_ ELSE d[k]]
    <3>5. device' = [event |-> a, detail |-> e] /\ devices' = devices
      BY <3>2, <3>3, <3>4 DEF U!ReadDetail
    <3>6. PICK keys \in SUBSET {"DEVPATH", "DEVTYPE"} : d \in [keys -> Path \cup {DevType[q] : q \in Path}]
      BY <3>4 DEF U!Detail
    <3>7. e \in [{key} \cup keys -> Path \cup {DevType[q] : q \in Path}] /\ {key} \cup keys \in SUBSET {"DEVPATH", "DEVTYPE"}
      BY <3>6
    <3>8. DOMAIN e = {key} \cup DOMAIN d /\ e[key] = value_ /\ \A k \in DOMAIN d : k # key => e[k] = d[k]
      OBVIOUS
    <3>9. j = 3 => "DEVPATH" \in DOMAIN d /\ d["DEVPATH"] = p
      BY <2>1
    <3> HIDE DEF e, d
    <3>10. e \in U!Detail
      BY <3>7 DEF U!Detail
    <3>11. device' \in U!Event /\ device'.event = a /\ device'.detail = e
      BY <3>4, <3>5, <3>10 DEF U!Event
    <3>12. /\ "DEVPATH" \in DOMAIN e /\ e["DEVPATH"] = p
           /\ j = 3 => "DEVTYPE" \in DOMAIN e /\ e["DEVTYPE"] = DevType[p]
      <4>1. CASE j = 2
        BY <3>1, <3>8, <4>1
      <4>2. CASE j = 3
        BY <3>1, <3>8, <3>9, <4>2
      <4> QED
        BY <2>5, <4>1, <4>2
    <3> QED
      BY <1>5, <2>5, <3>5, <3>11, <3>12 DEF Halfway
  <2>6. j = 4 \/ j \in {2, 3}
    BY <1>5
  <2> QED
    BY <2>4, <2>5, <2>6
<1> QED
  BY <1>3, <1>4, <1>5

\* The next line is read.
LEMMA UDevRead == ASSUME UDevInv, U!UDevAssumption, U!ReadLine PROVE UDevInv'
<1>1. PICK c, act, path_ : Log(c, act, path_) /\ Reader(c, act, path_) /\ Settled(c, act, path_)
  BY Zenon DEF UDevInv
<1>2. pipe # <<>> /\ pipe' = Tail(pipe) /\ announced' = announced /\ events' = events
  BY DEF U!ReadLine
<1>3. /\ c \in Nat /\ events \in Nat /\ pipe \in Seq(AnyLine)
      /\ \A k \in 1 .. events : act[k] \in {"add", "remove", "change"} /\ path_[k] \in Path
      /\ \A k \in 1 .. events, j \in 1 .. 4 :
           4 * (k - 1) + j > c => pipe[4 * (k - 1) + j - c] = Line(act[k], path_[k], j)
  BY <1>1, Zenon DEF Log
<1>4. PICK m \in Nat : m = Len(pipe) /\ m > 0 /\ c + m = 4 * events
  <2>1. Len(pipe) \in Nat /\ Len(pipe) # 0
    BY <1>2, <1>3
  <2> QED
    BY <1>1, <2>1 DEF Log
<1>5. PICK k \in 1 .. events, j \in 1 .. 4 : c = 4 * (k - 1) + j - 1
  <2>1. PICK q \in Nat, r \in 0 .. 3 : c = 4 * q + r
    <3>1. c \div 4 \in Nat /\ c % 4 \in 0 .. 3 /\ c = 4 * (c \div 4) + (c % 4)
      BY <1>3
    <3> QED
      BY <3>1
  <2>2. q + 1 \in 1 .. events /\ r + 1 \in 1 .. 4
    BY <1>3, <1>4, <2>1
  <2>3. c = 4 * ((q + 1) - 1) + (r + 1) - 1
    BY <2>1
  <2> QED
    BY <2>2, <2>3
<1>6. PICK a \in {"add", "remove", "change"}, p \in Path : a = act[k] /\ p = path_[k]
  BY <1>3
<1>7. Head(pipe) = Line(a, p, j)
  <2>1. 4 * (k - 1) + j > c /\ 4 * (k - 1) + j - c = 1
    BY <1>3, <1>5
  <2>2. pipe[4 * (k - 1) + j - c] = Line(act[k], path_[k], j)
    BY <1>3, <2>1
  <2>3. Head(pipe) = pipe[1]
    BY <1>2, <1>3
  <2> QED
    BY <1>6, <2>1, <2>2, <2>3
<1>8. Halfway(j - 1, a, p)
  <2>1. 4 * (k - 1) <= c /\ c < 4 * k /\ c - 4 * (k - 1) = j - 1
    BY <1>3, <1>5
  <2>2. Halfway(c - 4 * (k - 1), act[k], path_[k])
    BY <1>1, <2>1, Zenon DEF Reader
  <2> QED
    BY <1>6, <2>1, <2>2
<1>9. /\ j < 4 => Halfway(j, a, p)' /\ devices' = devices
      /\ j = 4 => /\ device' = Quiet
                  /\ devices' = IF ~IsRead(a, p) \/ DevType[p] \notin DeviceType THEN devices
                                ELSE IF a = "add" THEN devices \cup {p} ELSE devices \ {p}
  BY <1>7, <1>8, UDevLine
<1>10. Log(c + 1, act, path_)'
  <2>1. pipe' \in Seq(AnyLine) /\ Len(pipe') = m - 1 /\ \A i \in 1 .. m - 1 : pipe'[i] = pipe[i + 1]
    <3>1. Tail(pipe) \in Seq(AnyLine) /\ Len(Tail(pipe)) = Len(pipe) - 1
          /\ \A i \in 1 .. Len(pipe) - 1 : Tail(pipe)[i] = pipe[i + 1]
      BY <1>2, <1>3
    <3> QED
      BY <1>2, <1>4, <3>1
  <2>2. c + 1 \in Nat /\ (c + 1) + Len(pipe') = 4 * events
    <3>1. c \in Nat /\ c + m = 4 * events
      BY <1>3, <1>4
    <3>2. c + 1 \in Nat /\ (c + 1) + (m - 1) = 4 * events
      BY <3>1
    <3> QED
      BY <2>1, <3>2
  <2>3. ASSUME NEW i \in 1 .. events, NEW h \in 1 .. 4, 4 * (i - 1) + h > c + 1
        PROVE  pipe'[4 * (i - 1) + h - (c + 1)] = Line(act[i], path_[i], h)
    <3> DEFINE z == 4 * (i - 1) + h - (c + 1)
    <3>1. z \in 1 .. m - 1 /\ z + 1 = 4 * (i - 1) + h - c /\ 4 * (i - 1) + h > c
      BY <1>3, <1>4, <2>3
    <3>2. pipe[4 * (i - 1) + h - c] = Line(act[i], path_[i], h)
      BY <1>3, <3>1
    <3> HIDE DEF z
    <3>3. pipe'[z] = pipe[z + 1]
      BY <2>1, <3>1
    <3> QED
      BY <3>1, <3>2, <3>3 DEF z
  <2> QED
    BY <1>2, <1>3, <2>1, <2>2, <2>3, Zenon DEF Log
<1>11. Reader(c + 1, act, path_)'
  <2>1. c + 1 = 4 * events => j = 4
    BY <1>3, <1>5
  <2>2. ASSUME NEW i \in 1 .. events, 4 * (i - 1) <= c + 1, c + 1 < 4 * i
        PROVE  Halfway((c + 1) - 4 * (i - 1), act[i], path_[i])'
    <3>1. CASE j < 4
      <4>1. i = k /\ (c + 1) - 4 * (i - 1) = j
        BY <1>3, <1>5, <2>2, <3>1
      <4> QED
        BY <1>6, <1>9, <3>1, <4>1
    <3>2. CASE j = 4
      <4>1. (c + 1) - 4 * (i - 1) = 0
        BY <1>3, <1>5, <2>2, <3>2
      <4>2. device' = Quiet
        BY <1>9, <3>2
      <4> QED
        BY <4>1, <4>2, Zenon DEF Halfway
    <3> QED
      BY <3>1, <3>2
  <2> QED
    BY <1>2, <1>9, <2>1, <2>2, Zenon DEF Reader
<1>12. Settled(c + 1, act, path_)'
  <2>1. announced \subseteq Path /\ devices \subseteq {q \in Path : U!IsUsbDevice(q)}
    BY <1>1, Zenon DEF Settled
  <2>2. IsRead(a, p) /\ DevType[p] \in DeviceType <=> a \in {"add", "remove"} /\ U!IsUsbDevice(p)
    BY DEF IsRead, U!IsUsbDevice
  <2>3. announced' \subseteq Path /\ devices' \subseteq {q \in Path : U!IsUsbDevice(q)}
    BY <1>2, <1>9, <2>1, <2>2
  <2>4. ASSUME NEW i \in 1 .. events PROVE 4 * i > c + 1 <=> 4 * i > c /\ ~(j = 4 /\ i = k)
    BY <1>3, <1>5
  <2>5. ASSUME NEW q \in Path
        PROVE  Ahead(c + 1, act, path_, q)' = IF j = 4 THEN Ahead(c, act, path_, q) \ {k} ELSE Ahead(c, act, path_, q)
    <3>1. Ahead(c + 1, act, path_, q)' = {i \in 1 .. events : 4 * i > c + 1 /\ path_[i] = q /\ act[i] \in {"add", "remove"}}
      BY <1>2, Zenon DEF Ahead
    <3>2. Ahead(c, act, path_, q) = {i \in 1 .. events : 4 * i > c /\ path_[i] = q /\ act[i] \in {"add", "remove"}}
      BY DEF Ahead
    <3> QED
      BY <2>4, <3>1, <3>2
  <2>6. ASSUME NEW q \in Path, U!IsUsbDevice(q)
        PROVE  \/ Ahead(c + 1, act, path_, q)' = {} /\ (q \in announced' <=> q \in devices')
               \/ \E i \in Ahead(c + 1, act, path_, q)' : /\ \A h \in Ahead(c + 1, act, path_, q)' : h <= i
                                                          /\ q \in announced' <=> act[i] = "add"
    <3> DEFINE now == Ahead(c, act, path_, q)
               then == Ahead(c + 1, act, path_, q)'
    <3>1. \/ now = {} /\ (q \in announced <=> q \in devices)
          \/ \E i \in now : (\A h \in now : h <= i) /\ (q \in announced <=> act[i] = "add")
      BY <1>1, <2>6, Zenon DEF Settled
    <3>2. \A i \in now : i \in 1 .. events /\ i >= k
      BY <1>3, <1>5 DEF Ahead
    <3>3. k \in now <=> q = p /\ a \in {"add", "remove"}
      <4>1. 4 * k > c
        BY <1>3, <1>5
      <4> QED
        BY <1>6, <4>1 DEF Ahead
    <3>4. then = IF j = 4 THEN now \ {k} ELSE now
      BY <2>5
    <3> HIDE DEF now, then
    <3>5. CASE j = 4 /\ k \in now
      <4>1. q \in devices' <=> act[k] = "add"
        BY <1>6, <1>9, <2>2, <2>6, <3>3, <3>5
      <4>2. PICK i \in now : (\A h \in now : h <= i) /\ (q \in announced <=> act[i] = "add")
        BY <3>1, <3>5
      <4>3. CASE i = k
        <5>1. then = {}
          BY <3>2, <3>4, <3>5, <4>2, <4>3
        <5> QED
          BY <1>2, <4>1, <4>2, <4>3, <5>1, Zenon DEF then
      <4>4. CASE i # k
        <5>1. i \in then /\ \A h \in then : h <= i
          BY <3>4, <4>2, <4>4
        <5> QED
          BY <1>2, <4>2, <5>1, Zenon DEF then
      <4> QED
        BY <4>3, <4>4
    <3>6. CASE ~(j = 4 /\ k \in now)
      <4>1. then = now
        BY <3>4, <3>6
      <4>2. q \in devices' <=> q \in devices
        BY <1>9, <2>2, <2>6, <3>3, <3>6
      <4> QED
        BY <1>2, <3>1, <4>1, <4>2, Zenon DEF then
    <3> QED
      BY <3>5, <3>6
  <2> QED
    BY <2>3, <2>6, Zenon DEF Settled
<1> QED
  BY <1>10, <1>11, <1>12, Zenon DEF UDevInv

\* Every step keeps the invariant.
LEMMA UDevKept == ASSUME UDevInv, U!UDevAssumption, [U!Next]_udevVars PROVE UDevInv'
<1>1. ASSUME NEW p \in Path, U!Add(p) PROVE UDevInv'
  BY <1>1, UDevSend DEF U!Add
<1>2. ASSUME NEW p \in Path, U!Remove(p) PROVE UDevInv'
  BY <1>2, UDevSend DEF U!Remove
<1>3. ASSUME NEW p \in Path, U!Change(p) PROVE UDevInv'
  BY <1>3, UDevSend DEF U!Change
<1>4. CASE U!ReadLine
  BY <1>4, UDevRead
<1>5. CASE UNCHANGED udevVars
  <2>1. announced' = announced /\ events' = events /\ pipe' = pipe /\ device' = device /\ devices' = devices
    BY <1>5 DEF udevVars
  <2>2. PICK c, act, path_ : Log(c, act, path_) /\ Reader(c, act, path_) /\ Settled(c, act, path_)
    BY Zenon DEF UDevInv
  <2>3. Log(c, act, path_)'
    BY <2>1, <2>2, Zenon DEF Log
  <2>4. Reader(c, act, path_)'
    BY <2>1, <2>2, Zenon DEF Reader, Halfway
  <2>5. Settled(c, act, path_)'
    BY <2>1, <2>2, Zenon DEF Settled, Ahead
  <2> QED
    BY <2>3, <2>4, <2>5, Zenon DEF UDevInv
<1> QED
  BY <1>1, <1>2, <1>3, <1>4, <1>5, Zenon DEF U!Next

\* When nothing waits in the pipe, the table holds the USB devices, not their
\* interfaces nor devices of other subsystems, that were added and not removed
\* since the monitor was started: no event was lost, mixed up with the next one
\* or applied out of order.  CatchesUp adds that the pipe is emptied.
THEOREM TableIsRight ==
  ASSUME U!UDevAssumption
  PROVE  U!Spec => [](pipe = <<>> => devices = {p \in announced : U!IsUsbDevice(p)})
<1>1. U!Init => UDevInv
  BY UDevInit
<1>2. UDevInv /\ [U!Next]_udevVars => UDevInv'
  BY UDevKept
<1>3. UDevInv => (pipe = <<>> => devices = {p \in announced : U!IsUsbDevice(p)})
  <2> SUFFICES ASSUME UDevInv, pipe = <<>> PROVE devices = {p \in announced : U!IsUsbDevice(p)}
    OBVIOUS
  <2>1. PICK c, act, path_ : Log(c, act, path_) /\ Settled(c, act, path_)
    BY Zenon DEF UDevInv
  <2>2. events \in Nat /\ c = 4 * events
    BY <2>1 DEF Log
  <2>3. \A p : Ahead(c, act, path_, p) = {}
    BY <2>2 DEF Ahead
  <2>4. announced \subseteq Path /\ devices \subseteq {p \in Path : U!IsUsbDevice(p)}
        /\ \A p \in Path : U!IsUsbDevice(p) => (p \in announced <=> p \in devices)
    BY <2>1, <2>3, Zenon DEF Settled
  <2> QED
    BY <2>4
<1> QED
  BY <1>1, <1>2, <1>3, PTL DEF U!Spec, U!vars, udevVars
=============================================================================
