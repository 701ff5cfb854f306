------------------------------- MODULE MsgPack -------------------------------
(***************************************************************************)
(* C++/msgpack.h: a client packs values into a buffer, the buffer may lose *)
(* its end on the way, and msgpack::visit walks it and calls a visitor,    *)
(* which may return false from any call.  Heads, lengths and integers are  *)
(* the bytes of the format; those of strings, binaries and extensions are  *)
(* left open, and a visitor's argument is the place where they are.  The   *)
(* recursion of impl::visit is the stack `todo'.                           *)
(***************************************************************************)
EXTENDS Integers, SequencesExt

CONSTANTS Ints,     \* the <<type, value>> packed with pack_int
          Sizes,    \* kind -> the sizes it is packed with
          ExtType,  \* the type of the extensions packed
          MaxVals,  \* bound: values packed before visit
          Cuts      \* bound: how many bytes the buffer may lose

VARIABLES buf,      \* the bytes in the container
          pos,      \* BasicMsgPack::pos
          todo,     \* what is left to do of the running calls of impl::visit
          phase,    \* "pack", "visit", or how the visit ended
          seen,     \* the calls to the visitor so far
          count,    \* bound: values packed
          open,     \* the containers the client is filling, innermost last
          packed,   \* history: the calls a visitor should see
          lost,     \* history: the kinds of value packed that do not come back
          cut       \* history: the buffer lost its end

vars == <<buf, pos, todo, phase, seen, count, open, packed, lost, cut>>
packing == <<count, open, packed, lost>>

-----------------------------------------------------------------------------
\* Packing.

Width == [int8 |-> 1, uint8 |-> 1, int16 |-> 2, uint16 |-> 2,
          int32 |-> 4, uint32 |-> 4, int64 |-> 8, uint64 |-> 8]
IntFormat == [uint8 |-> 204, uint16 |-> 205, uint32 |-> 206, uint64 |-> 207,
              int8 |-> 208, int16 |-> 209, int32 |-> 210, int64 |-> 211]
Signed == {"int8", "int16", "int32", "int64"}

\* The w bytes of v, the highest first: swap_bigendian.
Shifts(v, w) == LET shift[i \in 0 .. w - 1] == IF i = 0 THEN v ELSE shift[i - 1] \div 256
                IN  shift
Bytes(v, w) == [i \in 1 .. w |-> Shifts(v, w)[w - i] % 256]

\* v is a number of w bytes.
Fits(v, w, signed) == Shifts(v, w)[w - 1] \in IF signed THEN -128 .. 127 ELSE 0 .. 255

\* The integers are of their types; a length is of 32 bits at most, which
\* pack_bin and pack_ext do not check; a negative type of an extension is
\* refused.
ASSUME MsgPackAssumption ==
  /\ \A x \in Ints : x[1] \in DOMAIN Width /\ x[2] \in Int /\ Fits(x[2], Width[x[1]], x[1] \in Signed)
  /\ DOMAIN Sizes = {"str", "bin", "ext", "array", "map"}
  /\ \A kind \in DOMAIN Sizes : \A n \in Sizes[kind] : n \in Nat /\ Fits(n, 4, FALSE)
  /\ ExtType \in 0 .. 127
  /\ MaxVals \in Nat /\ Cuts \subseteq Nat

\* A single byte has no format of its own below 128 or, which is a slip, below
\* -32.
PackInt(type, v) == IF (type = "uint8" /\ v < 128) \/ (type = "int8" /\ v < -32) THEN Bytes(v, 1)
                    ELSE <<IntFormat[type]>> \o Bytes(v, Width[type])

Payload(n) == [i \in 1 .. n |-> 0]

\* The three sizes of length that strings and binaries have: pack_int writes
\* them with a format of its own where there is one.
SizedUnsplit(f, n) == IF n <= 256 THEN <<f>> \o PackInt("uint8", n)
                      ELSE IF n <= 65535 THEN <<f + 1>> \o PackInt("uint16", n)
                                         ELSE <<f + 2>> \o PackInt("uint32", n)
Sized(f, n) == IF n <= 255 THEN <<f>> \o PackInt("uint8", n)
               ELSE IF n <= 65535 THEN <<f + 1>> \o PackInt("uint16", n)
                                  ELSE <<f + 2>> \o PackInt("uint32", n)

FixExt == [n \in {1, 2, 4, 8, 16} |->
             CASE n = 1 -> 212 [] n = 2 -> 213 [] n = 4 -> 214 [] n = 8 -> 215 [] n = 16 -> 216]

PackString(n) == (IF n <= 31 THEN <<160 + n>> ELSE Sized(217, n)) \o Payload(n)
PackBin(n) == Sized(196, n) \o Payload(n)
PackExt(t, n) == (IF n \in DOMAIN FixExt THEN <<FixExt[n]>> ELSE Sized(199, n)) \o <<t>> \o Payload(n)

\* pack_aggregate, whose length has no format.
PackAggregate(fix, f, n) == IF n <= 15 THEN <<fix + n>>
                            ELSE IF n <= 65535 THEN <<f>> \o Bytes(n, 2)
                                               ELSE <<f + 1>> \o Bytes(n, 4)

\* The first and last call to the visitor for the i-th thing in a container:
\* an item of an array, or in turn a key and a value of a map.
Part(kind, i) == IF kind = "array" THEN <<"array_item", i>>
                 ELSE <<IF i % 2 = 0 THEN "map_key" ELSE "map_value", i \div 2>>
Parts(kind, size) == IF kind = "array" THEN size ELSE 2 * size

\* What the visitor is called with after a value inside the containers cs: the
\* ends of the parts and containers that end with it and the start of the next
\* part.  And the containers that are then left.
StartPart(c) == <<"start">> \o Part(c.kind, c.done)
AfterUpTo(cs) ==
  LET upto[d \in 0 .. Len(cs)] ==
        IF d = 0 THEN [calls |-> <<>>, open |-> <<>>]
        ELSE LET c    == cs[d]
                 next == [c EXCEPT !.done = @ + 1]
                 end  == <<"end">> \o Part(c.kind, c.done)
             IN  IF next.done < c.parts
                 THEN [calls |-> <<end, StartPart(next)>>, open |-> Append(SubSeq(cs, 1, d - 1), next)]
                 ELSE [calls |-> <<end, <<"end", c.kind>>>> \o upto[d - 1].calls, open |-> upto[d - 1].open]
  IN  upto
After(cs) == AfterUpTo(cs)[Len(cs)]

\* One pack call of the client: its bytes, the calls to expect, the containers
\* then being filled, and what is lost.
Pack(bytes, calls, cs, kinds) ==
  /\ phase = "pack" /\ count < MaxVals
  /\ count' = count + 1
  /\ buf' = buf \o bytes
  /\ packed' = packed \o calls
  /\ open' = cs
  /\ lost' = lost \cup kinds
  /\ UNCHANGED <<pos, todo, phase, seen, cut>>

PackValue(bytes, calls, kinds) == Pack(bytes, calls \o After(open).calls, After(open).open, kinds)

PackScalar ==
  \/ PackValue(<<192>>, << <<"nil">> >>, {})
  \/ \E b \in BOOLEAN : PackValue(<<IF b THEN 195 ELSE 194>>, << <<"bool", b>> >>, {})
  \/ \E x \in Ints : PackValue(PackInt(x[1], x[2]), << <<"int", x[2]>> >>,
                              IF x[1] = "int8" /\ x[2] < -32 THEN {"int8"} ELSE {})

\* A payload is the end of the bytes packed for it.  Nothing reads the FIXEXT16
\* of 16 bytes.
PackBytes ==
  \/ \E n \in Sizes["str"] : LET b == PackString(n)
                             IN  PackValue(b, << <<"str", Len(buf) + Len(b) - n, n>> >>, {})
  \/ \E n \in Sizes["bin"] : LET b == PackBin(n)
                             IN  PackValue(b, << <<"bin", Len(buf) + Len(b) - n, n>> >>, {})
  \/ \E n \in Sizes["ext"] : LET b == PackExt(ExtType, n)
                             IN  PackValue(b, << <<"ext", ExtType, Len(buf) + Len(b) - n, n>> >>,
                                           IF n = 16 THEN {"ext16"} ELSE {})

\* pack_array and pack_map: what they hold is packed next.
PackContainer ==
  \E kind \in {"array", "map"} : \E n \in Sizes[kind] :
    LET bytes == IF kind = "array" THEN PackAggregate(144, 220, n) ELSE PackAggregate(128, 222, n)
        start == <<"start", kind, n>>
    IN  IF n = 0 THEN PackValue(bytes, <<start, <<"end", kind>>>>, {})
        ELSE LET c == [kind |-> kind, parts |-> Parts(kind, n), done |-> 0]
             IN  Pack(bytes, <<start, StartPart(c)>>, Append(open, c), {})

-----------------------------------------------------------------------------
\* Reading.

AtEndEarly == pos + 1 >= Len(buf)
AtEnd == pos >= Len(buf)

\* The condition of the loop of visit(c, visitor).
MoreThanOne == pos + 1 < Len(buf)
More == pos < Len(buf)

\* unpack_raw: n bytes behind p.
Has(p, n) == n = 0 \/ p + n <= Len(buf)

\* A string_view is made without unpack_raw.
HasAnyPayload(kind, at, n) == TRUE
HasPayload(kind, at, n) == kind = "str" \/ Has(at, n)

Format == buf[pos + 1]

\* The number that the bytes of s spell, with the sign of the first if signed.
NumberUpTo(s, signed) ==
  LET upto[i \in 1 .. Len(s)] == IF i > 1 THEN 256 * upto[i - 1] + s[i]
                                 ELSE IF signed /\ s[1] >= 128 THEN s[1] - 256 ELSE s[1]
  IN  upto
Number(s, signed) == NumberUpTo(s, signed)[Len(s)]

IntTypes == DOMAIN IntFormat
TypeOf(f) == CHOOSE t \in IntTypes : IntFormat[t] = f

\* unpack_int at p, where a type in `types' is expected: the value and the place
\* after it, or a length nobody has.
NoInt == [v |-> 0, next |-> -1]
UnpackInt(p, types) ==
  IF ~Has(p, 1) THEN NoInt
  ELSE LET f == buf[p + 1]
       IN  IF f <= 127 THEN [v |-> f, next |-> p + 1]
           ELSE IF f >= 224 THEN [v |-> f - 256, next |-> p + 1]
           ELSE IF \E t \in types : IntFormat[t] = f /\ Has(p + 1, Width[t])
                THEN LET t == TypeOf(f)
                     IN  [v    |-> Number(SubSeq(buf, p + 2, p + 1 + Width[t]), t \in Signed),
                          next |-> p + 1 + Width[t]]
                ELSE NoInt

\* The length behind a format that is the k-th of its kind: a negative number
\* of a single byte is taken for one of its unsigned type.
SizeType == <<"uint8", "uint16", "uint32">>
Limit(k) == IF k = 1 THEN 256 ELSE IF k = 2 THEN 256 * 256 ELSE 256 * 256 * 256 * 256
UnpackSize(k) == LET x == UnpackInt(pos + 1, {SizeType[k]})
                 IN  IF x.v < 0 THEN [x EXCEPT !.v = @ + Limit(k)] ELSE x

Ended(how) == phase' = how /\ todo' = <<>> /\ UNCHANGED <<buf, pos, seen, packing, cut>>

\* The visitor is called; one false ends every running call of impl::visit.
Call(call, next, rest) ==
  /\ seen' = Append(seen, call)
  /\ pos' = next
  /\ \/ todo' = rest /\ phase' = phase
     \/ todo' = <<>> /\ phase' = "stopped"
  /\ UNCHANGED <<buf, packing, cut>>

Loop == /\ phase = "visit" /\ todo = <<>>
        /\ IF More THEN todo' = << <<"visit">> >> /\ UNCHANGED <<buf, pos, phase, seen, packing, cut>>
           ELSE Ended("done")

\* The calls around the parts of a container.
CallPart == phase = "visit" /\ todo # <<>> /\ Head(todo) # <<"visit">> /\ Call(Head(todo), pos, Tail(todo))

AtValue == phase = "visit" /\ todo # <<>> /\ Head(todo) = <<"visit">>

VisitEnd == AtValue /\ AtEnd /\ Ended("ended")

VisitInt == /\ AtValue /\ ~AtEnd
            /\ Format <= 127 \/ Format >= 224 \/ \E t \in IntTypes : IntFormat[t] = Format
            /\ LET x == UnpackInt(pos, IntTypes)
               IN  IF x = NoInt THEN Ended("failed") ELSE Call(<<"int", x.v>>, x.next, Tail(todo))

VisitConstant == /\ AtValue /\ ~AtEnd
                 /\ Format \in {192, 194, 195}
                 /\ Call(IF Format = 192 THEN <<"nil">> ELSE <<"bool", Format = 195>>, pos + 1, Tail(todo))

\* A payload of n bytes at p is handed to the visitor.
CallPayload(kind, head, p, n) ==
  IF HasPayload(kind, p, n) THEN Call(head \o <<p, n>>, p + n, Tail(todo)) ELSE Ended("failed")

VisitStrBin ==
  /\ AtValue /\ ~AtEnd
  /\ \/ /\ Format \in 160 .. 191
        /\ CallPayload("str", <<"str">>, pos + 1, Format - 160)
     \/ \E kind \in {"str", "bin"}, k \in 1 .. 3 :
          /\ Format = (IF kind = "str" THEN 216 ELSE 195) + k
          /\ LET x == UnpackSize(k)
             IN  IF x = NoInt THEN Ended("failed") ELSE CallPayload(kind, <<kind>>, x.next, x.v)

\* The byte before the payload is the type.
VisitExt ==
  /\ AtValue /\ ~AtEnd
  /\ \/ \E n \in {1, 2, 4, 8} :
          /\ Format = FixExt[n]
          /\ IF Has(pos, 2) THEN CallPayload("ext", <<"ext", buf[pos + 2]>>, pos + 2, n) ELSE Ended("failed")
     \/ \E k \in 1 .. 3 :
          /\ Format = 198 + k
          /\ LET x == UnpackSize(k)
             IN  IF x # NoInt /\ Has(x.next, 1)
                 THEN CallPayload("ext", <<"ext", buf[x.next + 1]>>, x.next + 1, x.v)
                 ELSE Ended("failed")

\* The loops of visit_array and visit_map and the call after them.
Rest(kind, size) ==
  FlattenSeq([i \in 1 .. Parts(kind, size) |->
                << <<"start">> \o Part(kind, i - 1), <<"visit">>, <<"end">> \o Part(kind, i - 1) >>])
    \o << <<"end", kind>> >>

VisitContainer ==
  /\ AtValue /\ ~AtEnd
  /\ \E kind \in {"array", "map"} :
       LET fix == IF kind = "array" THEN 144 ELSE 128
           f16 == IF kind = "array" THEN 220 ELSE 222
           Start(n, next) == Call(<<"start", kind, n>>, next, Rest(kind, n) \o Tail(todo))
       IN  \/ Format \in fix .. fix + 15 /\ Start(Format - fix, pos + 1)
           \/ \E k \in {0, 1} :
                LET w == 2 * (k + 1)
                IN  /\ Format = f16 + k
                    /\ IF Has(pos + 1, w) THEN Start(Number(SubSeq(buf, pos + 2, pos + 1 + w), FALSE), pos + 1 + w)
                       ELSE Ended("failed")

\* Not a format, or one that visit does not list: FLOAT32, FLOAT64, FIXEXT16.
VisitInvalid == AtValue /\ ~AtEnd /\ Format \in {193, 202, 203, 216} /\ Ended("failed")

-----------------------------------------------------------------------------
Init == /\ buf = <<>> /\ pos = 0 /\ todo = <<>> /\ phase = "pack" /\ seen = <<>>
        /\ count = 0 /\ open = <<>> /\ packed = <<>> /\ lost = {} /\ cut = FALSE

\* The buffer, or a beginning of it, is visited.
Receive == /\ phase = "pack"
           /\ \E n \in Cuts : n <= Len(buf) /\ buf' = SubSeq(buf, 1, Len(buf) - n) /\ cut' = (n > 0)
           /\ phase' = "visit"
           /\ UNCHANGED <<pos, todo, seen, packing>>

Visit == Loop \/ CallPart \/ VisitEnd \/ VisitInt \/ VisitConstant \/ VisitStrBin
           \/ VisitExt \/ VisitContainer \/ VisitInvalid
Next == PackScalar \/ PackBytes \/ PackContainer \/ Receive \/ Visit

Spec == Init /\ [][Next]_vars

-----------------------------------------------------------------------------
Beyond(call) == call[1] \in {"str", "bin", "ext"} /\ call[Len(call) - 1] + Last(call) > Len(buf)
IsValue(call) == call[1] \in {"nil", "bool", "int", "str", "bin", "ext"} \/ (call[1] = "start" /\ call[2] \in {"array", "map"})

\* The visitor sees what was packed, in that order and nothing else: wherever
\* the buffer was cut or the visitor stopped, a beginning of it.
SeenInOrder == "int8" \notin lost => IsPrefix(seen, packed)

\* A visit that comes to the end of a whole buffer has shown all of it, and the
\* client was not in the middle of a container.
WholeIsSeen == phase = "done" /\ ~cut /\ lost = {} => open = <<>> /\ seen = packed /\ pos = Len(buf)

\* Only a cut, an unfinished container or a value that is lost makes visit
\* throw or give up.
WholeIsVisited == phase \in {"ended", "failed"} => cut \/ open # <<>> \/ lost # {}

\* Binaries and extensions are in the buffer.  A string that goes on behind its
\* end is the last value the visitor sees, and nothing else moves pos there.
EndOfBuffer ==
  /\ \A i \in DOMAIN seen : Beyond(seen[i]) =>
        seen[i][1] = "str" /\ \A j \in i + 1 .. Len(seen) : ~IsValue(seen[j])
  /\ pos > Len(buf) => \E i \in DOMAIN seen : Beyond(seen[i])
=============================================================================
