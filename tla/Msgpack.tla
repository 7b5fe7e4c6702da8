------------------------------ MODULE Msgpack -------------------------------
(***************************************************************************)
(* The MessagePack encoders and the decoders of pkg/msgpack: the Iterator, *)
(* which walks a stream token by token, the Read functions, which decode   *)
(* the value at an offset of a buffer, and Value, which is such a buffer.  *)
(*                                                                         *)
(* Values are appended to a buffer, which is then read from its start, as  *)
(* a whole or cut short.  Bytes are numbers, 64-bit integers sequences of  *)
(* eight bytes.  Of a string, a binary and a float only the place of its   *)
(* bytes is kept.                                                          *)
(***************************************************************************)
EXTENDS Integers, Sequences

CONSTANTS
    Values,         \* what may be appended
    Common,         \* the values that a buffer may have more than one of
    MaxValues,      \* bound on the number of values in a buffer
    Cuts            \* how many bytes a cut value may keep, or lack

VARIABLES
    vals,           \* what has been appended (history)
    spans,          \* where: start, start of the body, and end of each (history)
    buf,            \* the buffer: its length, and those of its bytes that are not
                    \* in the body of a string, a binary or a float
    lim,            \* the number of its bytes that the reader gets
    pc, pos,        \* the reader: what it does, and its offset
    tok,            \* the iterator's current token
    todo,           \* the loops of the Skip or AppendText calls in progress, or of Array
                    \* or Map: values still to come
    idx,            \* which of vals should be read next (history)
    got             \* what the last step has read: which value, and as what (history)

written == <<vals, spans, buf>>
vars == <<written, lim, pc, pos, tok, todo, idx, got>>

-----------------------------------------------------------------------------
(* Bytes and 64-bit integers *)

Huge == 1073741824      \* stands for all lengths that no buffer has
Unknown == 256          \* a byte of a body

Below(m) == {n \in Nat : n < m}
Between(n, from, to) == from <= n /\ n <= to

Byte == Below(256)
Word64 == [1..8 -> Byte]
Size == Below(Huge)

\* What can be appended: how is the function for it, f the format of a time.
Value ==
    [k : {"nil"}] \cup [k : {"bool"}, b : BOOLEAN] \cup [k : {"float"}, single : BOOLEAN]
    \cup [k : {"int", "uint"}, w : Word64] \cup [k : {"array", "map"}, n : Size]
    \cup [k : {"str"}, n : Size, how : {"AppendString", "AppendStringDynamic",
                                      "AppendStringUnknownLength", "AppendStringMax255"}]
    \cup [k : {"bin"}, n : Size, how : {"AppendBinary", "AppendBinaryUnknownLength"}]
    \cup [k : {"time"}, s : Word64, ns : Below(1000000000),
          f : {"TsAuto", "Ts32", "Ts64", "Ts96", "TsInt", "TsFluentd", "Ext"}]

ASSUME MsgpackAssumption ==
    MaxValues \in Nat /\ Cuts \subseteq Nat /\ Common \subseteq Values /\ Values \subseteq Value

\* byte(n >> 8(k-1)), ..., byte(n >> 8), byte(n)
Bytes(n, k) == [i \in 1..k |-> (n \div 256 ^ (k - i)) % 256]

\* The number that four bytes are.
Num(b) ==
    IF b[1] >= 64 \/ \E i \in 1..4 : b[i] = Unknown
       THEN Huge
       ELSE b[1] * 256 ^ 3 + b[2] * 256 ^ 2 + b[3] * 256 + b[4]

Fill(b, x) == [i \in 1..8 |-> IF i <= 8 - Len(b) THEN x ELSE b[i - 8 + Len(b)]]
ZeroExtend(b) == Fill(b, 0)
SignExtend(b) == Fill(b, IF b[1] >= 128 THEN 255 ELSE 0)
Low(w, k) == SubSeq(w, 9 - k, 8)
Word(n) == ZeroExtend(Bytes(n, 4))
Negative(w) == w[1] >= 128

\* Comparison as unsigned integers.  Of two negative ones it is the signed one.
AtMost(w, u) == w = u \/ \E i \in 1..8 : w[i] < u[i] /\ \A j \in 1..(i - 1) : w[j] = u[j]

uintFromBuf(b) == IF Len(b) \in {1, 2, 4, 8} THEN ZeroExtend(b) ELSE Word(0)
intFromBuf(b) == IF Len(b) \in {1, 2, 4, 8} THEN SignExtend(b) ELSE Word(0)

\* int(w), as a length
Length(w) ==
    CASE Negative(w) -> -1 - Num([i \in 1..4 |-> 255 - w[4 + i]])
      [] ~Negative(w) /\ (\A i \in 1..4 : w[i] = 0) -> Num(Low(w, 4))
      [] OTHER -> Huge

-----------------------------------------------------------------------------
(* types.Get: the type, and either the length of the value (own) or the number of
   bytes that hold the length *)

G(typ, length, own) == [typ |-> typ, length |-> length, own |-> own]

\* Of consecutive codes each is for twice the bytes of the one before.
Width(c, first) == 2 ^ (c - first)

Get(c) ==
    CASE Between(c, \h00, \h7f) -> G("Uint", 0, TRUE)
      [] Between(c, \h80, \h8f) -> G("Map", c - \h80, TRUE)
      [] Between(c, \h90, \h9f) -> G("Array", c - \h90, TRUE)
      [] Between(c, \ha0, \hbf) -> G("Str", c - \ha0, TRUE)
      [] c = \hc0 -> G("Nil", 0, TRUE)
      [] c = \hc1 -> G("Invalid", 0, FALSE)
      [] Between(c, \hc2, \hc3) -> G("Bool", 0, TRUE)
      [] Between(c, \hc4, \hc6) -> G("Bin", Width(c, \hc4), FALSE)
      [] Between(c, \hc7, \hc9) -> G("Ext", Width(c, \hc7), FALSE)
      [] Between(c, \hca, \hcb) -> G("Float", 4 * Width(c, \hca), TRUE)
      [] Between(c, \hcc, \hcf) -> G("Uint", Width(c, \hcc), TRUE)
      [] Between(c, \hd0, \hd3) -> G("Int", Width(c, \hd0), TRUE)
      [] Between(c, \hd4, \hd8) -> G("Ext", 1 + Width(c, \hd4), TRUE)
      [] Between(c, \hd9, \hdb) -> G("Str", Width(c, \hd9), FALSE)
      [] Between(c, \hdc, \hdd) -> G("Array", 2 * Width(c, \hdc), FALSE)
      [] Between(c, \hde, \hdf) -> G("Map", 2 * Width(c, \hde), FALSE)
      [] Between(c, \he0, \hff) -> G("Int", 0, TRUE)
      [] c = Unknown -> G("Unknown", 0, TRUE)

-----------------------------------------------------------------------------
(* The encoders: the bytes they append, and the length of the body behind them *)

Enc(head, body) == [head |-> head, body |-> body]

AppendNil == Enc(<<\hc0>>, 0)
AppendBool(b) == Enc(<<IF b THEN \hc3 ELSE \hc2>>, 0)
AppendFloat(single) == IF single THEN Enc(<<\hca>>, 4) ELSE Enc(<<\hcb>>, 8)

AppendUint(w) ==
    Enc(CASE AtMost(w, Word(127)) -> Low(w, 1)
          [] ~AtMost(w, Word(127)) /\ AtMost(w, Word(255)) -> <<\hcc>> \o Low(w, 1)
          [] ~AtMost(w, Word(255)) /\ AtMost(w, Word(65535)) -> <<\hcd>> \o Low(w, 2)
          [] ~AtMost(w, Word(65535)) /\ w = ZeroExtend(Low(w, 4)) -> <<\hce>> \o Low(w, 4)
          [] OTHER -> <<\hcf>> \o w, 0)

\* Mutant: int8 is taken for what needs int16.
MutAppendInt(w) ==
    IF ~Negative(w) THEN AppendUint(w)
       ELSE Enc(IF AtMost(SignExtend(<<\hff, 0>>), w) THEN <<\hd0>> \o Low(w, 1)
                                                        ELSE <<\hd3>> \o w, 0)

AppendInt(w) ==
    LET atLeast(b) == AtMost(SignExtend(b), w) IN
    IF ~Negative(w) THEN AppendUint(w)
       ELSE Enc(CASE atLeast(<<256 - 32>>) -> Low(w, 1)
                  [] ~atLeast(<<256 - 32>>) /\ atLeast(<<128>>) -> <<\hd0>> \o Low(w, 1)
                  [] ~atLeast(<<128>>) /\ atLeast(<<128, 0>>) -> <<\hd1>> \o Low(w, 2)
                  [] ~atLeast(<<128, 0>>) /\ atLeast(<<128, 0, 0, 0>>) -> <<\hd2>> \o Low(w, 4)
                  [] OTHER -> <<\hd3>> \o w, 0)

AppendString(l) ==
    Enc(CASE l <= 31 -> <<\ha0 + l>>
          [] Between(l, 32, 255) -> <<\hd9>> \o Bytes(l, 1)
          [] Between(l, 256, 65535) -> <<\hda>> \o Bytes(l, 2)
          [] OTHER -> <<\hdb>> \o Bytes(l, 4), l)

\* The header for the largest length is reserved and, once the length is known,
\* replaced by the smallest one, to which the body is moved.
AppendStringDynamic(l) ==
    LET headerLen == CASE l <= 31 -> 1
                       [] Between(l, 32, 255) -> 2
                       [] Between(l, 256, 65535) -> 3
                       [] OTHER -> 5
        shift == 5 - headerLen
        sizeTo == 5 + l
    IN Enc(CASE headerLen = 1 -> <<\ha0 + l>>
             [] headerLen = 2 -> <<\hd9>> \o Bytes(l, 1)
             [] headerLen = 3 -> <<\hda>> \o Bytes(l, 2)
             [] headerLen = 5 -> <<\hdb>> \o Bytes(l, 4), sizeTo - shift - headerLen)

AppendStringUnknownLength(l) == Enc(<<\hdb>> \o Bytes(l, 4), l)

AppendStringMax255(n) == LET l == IF n > 255 THEN 255 ELSE n IN Enc(<<\hd9>> \o Bytes(l, 1), l)

appendBinaryHeader(l) ==
    CASE l <= 255 -> <<\hc4>> \o Bytes(l, 1)
      [] Between(l, 256, 65535) -> <<\hc5>> \o Bytes(l, 2)
      [] OTHER -> <<\hc6>> \o Bytes(l, 4)

AppendBinary(l) == Enc(appendBinaryHeader(l), l)
AppendBinaryUnknownLength(l) == Enc(<<\hc6>> \o Bytes(l, 4), l)

AppendArrayHeader(n) ==
    Enc(CASE n <= 15 -> <<\h90 + n>>
          [] Between(n, 16, 65535) -> <<\hdc>> \o Bytes(n, 2)
          [] OTHER -> <<\hdd>> \o Bytes(n, 4), 0)

AppendMapHeader(n) ==
    Enc(CASE n <= 15 -> <<\h80 + n>>
          [] Between(n, 16, 65535) -> <<\hde>> \o Bytes(n, 2)
          [] OTHER -> <<\hdf>> \o Bytes(n, 4), 0)

-----------------------------------------------------------------------------
(* Timestamps: s is a 64-bit integer, ns a number below 10^9 *)

msgpackTimestamp == \hff
fluentdEventTime == \h00

\* TsAuto is resolved first.
Format(v) ==
    IF v.f # "TsAuto" THEN v.f
       ELSE IF Negative(v.s) THEN "Ts96" ELSE IF v.ns = 0 THEN "Ts32" ELSE "Ts64"

\* The low 34 bits of s, followed by the 30 bits of ns.
Pack64(s, ns) ==
    LET b == Low(s, 5) IN
    [k \in 1..4 |-> (b[k] % 4) * 64 + b[k + 1] \div 4]
    \o <<(b[5] % 4) * 64 + ns \div 256 ^ 3>> \o Bytes(ns, 3)

Unpack64s(b) ==
    ZeroExtend(<<b[1] \div 64>> \o [k \in 1..4 |-> (b[k] % 64) * 4 + b[k + 1] \div 64])
Unpack64ns(b) == Num(<<b[5] % 64, b[6], b[7], b[8]>>)

EventTime(v) == Low(v.s, 4) \o Bytes(v.ns, 4)

AppendTimestamp(v) ==
    LET f == Format(v) IN
    CASE f = "Ts32" -> Enc(<<\hd6, msgpackTimestamp>> \o Low(v.s, 4), 0)
      [] f = "Ts64" -> Enc(<<\hd7, msgpackTimestamp>> \o Pack64(v.s, v.ns), 0)
      [] f = "Ts96" -> Enc(<<\hc7, 12, msgpackTimestamp>> \o Bytes(v.ns, 4) \o v.s, 0)
      [] f = "TsInt" -> AppendInt(v.s)
      [] f = "TsFluentd" -> Enc(<<\hd7, fluentdEventTime>> \o EventTime(v), 0)

\* The other form of an EventTime, which clients of other makes may send.
ExtEventTime(v) == Enc(<<\hc7, 8, fluentdEventTime>> \o EventTime(v), 0)

\* AppendAny, and what it has no case for.
Encode(v) ==
    CASE v.k = "nil" -> AppendNil
      [] v.k = "bool" -> AppendBool(v.b)
      [] v.k = "float" -> AppendFloat(v.single)
      [] v.k = "int" -> AppendInt(v.w)
      [] v.k = "uint" -> AppendUint(v.w)
      [] v.k = "array" -> AppendArrayHeader(v.n)
      [] v.k = "map" -> AppendMapHeader(v.n)
      [] v.k = "bin" /\ v.how = "AppendBinary" -> AppendBinary(v.n)
      [] v.k = "bin" /\ v.how = "AppendBinaryUnknownLength" -> AppendBinaryUnknownLength(v.n)
      [] v.k = "str" /\ v.how = "AppendString" -> AppendString(v.n)
      [] v.k = "str" /\ v.how = "AppendStringDynamic" -> AppendStringDynamic(v.n)
      [] v.k = "str" /\ v.how = "AppendStringUnknownLength" -> AppendStringUnknownLength(v.n)
      [] v.k = "str" /\ v.how = "AppendStringMax255" -> AppendStringMax255(v.n)
      [] v.k = "time" /\ v.f # "Ext" -> AppendTimestamp(v)
      [] v.k = "time" /\ v.f = "Ext" -> ExtEventTime(v)

-----------------------------------------------------------------------------
(* What a reader returns: for a string, a binary or a float the place and the
   number of its bytes, for an array or a map the number of items *)

R(typ, v) == [typ |-> typ, v |-> v]
T(s, ns) == R("Time", s \o <<ns>>)

\* The first lim bytes are there.
Has(p, n) == p + n <= lim
Cell(p) == IF p \in DOMAIN buf.at THEN buf.at[p] ELSE Unknown
Raw(p, n) == [k \in 1..n |-> Cell(p + k - 1)]

-----------------------------------------------------------------------------
(* The Iterator *)

\* The token at p; next is where its value begins.
Token(p) ==
    LET c == Cell(p)
        g == Get(c)
        length == IF g.own THEN g.length ELSE Length(uintFromBuf(Raw(p + 1, g.length)))
    IN [byt |-> c, typ |-> g.typ,
        length |-> IF g.typ \in {"Array", "Map"} THEN 0 ELSE length,
        items |-> IF g.typ \in {"Array", "Map"} THEN length ELSE 0,
        next |-> IF g.own THEN p + 1 ELSE p + 1 + g.length]

HasToken(p) == Has(p, 1) /\ (Get(Cell(p)).own \/ Has(p + 1, Get(Cell(p)).length))

readIntUnsafe(c, b) ==
    CASE Get(c).typ = "Int" -> IF c >= \he0 THEN SignExtend(<<c>>) ELSE intFromBuf(b)
      [] Get(c).typ = "Uint" -> IF c <= \h7f THEN SignExtend(<<c>>) ELSE uintFromBuf(b)
      [] OTHER -> Word(0)

readTimeUnsafe(c, b) ==
    LET is(h, n) == b[1] = h /\ Len(b) = n
        none == T(Word(0), 0)
        eventTime == T(SignExtend(SubSeq(b, 2, 5)), Num(SubSeq(b, 6, 9)))
    IN IF Len(b) < 5 THEN T(readIntUnsafe(c, b), 0)
       ELSE CASE c = \hd6 -> IF b[1] = msgpackTimestamp THEN T(ZeroExtend(SubSeq(b, 2, 5)), 0) ELSE none
              [] c = \hd7 -> IF is(msgpackTimestamp, 9)
                                THEN T(Unpack64s(SubSeq(b, 2, 9)), Unpack64ns(SubSeq(b, 2, 9)))
                                ELSE IF is(fluentdEventTime, 9) THEN eventTime ELSE none
              [] c = \hc7 -> IF is(msgpackTimestamp, 13)
                                THEN T(SubSeq(b, 6, 13), Num(SubSeq(b, 2, 5)))
                                ELSE IF is(fluentdEventTime, 9) THEN eventTime ELSE none
              [] OTHER -> T(readIntUnsafe(c, b), 0)

\* What Any returns, and Time where a time is expected.
Any(t, time) ==
    CASE time \/ t.typ = "Ext" -> readTimeUnsafe(t.byt, Raw(t.next, t.length))
      [] ~time /\ t.typ \in {"Int", "Uint"} -> R(t.typ, readIntUnsafe(t.byt, Raw(t.next, t.length)))
      [] ~time /\ t.typ = "Bool" -> R("Bool", <<IF t.byt = \hc3 THEN 1 ELSE 0>>)
      [] ~time /\ t.typ \in {"Float", "Str", "Bin"} -> R(t.typ, <<t.next, t.length>>)
      [] ~time /\ t.typ \in {"Array", "Map"} -> R(t.typ, <<t.items>>)
      [] OTHER -> R("Nil", <<>>)

-----------------------------------------------------------------------------
(* The Read functions: what they return, and the new offset; or an error, or a
   panic *)

Ok(val, next) == [out |-> "ok", val |-> val, next |-> next]
Fails(out) == [out |-> out, val |-> R("Nil", <<>>), next |-> 0]

\* The length of the value at p, by uintFromBuf and by intFromBuf, and its offset.
LengthBytes(p) == Raw(p + 1, Get(Cell(p)).length)
UintLength(p) == IF Get(Cell(p)).own THEN Get(Cell(p)).length ELSE Length(uintFromBuf(LengthBytes(p)))
IntLength(p) == IF Get(Cell(p)).own THEN Get(Cell(p)).length ELSE Length(intFromBuf(LengthBytes(p)))
Offset(p) == Token(p).next

ReadNil(p) ==
    CASE ~Has(p, 1) \/ Cell(p) # \hc0 -> Fails("error")
      [] OTHER -> Ok(R("Nil", <<>>), p + 1)

ReadBool(p) ==
    CASE ~Has(p, 1) \/ Cell(p) \notin {\hc2, \hc3} -> Fails("error")
      [] OTHER -> Ok(R("Bool", <<Cell(p) - \hc2>>), p + 1)

\* Both of ReadInt's cases, and ReadUint.
ReadIntegers(p, typs) ==
    LET g == Get(Cell(p))
        b == Raw(p + 1, g.length)
    IN CASE ~Has(p, 1) \/ g.typ \notin typs -> Fails("error")
         [] Has(p, 1) /\ g.typ \in typs /\ g.length = 0 -> Ok(R(g.typ, SignExtend(<<Cell(p)>>)), p + 1)
         [] Has(p, 1) /\ g.typ \in typs /\ g.length > 0 ->
               IF ~Has(p + 1, g.length) THEN Fails("error")
                  ELSE Ok(R(g.typ, IF g.typ = "Int" THEN intFromBuf(b) ELSE uintFromBuf(b)),
                          p + 1 + g.length)

ReadUint(p) == ReadIntegers(p, {"Uint"})

\* An unsigned value beyond int64 is an error.
ReadInt(p) ==
    LET r == ReadIntegers(p, {"Int", "Uint"}) IN
    IF r.out = "ok" /\ r.val.typ = "Uint" /\ Negative(r.val.v) THEN Fails("error") ELSE r

ReadFloat(p) ==
    CASE ~Has(p, 1) \/ Get(Cell(p)).typ # "Float" \/ ~Has(p + 1, Get(Cell(p)).length) -> Fails("error")
      [] OTHER -> Ok(R("Float", <<p + 1, Get(Cell(p)).length>>), p + 1 + Get(Cell(p)).length)

\* A negative length passes the check for a short buffer, and the slice panics.
Slice(p, typ, length) ==
    CASE ~Has(Offset(p), length) -> Fails("error")
      [] Has(Offset(p), length) /\ length < 0 -> Fails("panic")
      [] OTHER -> Ok(R(typ, <<Offset(p), length>>), Offset(p) + length)

\* ReadString and ReadBinary hand each other's values over.
ReadBinary(p) ==
    CASE ~HasToken(p) \/ Get(Cell(p)).typ \notin {"Str", "Bin"} -> Fails("error")
      [] HasToken(p) /\ Get(Cell(p)).typ = "Bin" -> Slice(p, "Bin", IntLength(p))
      [] HasToken(p) /\ Get(Cell(p)).typ = "Str" -> Slice(p, "Str", UintLength(p))

ReadString(p) ==
    CASE ~HasToken(p) \/ Get(Cell(p)).typ \notin {"Str", "Bin"} -> Fails("error")
      [] HasToken(p) /\ Get(Cell(p)).typ = "Bin" -> ReadBinary(p)
      [] HasToken(p) /\ Get(Cell(p)).typ = "Str" -> Slice(p, "Str", UintLength(p))

ReadHeader(p, typ) ==
    CASE ~HasToken(p) \/ Get(Cell(p)).typ # typ -> Fails("error")
      [] OTHER -> Ok(R(typ, <<IntLength(p)>>), Offset(p))

ReadArrayHeader(p) == ReadHeader(p, "Array")
ReadMapHeader(p) == ReadHeader(p, "Map")

\* o is the offset of the type of an ext value.  The length of an ext8 does not
\* count the type, so the check may pass with one byte missing.
ReadTimestamp(p) ==
    LET c == Cell(p)
        length == UintLength(p)
        o == Offset(p)
        h == Cell(o)
        eventTime == T(SignExtend(Raw(o + 1, 4)), Num(Raw(o + 5, 4)))
        i == ReadInt(p)
    IN CASE ~HasToken(p) \/ ~Has(o, length) -> Fails("error")
         [] HasToken(p) /\ Has(o, length) ->
              CASE c = \hd6 /\ h = msgpackTimestamp -> Ok(T(ZeroExtend(Raw(o + 1, 4)), 0), o + 5)
                [] c = \hd7 /\ h = msgpackTimestamp ->
                      Ok(T(Unpack64s(Raw(o + 1, 8)), Unpack64ns(Raw(o + 1, 8))), o + 9)
                [] c = \hd7 /\ h = fluentdEventTime -> Ok(eventTime, o + 9)
                [] c = \hc7 /\ h = msgpackTimestamp ->
                      IF Has(o, 13) THEN Ok(T(Raw(o + 5, 8), Num(Raw(o + 1, 4))), o + 1 + length)
                                    ELSE Fails("panic")
                [] c = \hc7 /\ h = fluentdEventTime ->
                      IF Has(o, 9) THEN Ok(eventTime, o + 1 + length) ELSE Fails("panic")
                [] c \in {\hd6, \hd7, \hc7} /\ h \notin {msgpackTimestamp, fluentdEventTime} -> Fails("error")
                [] c = \hd6 /\ h = fluentdEventTime -> Fails("error")
                [] OTHER -> IF i.out = "ok" THEN Ok(T(i.val.v, 0), i.next) ELSE i

\* What the functions for a value of v's kind return.
ReadAs(v, p) ==
    CASE v.k = "nil" -> {ReadNil(p)}
      [] v.k = "bool" -> {ReadBool(p)}
      [] v.k = "int" -> {ReadInt(p)}
      [] v.k = "uint" -> {ReadUint(p)}
      [] v.k = "float" -> {ReadFloat(p)}
      [] v.k \in {"str", "bin"} -> {ReadString(p), ReadBinary(p)}
      [] v.k = "array" -> {ReadArrayHeader(p)}
      [] v.k = "map" -> {ReadMapHeader(p)}
      [] v.k = "time" -> {ReadTimestamp(p)}

-----------------------------------------------------------------------------
(* Value: the bytes from p on *)

\* Mutant: the bytes that hold the length are not counted.
MutBytesLen(p) ==
    1 + (IF Get(Cell(p)).typ \in {"Array", "Map"} THEN 0 ELSE IntLength(p))

\* The head, and the body unless it is an array or a map.  Lengths are signed.
BytesLen(p) ==
    Offset(p) - p + (IF Get(Cell(p)).typ \in {"Array", "Map"} THEN 0 ELSE IntLength(p))

\* What String and AppendText show of the first n bytes.  Errors are ignored; an
\* ext8 lacks its last byte, on which ReadTimestamp panics.
Shown(p, n) ==
    LET g == Get(Cell(p))
        nothing == Ok(R("Nil", <<>>), p)
    IN CASE p + n < Offset(p) -> nothing
         [] OTHER ->
              CASE g.typ = "Bool" -> ReadBool(p)
                [] g.typ = "Int" -> ReadInt(p)
                [] g.typ = "Uint" -> ReadUint(p)
                [] g.typ = "Float" -> ReadFloat(p)
                [] g.typ = "Str" -> ReadString(p)
                [] g.typ = "Bin" -> ReadBinary(p)
                [] g.typ \in {"Array", "Map"} -> Ok(R(g.typ, <<IntLength(p)>>), p)
                [] g.typ = "Ext" -> IF g.own THEN ReadTimestamp(p) ELSE Fails("panic")
                [] OTHER -> nothing

-----------------------------------------------------------------------------
(* Writing and reading a buffer *)

NoToken == [byt |-> 0, typ |-> "Nil", length |-> 0, items |-> 0, next |-> 0]
Nothing == [i |-> 0, val |-> R("Nil", <<>>)]

Init ==
    /\ vals = <<>> /\ spans = <<>>
    /\ buf = [len |-> 0, at |-> <<>>]
    /\ lim = 0 /\ pc = "write" /\ pos = 0
    /\ tok = NoToken /\ todo = <<>>
    /\ idx = 1 /\ got = Nothing

Extended(b, e) ==
    [len |-> b.len + Len(e.head) + e.body,
     at |-> [p \in DOMAIN b.at \cup b.len..(b.len + Len(e.head) - 1) |->
                IF p < b.len THEN b.at[p] ELSE e.head[p - b.len + 1]]]

Write(v) ==
    /\ pc = "write"
    /\ Len(vals) < MaxValues
    /\ v \in Common \/ \A i \in DOMAIN vals : vals[i] \in Common
    /\ LET e == Encode(v) IN
          /\ buf' = Extended(buf, e)
          /\ spans' = Append(spans, [start |-> buf.len, body |-> buf.len + Len(e.head),
                                     end |-> buf.len + Len(e.head) + e.body])
    /\ vals' = Append(vals, v)
    /\ UNCHANGED <<lim, pc, pos, tok, todo, idx, got>>

\* The reader gets all of the buffer, or the last value is cut short: anywhere, if
\* Cuts are all numbers.
Open(reader) ==
    /\ pc = "write" /\ vals # <<>>
    /\ \E n \in Cuts \cup {0} :
          \/ lim' = buf.len - n /\ spans[Len(vals)].start <= lim'
          \/ lim' = spans[Len(vals)].start + n /\ lim' <= buf.len
    /\ pc' = reader
    /\ UNCHANGED <<written, pos, tok, todo, idx, got>>

\* The position behind the value at i and, if it is an array or a map, behind its
\* items; or Len(vals) + 2, if some of them are missing.
Children(v) == IF v.k = "array" THEN v.n ELSE IF v.k = "map" THEN 2 * v.n ELSE 0
Behind(i) ==
    LET needed[j \in (i - 1)..Len(vals)] ==
            IF j < i THEN 1 ELSE needed[j - 1] - 1 + Children(vals[j])
        ends == {j \in i..Len(vals) : needed[j] = 0}
    IN IF ends = {} THEN Len(vals) + 2 ELSE 1 + CHOOSE j \in ends : \A k \in ends : j <= k

IsTime(i) == i <= Len(vals) /\ vals[i].k = "time"

\* Iterator.Next.  A head byte out of a body may be anything: no further steps.
IterNext ==
    /\ pc = "next"
    /\ \/ /\ HasToken(pos) /\ Cell(pos) # Unknown
          /\ tok' = Token(pos) /\ pos' = Token(pos).next
          /\ pc' = "token"
       \/ /\ ~HasToken(pos) \/ Cell(pos) = Unknown
          /\ pc' = IF HasToken(pos) THEN "lost" ELSE "done"
          /\ UNCHANGED <<tok, pos>>
    /\ got' = Nothing
    /\ UNCHANGED <<written, lim, todo, idx>>

\* An accessor of the Iterator.
Read ==
    /\ pc = "token"
    /\ \/ /\ Has(pos, tok.length)
          /\ got' = [i |-> idx, val |-> Any(tok, IsTime(idx))]
          /\ pos' = pos + tok.length /\ idx' = idx + 1 /\ pc' = "next"
       \/ /\ ~Has(pos, tok.length)
          /\ pc' = "done"
          /\ UNCHANGED <<got, pos, idx>>
    /\ UNCHANGED <<written, lim, tok, todo>>

\* Mutant: the items of a map are counted once.
MutSkipped(t) ==
    IF t.typ \in {"Array", "Map"} THEN [items |-> t.items, pos |-> t.next]
       ELSE [items |-> 0, pos |-> IF t.next + t.length <= lim THEN t.next + t.length ELSE lim]

\* Skip's switch: how many values are to be skipped, and where the next one is.
Skipped(t) ==
    [items |-> IF t.typ = "Map" THEN 2 * t.items ELSE t.items,
     pos |-> IF t.typ \in {"Array", "Map"} THEN t.next
             ELSE IF t.next + t.length <= lim THEN t.next + t.length ELSE lim]

Skip ==
    /\ pc = "token"
    /\ pos' = Skipped(tok).pos
    /\ todo' = <<Skipped(tok).items>>
    /\ pc' = "skip"
    /\ UNCHANGED <<written, lim, tok, idx, got>>

\* A read for which there are too few bytes leaves them, or has taken them.
Remainders(p) == {lim, IF HasToken(p) THEN Token(p).next ELSE IF Has(p, 1) THEN p + 1 ELSE p}

\* The loops that are left ignore that it failed, and take what remains for tokens.
GoesOn(loops) ==
    \E q \in Remainders(pos) :
       pc' = IF q < lim /\ (\E i \in DOMAIN loops : loops[i] > 0) THEN "lost" ELSE "done"

\* One turn of the innermost loop, which ends when Next fails.
SkipNext ==
    /\ pc = "skip" /\ todo # <<>> /\ Head(todo) > 0
    /\ \/ /\ HasToken(pos) /\ Cell(pos) # Unknown
          /\ tok' = Token(pos)
          /\ pos' = Skipped(Token(pos)).pos
          /\ todo' = <<Skipped(Token(pos)).items, Head(todo) - 1>> \o Tail(todo)
          /\ UNCHANGED pc
       \/ /\ \/ ~HasToken(pos) /\ GoesOn(Tail(todo))
             \/ HasToken(pos) /\ Cell(pos) = Unknown /\ pc' = "lost"
          /\ UNCHANGED <<tok, pos, todo>>
    /\ UNCHANGED <<written, lim, idx, got>>

\* AppendText shows a value and, if it is an array or a map, those in it.  At is
\* which of vals begins at p, or none.
At(p) == IF \E i \in DOMAIN vals : spans[i].start = p
            THEN CHOOSE i \in DOMAIN vals : spans[i].start = p ELSE 0

Shows(t, i) ==
    /\ pos' = t.next + t.length
    /\ got' = IF i = 0 THEN Nothing ELSE [i |-> i, val |-> Any(t, FALSE)]

AppendText ==
    /\ pc = "token"
    /\ \/ /\ Has(pos, tok.length)
          /\ Shows(tok, idx)
          /\ todo' = <<Skipped(tok).items>>
          /\ pc' = "text"
       \/ /\ ~Has(pos, tok.length)
          /\ pc' = "done"
          /\ UNCHANGED <<pos, got, todo>>
    /\ UNCHANGED <<written, lim, tok, idx>>

\* One turn of the innermost loop of appendTextArray or appendTextMap.  It ends when
\* Next fails, but not when the value that AppendText should show is incomplete.
TextNext ==
    /\ pc = "text" /\ todo # <<>> /\ Head(todo) > 0
    /\ LET t == Token(pos)
           found == HasToken(pos) /\ Cell(pos) # Unknown IN
       \/ /\ found /\ Has(t.next, t.length)
          /\ tok' = t
          /\ Shows(t, At(pos))
          /\ todo' = <<Skipped(t).items, Head(todo) - 1>> \o Tail(todo)
          /\ UNCHANGED pc
       \/ /\ \/ ~HasToken(pos) /\ GoesOn(Tail(todo))
             \/ found /\ ~Has(t.next, t.length) /\ GoesOn(<<Head(todo) - 1>> \o Tail(todo))
             \/ HasToken(pos) /\ ~found /\ pc' = "lost"
          /\ UNCHANGED <<tok, pos, todo, got>>
    /\ UNCHANGED <<written, lim, idx>>

\* A call of Skip or of AppendText returns.
SkipReturns ==
    /\ pc \in {"skip", "text"} /\ todo # <<>> /\ Head(todo) = 0
    /\ todo' = Tail(todo)
    /\ IF Len(todo) = 1 THEN pc' = "next" /\ idx' = Behind(idx) ELSE UNCHANGED <<pc, idx>>
    /\ got' = Nothing
    /\ UNCHANGED <<written, lim, pos, tok>>

\* A Read function.
ReadOffset ==
    /\ pc = "offset"
    /\ idx <= Len(vals)
    /\ \E r \in ReadAs(vals[idx], pos) :
          IF r.out = "ok"
             THEN /\ got' = [i |-> idx, val |-> r.val]
                  /\ pos' = r.next /\ idx' = idx + 1
                  /\ UNCHANGED pc
             ELSE /\ pc' = IF r.out = "panic" THEN "panic" ELSE "failed"
                  /\ UNCHANGED <<got, pos, idx>>
    /\ UNCHANGED <<written, lim, tok, todo>>

\* Value.Array or Map, on a buffer that begins with one.
ValueLoop ==
    /\ pc = "value"
    /\ Get(Cell(0)).typ \in {"Array", "Map"}
    /\ \/ /\ HasToken(0)
          /\ LET n == IntLength(0) IN
             todo' = <<IF n < 0 THEN 0 ELSE IF Get(Cell(0)).typ = "Map" THEN 2 * n ELSE n>>
          /\ pos' = Offset(0)
          /\ idx' = 2
          /\ pc' = "element"
       \/ /\ ~HasToken(0)
          /\ pc' = "vpanic"
          /\ UNCHANGED <<todo, pos, idx>>
    /\ UNCHANGED <<written, lim, tok, got>>

\* One turn of the loop; behind the last byte it yields empty values.
ValueNext ==
    LET n == BytesLen(pos) IN
    /\ pc = "element" /\ Head(todo) > 0
    /\ \/ /\ pos < lim /\ Cell(pos) # Unknown
          /\ HasToken(pos) /\ n >= 0 /\ Has(pos, n)
          /\ Shown(pos, n).out # "panic"
          /\ got' = [i |-> idx, val |-> Shown(pos, n).val]
          /\ pos' = pos + n /\ idx' = Behind(idx) /\ todo' = <<Head(todo) - 1>>
          /\ UNCHANGED pc
       \/ /\ pos < lim /\ Cell(pos) # Unknown
          /\ ~HasToken(pos) \/ n < 0 \/ ~Has(pos, n) \/ Shown(pos, n).out = "panic"
          /\ pc' = "vpanic"
          /\ UNCHANGED <<got, pos, idx, todo>>
       \/ /\ pos < lim /\ Cell(pos) = Unknown
          /\ pc' = "stray"
          /\ UNCHANGED <<got, pos, idx, todo>>
       \/ /\ pos = lim
          /\ pc' = "emptied"
          /\ UNCHANGED <<got, pos, idx, todo>>
    /\ UNCHANGED <<written, lim, tok>>

ValueEnds ==
    /\ pc = "element" /\ Head(todo) = 0
    /\ pc' = "yielded" /\ got' = Nothing
    /\ UNCHANGED <<written, lim, pos, tok, todo, idx>>

Next ==
    \/ \E v \in Values : Write(v)
    \/ \E r \in {"next", "offset", "value"} : Open(r)
    \/ IterNext \/ Read \/ Skip \/ SkipNext \/ AppendText \/ TextNext \/ SkipReturns
    \/ ReadOffset
    \/ ValueLoop \/ ValueNext \/ ValueEnds

Spec == Init /\ [][Next]_vars

-----------------------------------------------------------------------------
(* Properties *)

Start(i) == IF i <= Len(vals) THEN spans[i].start ELSE buf.len

\* A time with an ext8 header: the code's Ts96, and the second form of EventTime.
\* The iterator takes such a value for one byte shorter than it is.
Ext8(v) == v.k = "time" /\ Format(v) \in {"Ts96", "Ext"}
Clean(i) == \A j \in DOMAIN vals : j < i => ~Ext8(vals[j])

\* The value at i as a reader should return it.
Meaning(i) ==
    LET v == vals[i]
        n == IF v.k = "str" /\ v.how = "AppendStringMax255" /\ v.n > 255 THEN 255 ELSE v.n
    IN CASE v.k = "nil" -> R("Nil", <<>>)
         [] v.k = "bool" -> R("Bool", <<IF v.b THEN 1 ELSE 0>>)
         [] v.k = "float" -> R("Float", <<spans[i].body, IF v.single THEN 4 ELSE 8>>)
         [] v.k \in {"int", "uint"} -> R(IF v.k = "int" /\ Negative(v.w) THEN "Int" ELSE "Uint", v.w)
         [] v.k = "array" -> R("Array", <<v.n>>)
         [] v.k = "map" -> R("Map", <<v.n>>)
         [] v.k = "str" -> R("Str", <<spans[i].body, n>>)
         [] v.k = "bin" -> R("Bin", <<spans[i].body, n>>)
         [] v.k = "time" -> T(v.s, v.ns)

\* The times that a format keeps: Ts32 (and so TsAuto for whole seconds) up to
\* 2^32 s, Ts64 up to 2^34 s, EventTime up to 2^31 s; all but Ts64, Ts96 and
\* EventTime whole seconds only.
Kept(v) ==
    v.k = "time" =>
        CASE Format(v) = "Ts32" -> v.ns = 0 /\ v.s = ZeroExtend(Low(v.s, 4))
          [] Format(v) = "Ts64" -> AtMost(v.s, ZeroExtend(<<3, 255, 255, 255, 255>>))
          [] Format(v) = "TsInt" -> v.ns = 0
          [] Format(v) \in {"TsFluentd", "Ext"} -> v.s = SignExtend(Low(v.s, 4))
          [] Format(v) = "Ts96" -> TRUE

\* A TsInt of the same seconds.
AsNumber(i) == vals[i].k = "time" /\ Format(vals[i]) = "TsInt" /\ got.val.v = vals[i].s

\* A length whose bytes are a negative number to intFromBuf.
Signed(n) == Between(n, 128, 255) \/ Between(n, 32768, 65535)
SignedLength(v) ==
    \/ v.k = "bin" /\ v.how = "AppendBinary" /\ Signed(v.n)
    \/ v.k \in {"array", "map"} /\ Between(v.n, 32768, 65535)

\* The iterator returns what was appended, for every type, width and length,
\* exactly if the format keeps it, and only if all of it is there; but it does not
\* for times with an ext8 header, which are TimesRead's, nor for what comes behind
\* them.  AppendText shows a TsInt as a number.
IteratorReads ==
    pc \in {"next", "text"} /\ got.i # 0 /\ Clean(got.i + 1) =>
        /\ \/ (got.val = Meaning(got.i) <=> Kept(vals[got.i]))
           \/ pc = "text" /\ AsNumber(got.i)
        /\ spans[got.i].end <= lim

\* Iterator.Time returns every time that its format keeps: an EventTime in both of
\* its forms, as in forward-protocol-specification.md, and a Ts96, as readTimeUnsafe
\* says of the header byte.  The code does not.
TimesRead ==
    pc = "next" /\ got.i # 0 /\ Clean(got.i) /\ IsTime(got.i) /\ Kept(vals[got.i]) =>
        got.val = Meaning(got.i)

\* Between two values the iterator is where the next one begins: whether values
\* were read, shown or skipped, and whatever was nested in those that were.  It
\* stops only where a value is incomplete or none is left, and never goes beyond
\* the bytes there are.  It takes bytes inside of a value for a token only behind an
\* ext8, or in Skip and AppendText of an array or a map that is cut short.
Aligned ==
    /\ pc = "next" /\ Clean(idx) => pos = IF Start(idx) <= lim THEN Start(idx) ELSE lim
    /\ pc = "done" /\ Clean(Behind(idx)) /\ idx <= Len(vals) =>
          IF todo = <<>> THEN lim < spans[idx].end
                         ELSE Behind(idx) > Len(vals) + 1 \/ lim < Start(Behind(idx))
    /\ pc = "lost" /\ Clean(Len(vals) + 1) => todo # <<>> /\ lim < buf.len
    /\ pos <= lim

\* The Read functions return what was appended and the offset behind it, and an
\* error if it is cut short; except that the lengths of binaries, arrays and maps
\* are taken for signed: those of binaries panic, the others come out negative.
FunctionsRead ==
    /\ pc = "offset" /\ got.i # 0 =>
          /\ (got.val = Meaning(got.i)) <=> (Kept(vals[got.i]) /\ ~SignedLength(vals[got.i]))
          /\ pos = spans[got.i].end
    /\ pc = "failed" => lim < spans[idx].end
    /\ pc = "panic" => \/ vals[idx].k = "bin" /\ SignedLength(vals[idx])
                       \/ Ext8(vals[idx]) /\ lim = spans[idx].end - 1

\* What BytesLen takes for the end of a value is its end.  It is not for an array
\* or a map with items, for lengths that are signed, and for an ext8.
Whole(v) ==
    /\ Children(v) = 0
    /\ ~Ext8(v) /\ ~SignedLength(v)
    /\ v.k = "str" => \/ v.how = "AppendStringUnknownLength"
                      \/ ~Signed(v.n) /\ (v.how = "AppendStringMax255" => v.n < 128)
WholeBefore(i) == \A j \in DOMAIN vals : 1 < j /\ j < i => Whole(vals[j])

\* Array and Map yield the elements, in order, as long as those before are Whole,
\* and String shows them as they were appended; they yield all of them if their
\* number is not signed; they panic, or come to bytes in the middle of a value,
\* only behind or on one that is not Whole or is cut short.
ValueReads ==
    /\ pc = "element" /\ got.i # 0 /\ WholeBefore(got.i + 1) =>
             /\ (got.val = Meaning(got.i) <=> Kept(vals[got.i])) \/ AsNumber(got.i)
             /\ pos = spans[got.i].end
    /\ pc \in {"stray", "vpanic"} => lim < buf.len \/ ~WholeBefore(Len(vals) + 1)
    /\ pc = "yielded" /\ WholeBefore(Len(vals) + 1) /\ lim = buf.len =>
          idx = Behind(1) \/ SignedLength(vals[1])
    /\ pc = "emptied" /\ WholeBefore(Len(vals) + 1) /\ lim = buf.len => Behind(1) > Len(vals) + 1

\* What is read from bytes at an offset, by the Read functions or through Value, is
\* what was appended, with the exceptions named above.
OffsetReads == FunctionsRead /\ ValueReads

=============================================================================
