-------------------------------- MODULE Gzip --------------------------------
(***************************************************************************)
(* The gzip reader of internal/gzip, which skips the headers and trailers  *)
(* of a stream of gzip members and inflates what is between them.  This is *)
(* how a server reads a compressed batch, and so the files of the disk     *)
(* buffers, which are such streams.                                        *)
(***************************************************************************)
EXTENDS Naturals, Sequences

\* A stream is a sequence of cells: bytes that the reader looks at, bytes that it
\* skips, and blocks of deflate data, the last one of a member marked.
Byte(v) == [k |-> "byte", v |-> v]
Any == Byte(1)
Block(d, final) == [k |-> IF final THEN "final" ELSE "block", v |-> d]

gzipID1 == 31
gzipID2 == 139
gzipDeflate == 8
Flag == {"flagText", "flagHdrCrc", "flagExtra", "flagName", "flagComment"}
Flags(f) == [k |-> "flags", v |-> f]

-----------------------------------------------------------------------------
(* The header.  A place in the stream is an index, or 0 after an error. *)

\* s has n more cells from p on.
Has(s, p, n) == p > 0 /\ p + n <= Len(s) + 1

skipBytes(s, p, n) == IF Has(s, p, n) THEN p + n ELSE 0

skipNullTerminated(s, p) ==
    LET nulls == {q \in p..Len(s) : s[q] = Byte(0)} IN
    IF p = 0 \/ nulls = {} THEN 0 ELSE 1 + CHOOSE q \in nulls : \A r \in nulls : q <= r

\* The optional parts, in their order.
skipHeader(s, p) ==
    IF ~Has(s, p, 10) \/ SubSeq(s, p, p + 2) # <<Byte(gzipID1), Byte(gzipID2), Byte(gzipDeflate)>>
       THEN 0
       ELSE LET flg == s[p + 3].v
                start == p + 10
                extra == IF "flagExtra" \notin flg THEN start
                         ELSE IF Has(s, start, 2) THEN skipBytes(s, start + 2, s[start].v) ELSE 0
                name == IF "flagName" \in flg THEN skipNullTerminated(s, extra) ELSE extra
                comment == IF "flagComment" \in flg THEN skipNullTerminated(s, name) ELSE name
            IN IF "flagHdrCrc" \in flg THEN skipBytes(s, comment, 2) ELSE comment

-----------------------------------------------------------------------------
(* Read *)

\* One call of the inflater at p: a block, and io.EOF together with the last one
\* or, as if it were a call later, after it.
Inflate(s, p, together) ==
    CASE p > Len(s) -> [n |-> <<>>, next |-> 0, eof |-> FALSE]
      [] p <= Len(s) /\ s[p].k = "block" -> [n |-> s[p].v, next |-> p + 1, eof |-> FALSE]
      [] p <= Len(s) /\ s[p].k = "final" -> [n |-> s[p].v, next |-> p + 1, eof |-> together \/ s[p].v = <<>>]
      [] OTHER -> [n |-> <<>>, next |-> p, eof |-> p > 1 /\ s[p - 1].k = "final"]

\* What all calls of Read return together, from the place where Reset has left the
\* reader up to the first error: out, and whether that came behind a trailer.
ReadAll(s, together) ==
    LET step[i \in 0..(2 * Len(s))] ==
          IF i = 0 THEN [out |-> <<>>, p |-> skipHeader(s, 1), ended |-> FALSE]
          ELSE LET r == step[i - 1]
                   f == Inflate(s, r.p, together)
                   trailer == skipBytes(s, f.next, 8) IN
               IF r.p = 0 THEN r
               ELSE [out |-> r.out \o f.n,
                     p |-> IF ~f.eof THEN f.next ELSE IF trailer = 0 THEN 0 ELSE skipHeader(s, trailer),
                     ended |-> f.eof /\ trailer = Len(s) + 1]
    IN step[2 * Len(s)]

-----------------------------------------------------------------------------
(* What compressors write *)

\* A member with flags flg, a name (or comment, or extra field) of n cells, and
\* one or more blocks of data.
Repeat(n) == [i \in 1..n |-> Any]
Member(flg, n, data) ==
    <<Byte(gzipID1), Byte(gzipID2), Byte(gzipDeflate), Flags(flg)>> \o Repeat(6)
    \o (IF "flagExtra" \in flg THEN <<Byte(n), Byte(0)>> \o Repeat(n) ELSE <<>>)
    \o (IF "flagName" \in flg THEN Repeat(n) \o <<Byte(0)>> ELSE <<>>)
    \o (IF "flagComment" \in flg THEN Repeat(n) \o <<Byte(0)>> ELSE <<>>)
    \o (IF "flagHdrCrc" \in flg THEN Repeat(2) ELSE <<>>)
    \o [i \in 1..Len(data) |-> Block(data[i], i = Len(data))]
    \o Repeat(8)

=============================================================================
