-------------------------- MODULE TransportProofs ---------------------------
(***************************************************************************)
(* Proofs about Transport, for streams of any length and any number of     *)
(* events, entries and timeouts.                                           *)
(***************************************************************************)
EXTENDS Transport, FiniteSetTheorems, TLAPS

-----------------------------------------------------------------------------
(* The inductive invariant *)

\* The handler has all records up to k; it lacks the one that k stands behind.
Read(k) == Number(stream, k) = Len(delivered)
Midway(k) == k > 0 /\ IsRecord(stream[k]) /\ Number(stream, k) = Len(delivered) + 1

\* What has been read up to k belongs to the event of the current tag, unless it is
\* the beginning of another one, whose tag comes next.
InEvent(k) ==
    /\ k > 0 /\ Read(k)
    /\ stream[k].ev = tag \/ (k < Len(stream) => stream[k + 1].typ = "str")

\* Between two entries of a batch, behind an entry's time, and at its fields.
Between(k) == InEvent(k) /\ stream[k].typ \in {"array", "str"}
Timed(k) == k > 0 /\ Read(k) /\ stream[k].typ \in {"ext", "int"} /\ stream[k].ev = tag
AtFields(k) == Midway(k) /\ rec = stream[k] /\ stream[k].ev = tag

\* Where Next of a packed mode may begin: an iterator that flushes by itself may have
\* been left anywhere in an entry.
InBatch(k) == InEvent(k) \/ Midway(k)

\* Options are read when nothing is left of the entries.
NoRecordNext(k) == k < Len(stream) => ~IsRecord(stream[k + 1])
AtOptions == pos > 0 /\ Read(pos) /\ NoRecordNext(pos)
AtValue == pos > 0 /\ Read(pos) /\ stream[pos].typ = "str" /\ (isChunk => stream[pos].key = "chunk")

\* The session's iterator stands behind the bin whose end is nend.
AtBin == pos > 0 /\ stream[pos].typ = "bin" /\ stream[pos].ev = tag /\ nend = pos + stream[pos].n

\* Nothing comes any more.
Cut == ~open /\ pos = sent

\* The handler has all entries of the events up to this one.
AllHanded == \A i \in Entries : stream[i].ev <= tag => Number(stream, i) <= Len(delivered)

Ended == {"invalid", "ended", "lost"}

\* MessageMode.  Next may begin in the middle of a record, which no event begins with.
InMessage ==
    mode = "message" =>
        /\ pc \in {"next", "head", "tag", "second", "peek", "record", "fields", "options",
                   "timeout"} \cup Ended
        /\ pc \in {"next", "head"} => Read(pos) \/ Midway(pos)
        /\ pc = "tag" => Read(pos)
        /\ pc = "second" => pos > 0 /\ Read(pos) /\ stream[pos].typ = "str" /\ stream[pos].ev = tag
        /\ pc = "peek" => Read(pos) /\ AtBin
        /\ pc = "record" => Timed(pos)
        /\ pc \in {"fields", "options"} => AtFields(pos)
        /\ pc \notin {"next"} \cup Ended => Read(mark) \/ (mark = pos /\ Midway(pos))

InForward ==
    mode = "forward" =>
        /\ pc \in {"next", "entry", "time", "entryRecord", "fields", "options", "key", "value",
                   "timeout"} \cup Ended
        /\ manual
        /\ pc \in {"next", "entry"} => Between(pos)
        /\ pc = "time" => InEvent(pos)
        /\ pc = "entryRecord" => Timed(pos)
        /\ pc = "fields" => AtFields(pos)
        /\ pc = "options" => AtOptions
        /\ pc = "key" => Read(pos)
        /\ pc = "value" => AtValue
        /\ pc \notin {"next"} \cup Ended => Between(mark)

InPacked ==
    mode \in Packed /\ nested =>
        /\ pc \in {"next", "entry", "time", "entryRecord", "fields", "timeout"} \cup Ended
        /\ AtBin
        /\ pc \in {"next", "entry"} => InBatch(npos)
        /\ pc = "time" => InEvent(npos)
        /\ pc = "entryRecord" => Timed(npos)
        /\ pc = "fields" => AtFields(npos)
        /\ pc \notin {"next"} \cup Ended => InBatch(nmark)

\* A packed mode that has been left without being changed: its options are read.
PackedLeft ==
    mode \in Packed /\ ~nested =>
        /\ pc \in {"options", "key", "value", "timeout", "panic"} \cup Ended
        /\ hasOptions
        /\ pc = "options" => AtOptions \/ Cut
        /\ pc = "key" => Read(pos)
        /\ pc = "value" => AtValue
        /\ AllHanded \/ (Cut /\ pc \in {"options"} \cup Ended)

Bounds == nmark <= npos /\ npos <= sent

Waiting == pc \in {"timeout", "panic"} => timeouts

Inv ==
    /\ TypeOK /\ Bounds /\ Waiting
    /\ InMessage /\ InForward /\ InPacked /\ PackedLeft
    /\ OrderedPrefix /\ AckFollows

-----------------------------------------------------------------------------
(* Counting records *)

LEMMA CountIs ==
    ASSUME NEW s, NEW k \in Nat
    PROVE  /\ IsFiniteSet({j \in 1..k : IsRecord(s[j])})
           /\ Number(s, k) \in Nat
<1> DEFINE A == {j \in 1..k : IsRecord(s[j])}
<1>1. IsFiniteSet(1..k) BY FS_Interval
<1>2. A \subseteq 1..k OBVIOUS
<1> HIDE DEF A
<1>3. IsFiniteSet(A) BY <1>1, <1>2, FS_Subset
<1>4. Cardinality(A) \in Nat BY <1>3, FS_CardinalityType
<1> QED BY <1>3, <1>4 DEF A, Number

LEMMA CountZero == ASSUME NEW s PROVE Number(s, 0) = 0
<1>1. {j \in 1..0 : IsRecord(s[j])} = {} OBVIOUS
<1> QED BY <1>1, FS_EmptySet DEF Number

LEMMA CountStep ==
    ASSUME NEW s, NEW k \in Nat
    PROVE  Number(s, k + 1) = IF IsRecord(s[k + 1]) THEN Number(s, k) + 1 ELSE Number(s, k)
<1> DEFINE A == {j \in 1..k : IsRecord(s[j])}
           B == {j \in 1..(k + 1) : IsRecord(s[j])}
<1>1. IsFiniteSet(A) BY CountIs
<1>2. k + 1 \notin A OBVIOUS
<1>3. ASSUME IsRecord(s[k + 1]) PROVE B = A \cup {k + 1} BY <1>3
<1>4. ASSUME ~IsRecord(s[k + 1]) PROVE B = A BY <1>4
<1> HIDE DEF A, B
<1>5. Cardinality(A \cup {k + 1}) = Cardinality(A) + 1 BY <1>1, <1>2, FS_AddElement
<1> QED BY <1>3, <1>4, <1>5 DEF A, B, Number

LEMMA CountGrows ==
    ASSUME NEW s, NEW i \in Nat, NEW k \in Nat, i <= k
    PROVE  Number(s, i) <= Number(s, k)
<1> DEFINE A == {j \in 1..i : IsRecord(s[j])}
           B == {j \in 1..k : IsRecord(s[j])}
<1>1. IsFiniteSet(B) BY CountIs
<1>2. A \subseteq B OBVIOUS
<1> HIDE DEF A, B
<1>3. Cardinality(A) <= Cardinality(B) BY <1>1, <1>2, FS_Subset
<1> QED BY <1>3 DEF A, B, Number

\* Every record has a number of its own.
LEMMA CountDiffers ==
    ASSUME NEW s, NEW i \in Nat, NEW k \in Nat \ {0}, i < k, IsRecord(s[k])
    PROVE  Number(s, i) < Number(s, k)
<1>1. k - 1 \in Nat /\ i <= k - 1 /\ (k - 1) + 1 = k OBVIOUS
<1>2. Number(s, i) <= Number(s, k - 1) BY <1>1, CountGrows
<1>3. Number(s, (k - 1) + 1) = Number(s, k - 1) + 1 BY <1>1, CountStep
<1>4. Number(s, i) \in Nat /\ Number(s, k - 1) \in Nat BY <1>1, CountIs
<1> QED BY <1>1, <1>2, <1>3, <1>4

-----------------------------------------------------------------------------
(* The next token *)

LEMMA Stream ==
    ASSUME TypeOK
    PROVE  /\ stream \in Seq(Token) /\ Len(stream) \in Nat /\ Marked(stream)
           /\ \A k \in 1..Len(stream) : stream[k] \in Token
<1>1. stream \in Seq(Token) /\ Marked(stream) BY TransportAssumption DEF TypeOK
<1> QED BY <1>1

LEMMA TokenIs ==
    ASSUME TypeOK, NEW k \in Nat, k < sent
    PROVE  /\ k + 1 \in 1..Len(stream) /\ stream[k + 1] \in Token
           /\ stream[k + 1].typ \in Types /\ stream[k + 1].n \in Nat /\ stream[k + 1].ev \in Nat
           /\ stream[k + 1].ent \in Nat
<1>1. k + 1 \in 1..Len(stream) BY Stream DEF TypeOK
<1>2. stream[k + 1] \in Token BY <1>1, Stream
<1> QED BY <1>1, <1>2 DEF Token

\* What the marks say of two tokens that follow each other.
LEMMA Neighbours ==
    ASSUME TypeOK, NEW k \in Nat \ {0}, k < Len(stream)
    PROVE  /\ IsRecord(stream[k]) => stream[k + 1].typ = "str"
           /\ stream[k + 1].typ = "map" =>
                 (IsRecord(stream[k + 1]) <=> stream[k].typ \in {"ext", "int"})
           /\ stream[k + 1].ev # stream[k].ev =>
                 \/ stream[k + 1].typ = "nil"
                 \/ /\ stream[k + 1].typ = "array"
                    /\ k + 1 < Len(stream) => stream[k + 2].typ = "str"
<1>1. k \in 1..Len(stream) /\ k + 1 \in 1..Len(stream) /\ k + 1 > 1
      /\ (k + 1) - 1 = k /\ (k + 1) + 1 = k + 2
    BY Stream
<1>2. IsRecord(stream[k]) => stream[k + 1].typ = "str" BY <1>1, Stream DEF Marked
<1>3. stream[k + 1].typ = "map" =>
          (stream[k + 1].ent > 0 <=> k + 1 > 1 /\ stream[(k + 1) - 1].typ \in {"ext", "int"})
    BY <1>1, Stream DEF Marked
<1>4. k + 1 > 1 /\ stream[k + 1].ev # stream[(k + 1) - 1].ev =>
          \/ stream[k + 1].typ = "nil"
          \/ stream[k + 1].typ = "array" /\ (k + 1 < Len(stream) => stream[(k + 1) + 1].typ = "str")
    BY <1>1, Stream DEF Marked
<1> QED BY <1>1, <1>2, <1>3, <1>4 DEF IsRecord

LEMMA CountNext ==
    ASSUME TypeOK, NEW k \in Nat, k < sent
    PROVE  /\ Number(stream, k) \in Nat /\ Number(stream, k + 1) \in Nat /\ Len(delivered) \in Nat
           /\ IsRecord(stream[k + 1]) => Number(stream, k + 1) = Number(stream, k) + 1
           /\ ~IsRecord(stream[k + 1]) => Number(stream, k + 1) = Number(stream, k)
<1>1. Len(delivered) \in Nat BY DEF TypeOK
<1>2. k + 1 \in Nat OBVIOUS
<1>3. Number(stream, k) \in Nat /\ Number(stream, k + 1) \in Nat BY <1>2, CountIs
<1> QED BY <1>1, <1>3, CountStep

\* Nothing but a map is a record.
LEMMA ReadOther ==
    ASSUME TypeOK, NEW k \in Nat, k < sent, Read(k), stream[k + 1].typ # "map"
    PROVE  Read(k + 1)
BY CountNext DEF Read, IsRecord

\* A key comes behind the head of a record.
LEMMA KeyNext ==
    ASSUME TypeOK, NEW k \in Nat, k < sent, Midway(k)
    PROVE  stream[k + 1].typ = "str"
<1>1. k \in Nat \ {0} /\ k < Len(stream) BY Stream DEF TypeOK, Midway
<1> QED BY <1>1, Neighbours DEF Midway

\* Any token but the beginning of an event is marked as the one before.
LEMMA SameEvent ==
    ASSUME TypeOK, NEW k \in Nat \ {0}, k < sent, stream[k].ev = tag,
           stream[k + 1].typ \notin {"nil", "array"}
    PROVE  stream[k + 1].ev = tag
<1>1. k < Len(stream) BY Stream DEF TypeOK
<1> QED BY <1>1, Neighbours

LEMMA ArrayNext ==
    ASSUME TypeOK, NEW k \in Nat \ {0}, k < sent, stream[k].ev = tag, Read(k),
           stream[k + 1].typ = "array"
    PROVE  Between(k + 1) /\ InEvent(k + 1)
<1>1. k < Len(stream) /\ (k + 1) + 1 = k + 2 /\ k + 1 > 0 BY Stream DEF TypeOK
<1>2. Read(k + 1) BY ReadOther
<1> QED BY <1>1, <1>2, Neighbours DEF Between, InEvent

LEMMA TimeNext ==
    ASSUME TypeOK, NEW k \in Nat \ {0}, k < sent, stream[k].ev = tag, Read(k),
           stream[k + 1].typ \in {"ext", "int"}
    PROVE  Timed(k + 1)
<1>1. stream[k + 1].typ \notin {"nil", "array"} /\ stream[k + 1].typ # "map" /\ k + 1 > 0 OBVIOUS
<1> QED BY <1>1, ReadOther, SameEvent DEF Timed

LEMMA RecordNext ==
    ASSUME TypeOK, NEW k \in Nat, k < sent, Timed(k), stream[k + 1].typ = "map"
    PROVE  Midway(k + 1) /\ stream[k + 1].ev = tag
<1>1. k \in Nat \ {0} /\ k < Len(stream) BY Stream DEF TypeOK, Timed
<1>2. IsRecord(stream[k + 1]) BY <1>1, Neighbours DEF Timed
<1>3. stream[k + 1].ev = tag BY <1>1, SameEvent DEF Timed
<1> QED BY <1>1, <1>2, <1>3, CountNext DEF Timed, Read, Midway

LEMMA FieldsNext ==
    ASSUME TypeOK, NEW k \in Nat, k < sent, AtFields(k)
    PROVE  /\ stream[k + 1].typ = "str" /\ stream[k + 1].ev = tag
           /\ Number(stream, k + 1) = Len(delivered) + 1
<1>1. k \in Nat \ {0} BY DEF AtFields, Midway
<1>2. stream[k + 1].typ = "str" BY KeyNext DEF AtFields
<1>3. stream[k + 1].ev = tag BY <1>1, <1>2, SameEvent DEF AtFields
<1> QED BY <1>2, <1>3, CountNext DEF AtFields, Midway, IsRecord

\* In a batch an array is an entry, or the head of another event.
LEMMA EntryNext ==
    ASSUME TypeOK, NEW k \in Nat, k < sent, InBatch(k), stream[k + 1].typ = "array"
    PROVE  InEvent(k + 1)
<1>1. ~Midway(k) BY KeyNext
<1>2. InEvent(k) BY <1>1 DEF InBatch
<1>3. k \in Nat \ {0} /\ Read(k) /\ k < Len(stream) BY <1>2, Stream DEF InEvent, TypeOK
<1>4. stream[k].ev = tag BY <1>2, <1>3 DEF InEvent
<1> QED BY <1>3, <1>4, ArrayNext

LEMMA EntryTimeNext ==
    ASSUME TypeOK, NEW k \in Nat, k < sent, InEvent(k), stream[k + 1].typ \in {"ext", "int"}
    PROVE  Timed(k + 1)
<1>1. k \in Nat \ {0} /\ Read(k) /\ k < Len(stream) BY Stream DEF InEvent, TypeOK
<1>2. stream[k].ev = tag BY <1>1 DEF InEvent
<1> QED BY <1>1, <1>2, TimeNext

\* Records come behind a time only.
LEMMA BehindOther ==
    ASSUME TypeOK, NEW k \in Nat \ {0}, stream[k].typ \notin {"ext", "int"}
    PROVE  NoRecordNext(k)
BY Neighbours DEF NoRecordNext, IsRecord

LEMMA ReadNoRecord ==
    ASSUME TypeOK, NEW k \in Nat, k < sent, Read(k), NoRecordNext(k)
    PROVE  Read(k + 1)
<1>1. ~IsRecord(stream[k + 1]) BY Stream DEF NoRecordNext, TypeOK
<1> QED BY <1>1, CountNext DEF Read

-----------------------------------------------------------------------------
(* Reading *)

LEMMA OuterRead ==
    ASSUME TypeOK, NEW l, Reads(l), ~Inner
    PROVE  /\ pc = l /\ pos \in Nat /\ pos < sent /\ Tok = stream[pos + 1] /\ Tok.typ \in Expected[l]
           /\ pos' = pos + 1 /\ mark' = Flushed /\ npos' = npos /\ nmark' = nmark
BY DEF TypeOK, Reads, Here, Limit, Tok, Advance

LEMMA InnerRead ==
    ASSUME TypeOK, NEW l, Reads(l), Inner
    PROVE  /\ pc = l /\ npos \in Nat /\ npos < sent /\ Tok = stream[npos + 1]
           /\ Tok.typ \in Expected[l]
           /\ npos' = npos + 1 /\ nmark' = (IF nmanual THEN nmark ELSE npos + 1)
           /\ pos' = pos /\ mark' = mark
<1>1. npos \in Nat /\ nlimit \in Nat /\ sent \in Nat BY Stream DEF TypeOK
<1> QED BY <1>1 DEF Reads, Here, Limit, Tok, Advance

LEMMA Accepted ==
    /\ Expected["head"] = {"array"} /\ Expected["tag"] = {"str"}
    /\ Expected["second"] = {"ext", "int", "array", "bin"} /\ Expected["record"] = {"map"}
    /\ Expected["entry"] = {"array"} /\ Expected["time"] = {"ext", "int"}
    /\ Expected["entryRecord"] = {"map"} /\ Expected["key"] = {"str"}
    /\ DOMAIN Expected = {"head", "tag", "second", "peek", "record", "entry", "time", "entryRecord",
                          "fields", "options", "key", "value"}
BY DEF Expected

\* Where the session is tells its mode.
LEMMA Places ==
    ASSUME Inv
    PROVE  /\ mode \in {"message", "forward"} \cup Packed
           /\ pc \in {"head", "tag", "second", "peek", "record"} => mode = "message"
           /\ pc \in {"entry", "time", "entryRecord"} => mode = "forward" \/ (mode \in Packed /\ nested)
           /\ pc = "fields" => mode \in {"message", "forward"} \/ (mode \in Packed /\ nested)
           /\ pc \in {"key", "value"} => mode = "forward" \/ (mode \in Packed /\ ~nested)
           /\ pc = "options" => mode \in {"message", "forward"} \/ (mode \in Packed /\ ~nested)
BY DEF Inv, TypeOK, InMessage, InForward, InPacked, PackedLeft, Packed, Ended

LEMMA Quiet ==
    ASSUME OrderedPrefix, AckFollows, stream' = stream, delivered' = delivered, acked' = acked
    PROVE  OrderedPrefix' /\ AckFollows'
BY DEF OrderedPrefix, AckFollows, Entries

-----------------------------------------------------------------------------
(* Every step keeps the invariant: how a session ends *)

LEMMA EndsInv ==
    ASSUME Inv, pc' \in {"invalid", "ended"},
           UNCHANGED <<network, phase, iter, inner, event, options, output>>
    PROVE  Inv'
<1> USE DEF network, phase, iter, inner, event, options, output
<1>1. OrderedPrefix' /\ AckFollows' BY Quiet DEF Inv
<1>2. TypeOK' /\ Bounds' /\ Waiting' BY DEF Inv, TypeOK, Bounds, Waiting
<1>3. InMessage' BY DEF Inv, InMessage, Ended, Read, Midway
<1>4. InForward' BY DEF Inv, InForward, Ended
<1>5. InPacked' BY DEF Inv, InPacked, Ended, AtBin
<1>6. PackedLeft' BY DEF Inv, PackedLeft, Ended, AllHanded, Entries, Cut
<1> QED BY <1>1, <1>2, <1>3, <1>4, <1>5, <1>6 DEF Inv


-----------------------------------------------------------------------------
(* MessageMode *)

\* In MessageMode, and not in the middle of a record, what Rewind would return to
\* is no record either.
LEMMA MessageMark ==
    ASSUME Inv, mode = "message", pc \notin {"next"} \cup Ended, Read(pos)
    PROVE  Read(mark)
<1>1. Len(delivered) \in Nat BY DEF Inv, TypeOK
<1>2. ~Midway(pos) BY <1>1 DEF Midway, Read
<1> QED BY <1>2 DEF Inv, InMessage

LEMMA MessageReads ==
    ASSUME Inv, NEW l \in {"head", "tag", "second", "record"}, Reads(l)
    PROVE  /\ mode = "message" /\ pc = l
           /\ pos \in Nat /\ pos < sent /\ Tok = stream[pos + 1] /\ Tok.typ \in Expected[l]
           /\ pos' = pos + 1 /\ mark' = Flushed /\ npos' = npos /\ nmark' = nmark
           /\ Tok \in Token /\ Tok.n \in Nat /\ Tok.ev \in Nat
<1>1. mode = "message" /\ ~Inner BY Places DEF Reads, Inner, Packed
<1>2. /\ pc = l /\ pos \in Nat /\ pos < sent /\ Tok = stream[pos + 1] /\ Tok.typ \in Expected[l]
      /\ pos' = pos + 1 /\ mark' = Flushed /\ npos' = npos /\ nmark' = nmark
    BY <1>1, OuterRead DEF Inv
<1>3. Tok \in Token /\ Tok.n \in Nat /\ Tok.ev \in Nat BY <1>2, TokenIs DEF Inv
<1> QED BY <1>1, <1>2, <1>3

LEMMA NextMessageInv == ASSUME Inv, NextMessage PROVE Inv'
<1>1. /\ mode = "message" /\ pc = "next" /\ pc' = "head" /\ mark' = pos
      /\ UNCHANGED <<stream, sent, open, timeouts, mode, items, hasOptions, pos, manual, nested, npos,
                     nmark, nmanual, nend, nlimit, evLen, tag, rec, left, isChunk, delivered, acked>>
    BY DEF NextMessage, network, phase, inner, event, options, output
<1>2. OrderedPrefix' /\ AckFollows' BY <1>1, Quiet DEF Inv
<1>3. TypeOK' BY <1>1, Accepted DEF Inv, TypeOK
<1>4. Bounds' /\ Waiting' BY <1>1 DEF Inv, Bounds, Waiting
<1>5. InMessage'
  <2>1. Read(pos) \/ Midway(pos) BY <1>1 DEF Inv, InMessage
  <2> QED BY <1>1, <2>1 DEF InMessage, Ended, Read, Midway
<1>6. InForward' /\ InPacked' /\ PackedLeft' BY <1>1 DEF InForward, InPacked, PackedLeft, Packed
<1> QED BY <1>2, <1>3, <1>4, <1>5, <1>6 DEF Inv

LEMMA MessageHeadInv == ASSUME Inv, MessageHead PROVE Inv'
<1>1. mode = "message" /\ pc = "head" BY MessageReads DEF MessageHead
<1>2. /\ pos \in Nat /\ pos < sent /\ Tok = stream[pos + 1] /\ Tok.typ = "array"
      /\ pos' = pos + 1 /\ mark' = Flushed /\ npos' = npos /\ nmark' = nmark
    BY MessageReads, Accepted DEF MessageHead
<1>3. /\ pc' \in {"tag", "invalid"} /\ evLen' = Tok.n
      /\ UNCHANGED <<stream, sent, open, timeouts, mode, items, hasOptions, manual, nested, nmanual,
                     nend, nlimit, tag, rec, left, isChunk, delivered, acked>>
    BY DEF MessageHead, network, phase, options, output
<1>4. Tok \in Token /\ Tok.n \in Nat BY <1>2, TokenIs DEF Inv
<1>5. ~Midway(pos) BY <1>2, KeyNext DEF Inv
<1>6. Read(pos) BY <1>1, <1>5 DEF Inv, InMessage
<1>7. Read(pos + 1) BY <1>2, <1>6, ReadOther DEF Inv
<1>8. OrderedPrefix' /\ AckFollows' BY <1>3, Quiet DEF Inv
<1>9. TypeOK' BY <1>2, <1>3, <1>4, Accepted DEF Inv, TypeOK, Flushed
<1>10. Bounds' /\ Waiting' BY <1>2, <1>3 DEF Inv, Bounds, Waiting
<1>11. InMessage'
  <2>1. Read(mark) BY <1>1, <1>5 DEF Inv, InMessage, Ended
  <2>2. Read(pos)' BY <1>2, <1>3, <1>7 DEF Read
  <2>3. Read(mark)' BY <1>2, <1>3, <1>7, <2>1 DEF Read, Flushed
  <2> QED BY <1>3, <2>2, <2>3 DEF InMessage, Ended
<1>12. InForward' /\ InPacked' /\ PackedLeft' BY <1>1, <1>3 DEF InForward, InPacked, PackedLeft, Packed
<1> QED BY <1>8, <1>9, <1>10, <1>11, <1>12 DEF Inv

LEMMA MessageTagInv == ASSUME Inv, MessageTag PROVE Inv'
<1>1. /\ mode = "message" /\ pc = "tag"
      /\ pos \in Nat /\ pos < sent /\ Tok = stream[pos + 1] /\ Tok.typ = "str"
      /\ pos' = pos + 1 /\ mark' = Flushed /\ npos' = npos /\ nmark' = nmark
      /\ Tok \in Token /\ Tok.ev \in Nat
    BY MessageReads, Accepted DEF MessageTag
<1>2. /\ pc' \in {"second", "invalid"} /\ tag' = Tok.ev
      /\ UNCHANGED <<stream, sent, open, timeouts, mode, items, hasOptions, manual, nested, nmanual,
                     nend, nlimit, evLen, rec, left, isChunk, delivered, acked>>
    BY DEF MessageTag, network, phase, options, output
<1>3. Read(pos) BY <1>1 DEF Inv, InMessage
<1>4. Read(mark) BY <1>1, <1>3, MessageMark DEF Ended
<1>5. Read(pos + 1) BY <1>1, <1>3, ReadOther DEF Inv
<1>6. OrderedPrefix' /\ AckFollows' BY <1>2, Quiet DEF Inv
<1>7. TypeOK' BY <1>1, <1>2, Accepted DEF Inv, TypeOK, Flushed
<1>8. Bounds' /\ Waiting' BY <1>1, <1>2 DEF Inv, Bounds, Waiting
<1>9. InMessage'
  <2>1. Read(pos)' BY <1>1, <1>2, <1>5 DEF Read
  <2>2. Read(mark)' BY <1>1, <1>2, <1>4, <1>5 DEF Read, Flushed
  <2>3. (pos > 0 /\ stream[pos].typ = "str" /\ stream[pos].ev = tag)' BY <1>1, <1>2
  <2> QED BY <1>2, <2>1, <2>2, <2>3 DEF InMessage, Ended
<1>10. InForward' /\ InPacked' /\ PackedLeft' BY <1>1, <1>2 DEF InForward, InPacked, PackedLeft, Packed
<1> QED BY <1>6, <1>7, <1>8, <1>9, <1>10 DEF Inv

LEMMA MessageTimeInv == ASSUME Inv, MessageTime PROVE Inv'
<1>1. /\ mode = "message" /\ pc = "second"
      /\ pos \in Nat /\ pos < sent /\ Tok = stream[pos + 1] /\ Tok.typ \in {"ext", "int"}
      /\ pos' = pos + 1 /\ mark' = Flushed /\ npos' = npos /\ nmark' = nmark
    BY MessageReads DEF MessageTime
<1>2. /\ pc' = "record"
      /\ UNCHANGED <<stream, sent, open, timeouts, mode, items, hasOptions, manual, nested, nmanual,
                     nend, nlimit, evLen, tag, rec, left, isChunk, delivered, acked>>
    BY DEF MessageTime, network, phase, event, options, output
<1>3. pos \in Nat \ {0} /\ Read(pos) /\ stream[pos].ev = tag BY <1>1 DEF Inv, InMessage
<1>4. Read(mark) BY <1>1, <1>3, MessageMark DEF Ended
<1>5. Timed(pos + 1) BY <1>1, <1>3, TimeNext DEF Inv
<1>6. OrderedPrefix' /\ AckFollows' BY <1>2, Quiet DEF Inv
<1>7. TypeOK' BY <1>1, <1>2, Accepted DEF Inv, TypeOK, Flushed
<1>8. Bounds' /\ Waiting' BY <1>1, <1>2 DEF Inv, Bounds, Waiting
<1>9. InMessage'
  <2>1. Timed(pos)' BY <1>1, <1>2, <1>5 DEF Timed, Read
  <2>2. Read(mark)' BY <1>1, <1>2, <1>4, <1>5 DEF Timed, Read, Flushed
  <2> QED BY <1>2, <2>1, <2>2 DEF InMessage, Ended
<1>10. InForward' /\ InPacked' /\ PackedLeft' BY <1>1, <1>2 DEF InForward, InPacked, PackedLeft, Packed
<1> QED BY <1>6, <1>7, <1>8, <1>9, <1>10 DEF Inv

LEMMA MessageBinInv == ASSUME Inv, MessageBin PROVE Inv'
<1>1. /\ mode = "message" /\ pc = "second"
      /\ pos \in Nat /\ pos < sent /\ Tok = stream[pos + 1] /\ Tok.typ = "bin"
      /\ pos' = pos + 1 /\ mark' = Flushed /\ npos' = npos /\ nmark' = nmark
      /\ Tok \in Token /\ Tok.n \in Nat
    BY MessageReads DEF MessageBin
<1>2. /\ pc' \in {"peek", "ended"} /\ rec' = Tok /\ nend' = pos + 1 + Tok.n
      /\ UNCHANGED <<stream, sent, open, timeouts, mode, items, hasOptions, manual, nested, nmanual,
                     nlimit, evLen, tag, left, isChunk, delivered, acked>>
    BY DEF MessageBin, network, phase, options, output
<1>3. pos \in Nat \ {0} /\ Read(pos) /\ stream[pos].ev = tag BY <1>1 DEF Inv, InMessage
<1>4. Read(mark) BY <1>1, <1>3, MessageMark DEF Ended
<1>5. Read(pos + 1) BY <1>1, <1>3, ReadOther DEF Inv
<1>6. stream[pos + 1].ev = tag BY <1>1, <1>3, SameEvent DEF Inv
<1>7. OrderedPrefix' /\ AckFollows' BY <1>2, Quiet DEF Inv
<1>8. TypeOK' BY <1>1, <1>2, Accepted DEF Inv, TypeOK, Flushed
<1>9. Bounds' /\ Waiting' BY <1>1, <1>2 DEF Inv, Bounds, Waiting
<1>10. InMessage'
  <2>1. Read(pos)' BY <1>1, <1>2, <1>5 DEF Read
  <2>2. AtBin' BY <1>1, <1>2, <1>6 DEF AtBin
  <2>3. Read(mark)' BY <1>1, <1>2, <1>4, <1>5 DEF Read, Flushed
  <2> QED BY <1>2, <2>1, <2>2, <2>3 DEF InMessage, Ended
<1>11. InForward' /\ InPacked' /\ PackedLeft' BY <1>1, <1>2 DEF InForward, InPacked, PackedLeft, Packed
<1> QED BY <1>7, <1>8, <1>9, <1>10, <1>11 DEF Inv

LEMMA MessageRecordInv == ASSUME Inv, MessageRecord PROVE Inv'
<1>1. /\ mode = "message" /\ pc = "record"
      /\ pos \in Nat /\ pos < sent /\ Tok = stream[pos + 1] /\ Tok.typ = "map"
      /\ pos' = pos + 1 /\ mark' = Flushed /\ npos' = npos /\ nmark' = nmark
      /\ Tok \in Token
    BY MessageReads, Accepted DEF MessageRecord
<1>2. /\ pc' \in {"fields", "options"} /\ rec' = Tok
      /\ UNCHANGED <<stream, sent, open, timeouts, mode, items, hasOptions, manual, nested, nmanual,
                     nend, nlimit, evLen, tag, left, isChunk, delivered, acked>>
    BY DEF MessageRecord, network, phase, options, output
<1>3. Timed(pos) BY <1>1 DEF Inv, InMessage
<1>4. Read(mark) BY <1>1, <1>3, MessageMark DEF Ended, Timed
<1>5. Midway(pos + 1) /\ stream[pos + 1].ev = tag BY <1>1, <1>3, RecordNext DEF Inv
<1>6. OrderedPrefix' /\ AckFollows' BY <1>2, Quiet DEF Inv
<1>7. TypeOK' BY <1>1, <1>2, Accepted DEF Inv, TypeOK, Flushed
<1>8. Bounds' /\ Waiting' BY <1>1, <1>2 DEF Inv, Bounds, Waiting
<1>9. InMessage'
  <2>1. Midway(pos)' BY <1>1, <1>2, <1>5 DEF Midway
  <2>2. AtFields(pos)' BY <1>1, <1>2, <1>5, <2>1 DEF AtFields
  <2>3. Read(mark)' \/ (mark' = pos' /\ Midway(pos)') BY <1>1, <1>2, <1>4, <2>1 DEF Read, Flushed
  <2> QED BY <1>2, <2>2, <2>3 DEF InMessage, Ended
<1>10. InForward' /\ InPacked' /\ PackedLeft' BY <1>1, <1>2 DEF InForward, InPacked, PackedLeft, Packed
<1> QED BY <1>6, <1>7, <1>8, <1>9, <1>10 DEF Inv

-----------------------------------------------------------------------------
(* Entering the other modes *)

LEMMA EnterForwardInv == ASSUME Inv, EnterForward PROVE Inv'
<1>1. /\ mode = "message" /\ pc = "second"
      /\ pos \in Nat /\ pos < sent /\ Tok = stream[pos + 1] /\ Tok.typ = "array"
      /\ pos' = pos + 1 /\ mark' = Flushed /\ npos' = npos /\ nmark' = nmark
      /\ Tok.n \in Nat
    BY MessageReads DEF EnterForward
<1>2. /\ pc' = "next" /\ mode' = "forward" /\ items' = Tok.n /\ hasOptions' = (evLen = 3)
      /\ manual' = TRUE
      /\ UNCHANGED <<stream, sent, open, timeouts, nested, nmanual, nend, nlimit, evLen, tag, rec,
                     left, isChunk, delivered, acked>>
    BY DEF EnterForward, network, event, options, output
<1>3. pos \in Nat \ {0} /\ Read(pos) /\ stream[pos].ev = tag BY <1>1 DEF Inv, InMessage
<1>4. Between(pos + 1) BY <1>1, <1>3, ArrayNext DEF Inv
<1>5. OrderedPrefix' /\ AckFollows' BY <1>2, Quiet DEF Inv
<1>6. TypeOK' BY <1>1, <1>2 DEF Inv, TypeOK, Flushed
<1>7. Bounds' /\ Waiting' BY <1>1, <1>2 DEF Inv, Bounds, Waiting
<1>8. InForward'
  <2>1. Between(pos)' BY <1>1, <1>2, <1>4 DEF Between, InEvent, Read
  <2> QED BY <1>2, <2>1 DEF InForward, Ended
<1>9. InMessage' /\ InPacked' /\ PackedLeft' BY <1>2 DEF InMessage, InPacked, PackedLeft, Packed
<1> QED BY <1>5, <1>6, <1>7, <1>8, <1>9 DEF Inv

LEMMA EnterPackedInv == ASSUME Inv, EnterPacked PROVE Inv'
<1>1. /\ pc = "peek" /\ pc' = "next" /\ mode' \in Packed /\ hasOptions' = (evLen = 3)
      /\ manual' \in BOOLEAN /\ mark' = pos
      /\ nested' = TRUE /\ npos' = pos /\ nmark' = pos /\ nlimit' = nend /\ nmanual' \in BOOLEAN
      /\ UNCHANGED <<stream, sent, open, timeouts, items, pos, nend, evLen, tag, rec,
                     left, isChunk, delivered, acked>>
    BY DEF EnterPacked, network, event, options, output, Packed, PooledFlush
<1>2. Read(pos) /\ AtBin BY <1>1, Places DEF Inv, InMessage
<1>3. OrderedPrefix' /\ AckFollows' BY <1>1, Quiet DEF Inv
<1>4. TypeOK' BY <1>1 DEF Inv, TypeOK
<1>5. Bounds' /\ Waiting' BY <1>1 DEF Inv, TypeOK, Bounds, Waiting
<1>6. InPacked'
  <2>1. InBatch(npos)' BY <1>1, <1>2 DEF InBatch, InEvent, Read, AtBin
  <2>2. AtBin' BY <1>1, <1>2 DEF AtBin
  <2> QED BY <1>1, <2>1, <2>2 DEF InPacked, Ended
<1>7. InMessage' /\ InForward' /\ PackedLeft' BY <1>1 DEF InMessage, InForward, PackedLeft, Packed
<1> QED BY <1>3, <1>4, <1>5, <1>6, <1>7 DEF Inv

LEMMA EnterFailsInv == ASSUME Inv, EnterFails PROVE Inv'
<1>1. /\ pc = "peek" /\ pc' = "lost" /\ manual' \in BOOLEAN /\ mark' = pos
      /\ UNCHANGED <<stream, sent, open, timeouts, mode, items, hasOptions, pos, nested, npos,
                     nmark, nmanual, nend, nlimit, evLen, tag, rec, left, isChunk, delivered, acked>>
    BY DEF EnterFails, network, phase, inner, event, options, output
<1>2. mode = "message" BY <1>1, Places
<1>3. OrderedPrefix' /\ AckFollows' BY <1>1, Quiet DEF Inv
<1>4. TypeOK' BY <1>1 DEF Inv, TypeOK
<1>5. Bounds' /\ Waiting' BY <1>1 DEF Inv, Bounds, Waiting
<1>6. InMessage' BY <1>1 DEF InMessage, Ended
<1>7. InForward' /\ InPacked' /\ PackedLeft' BY <1>1, <1>2 DEF InForward, InPacked, PackedLeft, Packed
<1> QED BY <1>3, <1>4, <1>5, <1>6, <1>7 DEF Inv

-----------------------------------------------------------------------------
(* Entries *)

LEMMA NextForwardInv == ASSUME Inv, NextForward PROVE Inv'
<1>1. /\ mode = "forward" /\ pc = "next" /\ pc' = "entry" /\ mark' = pos
      /\ UNCHANGED <<stream, sent, open, timeouts, mode, items, hasOptions, pos, manual, nested, npos,
                     nmark, nmanual, nend, nlimit, evLen, tag, rec, left, isChunk, delivered, acked>>
    BY DEF NextForward, network, phase, inner, event, options, output
<1>2. manual /\ Between(pos) BY <1>1 DEF Inv, InForward
<1>3. OrderedPrefix' /\ AckFollows' BY <1>1, Quiet DEF Inv
<1>4. TypeOK' BY <1>1, Accepted DEF Inv, TypeOK
<1>5. Bounds' /\ Waiting' BY <1>1 DEF Inv, Bounds, Waiting
<1>6. InForward'
  <2>1. Between(pos)' /\ Between(mark)' BY <1>1, <1>2 DEF Between, InEvent, Read
  <2> QED BY <1>1, <1>2, <2>1 DEF InForward, Ended
<1>7. InMessage' /\ InPacked' /\ PackedLeft' BY <1>1 DEF InMessage, InPacked, PackedLeft, Packed
<1> QED BY <1>3, <1>4, <1>5, <1>6, <1>7 DEF Inv

LEMMA NextPackedInv == ASSUME Inv, NextPacked PROVE Inv'
<1>1. mode \in Packed /\ pc = "next" BY DEF NextPacked
<1>2. nested BY <1>1 DEF Inv, PackedLeft, TypeOK, Ended
<1>3. /\ pc' = "entry" /\ nmark' = npos
      /\ UNCHANGED <<stream, sent, open, timeouts, mode, items, hasOptions, pos, mark, manual, nested,
                     npos, nmanual, nend, nlimit, evLen, tag, rec, left, isChunk, delivered, acked>>
    BY <1>2 DEF NextPacked, network, phase, iter, event, options, output
<1>4. AtBin /\ InBatch(npos) BY <1>1, <1>2 DEF Inv, InPacked
<1>5. OrderedPrefix' /\ AckFollows' BY <1>3, Quiet DEF Inv
<1>6. TypeOK' BY <1>3, Accepted DEF Inv, TypeOK
<1>7. Bounds' /\ Waiting' BY <1>3 DEF Inv, TypeOK, Bounds, Waiting
<1>8. InPacked'
  <2>1. InBatch(npos)' /\ InBatch(nmark)' BY <1>3, <1>4 DEF InBatch, InEvent, Midway, Read
  <2>2. AtBin' BY <1>3, <1>4 DEF AtBin
  <2> QED BY <1>3, <2>1, <2>2 DEF InPacked, Ended
<1>9. InMessage' /\ InForward' /\ PackedLeft'
    BY <1>1, <1>2, <1>3 DEF InMessage, InForward, PackedLeft, Packed
<1> QED BY <1>5, <1>6, <1>7, <1>8, <1>9 DEF Inv

\* A token of an entry in ForwardMode, and in a packed mode.
LEMMA ForwardReads ==
    ASSUME Inv, NEW l \in {"entry", "time", "entryRecord", "fields"}, Reads(l), mode = "forward"
    PROVE  /\ pc = l /\ manual
           /\ pos \in Nat /\ pos < sent /\ Tok = stream[pos + 1] /\ Tok.typ \in Expected[l]
           /\ pos' = pos + 1 /\ mark' = mark /\ npos' = npos /\ nmark' = nmark
           /\ Tok \in Token /\ Between(mark)
<1>1. ~Inner BY DEF Inner, Packed
<1>2. manual BY DEF Inv, InForward
<1>3. /\ pc = l /\ pos \in Nat /\ pos < sent /\ Tok = stream[pos + 1] /\ Tok.typ \in Expected[l]
      /\ pos' = pos + 1 /\ mark' = mark /\ npos' = npos /\ nmark' = nmark
    BY <1>1, <1>2, OuterRead DEF Inv, Flushed
<1>4. Tok \in Token BY <1>3, TokenIs DEF Inv
<1>5. Between(mark) BY <1>3 DEF Inv, InForward, Ended
<1> QED BY <1>2, <1>3, <1>4, <1>5

LEMMA PackedReads ==
    ASSUME Inv, NEW l \in {"entry", "time", "entryRecord", "fields"}, Reads(l), mode \in Packed
    PROVE  /\ pc = l /\ nested
           /\ npos \in Nat /\ npos < sent /\ Tok = stream[npos + 1] /\ Tok.typ \in Expected[l]
           /\ npos' = npos + 1 /\ nmark' \in {nmark, npos + 1} /\ pos' = pos /\ mark' = mark
           /\ Tok \in Token /\ AtBin /\ InBatch(nmark)
<1>1. pc = l BY DEF Reads
<1>2. Inner BY <1>1 DEF Inner
<1>3. nested BY <1>1, Places DEF Packed
<1>4. /\ npos \in Nat /\ npos < sent /\ Tok = stream[npos + 1] /\ Tok.typ \in Expected[l]
      /\ npos' = npos + 1 /\ nmark' \in {nmark, npos + 1} /\ pos' = pos /\ mark' = mark
    BY <1>2, InnerRead DEF Inv
<1>5. Tok \in Token BY <1>4, TokenIs DEF Inv
<1>6. AtBin /\ InBatch(nmark) BY <1>1, <1>3 DEF Inv, InPacked, Ended
<1> QED BY <1>1, <1>3, <1>4, <1>5, <1>6

LEMMA EntryHeadInv == ASSUME Inv, EntryHead PROVE Inv'
<1>1. /\ pc = "entry" /\ pc' \in {"time", "invalid"}
      /\ UNCHANGED <<stream, sent, open, timeouts, mode, items, hasOptions, manual, nested, nmanual,
                     nend, nlimit, evLen, tag, rec, left, isChunk, delivered, acked>>
    BY DEF EntryHead, Reads, network, phase, event, options, output
<1>2. OrderedPrefix' /\ AckFollows' BY <1>1, Quiet DEF Inv
<1>3. CASE mode = "forward"
  <2>1. /\ pos \in Nat /\ pos < sent /\ Tok = stream[pos + 1] /\ Tok.typ = "array" /\ manual
        /\ pos' = pos + 1 /\ mark' = mark /\ npos' = npos /\ nmark' = nmark /\ Between(mark)
      BY <1>3, ForwardReads, Accepted DEF EntryHead
  <2>2. InBatch(pos) BY <1>1, <1>3 DEF Inv, InForward, Between, InBatch
  <2>3. InEvent(pos + 1) BY <2>1, <2>2, EntryNext DEF Inv
  <2>4. TypeOK' BY <1>1, <2>1, Accepted DEF Inv, TypeOK
  <2>5. Bounds' /\ Waiting' BY <1>1, <2>1 DEF Inv, Bounds, Waiting
  <2>6. InForward'
    <3>1. InEvent(pos)' BY <1>1, <2>1, <2>3 DEF InEvent, Read
    <3>2. Between(mark)' BY <1>1, <2>1 DEF Between, InEvent, Read
    <3> QED BY <1>1, <2>1, <3>1, <3>2 DEF InForward, Ended
  <2>7. InMessage' /\ InPacked' /\ PackedLeft' BY <1>1, <1>3 DEF InMessage, InPacked, PackedLeft, Packed
  <2> QED BY <1>2, <2>4, <2>5, <2>6, <2>7 DEF Inv
<1>4. CASE mode \in Packed
  <2>1. /\ npos \in Nat /\ npos < sent /\ Tok = stream[npos + 1] /\ Tok.typ = "array" /\ nested
        /\ npos' = npos + 1 /\ nmark' \in {nmark, npos + 1} /\ pos' = pos /\ mark' = mark
        /\ AtBin /\ InBatch(nmark)
      BY <1>4, PackedReads, Accepted DEF EntryHead
  <2>2. InBatch(npos) BY <1>1, <1>4, <2>1 DEF Inv, InPacked
  <2>3. InEvent(npos + 1) BY <2>1, <2>2, EntryNext DEF Inv
  <2>4. TypeOK' BY <1>1, <2>1, Accepted DEF Inv, TypeOK
  <2>5. Bounds' /\ Waiting' BY <1>1, <2>1 DEF Inv, TypeOK, Bounds, Waiting
  <2>6. InPacked'
    <3>1. InEvent(npos)' BY <1>1, <2>1, <2>3 DEF InEvent, Read
    <3>2. InBatch(nmark)' BY <1>1, <2>1, <2>3 DEF InBatch, InEvent, Midway, Read
    <3>3. AtBin' BY <1>1, <2>1 DEF AtBin
    <3> QED BY <1>1, <3>1, <3>2, <3>3 DEF InPacked, Ended
  <2>7. InMessage' /\ InForward' /\ PackedLeft'
      BY <1>1, <1>4, <2>1 DEF InMessage, InForward, PackedLeft, Packed
  <2> QED BY <1>2, <2>4, <2>5, <2>6, <2>7 DEF Inv
<1> QED BY <1>1, <1>3, <1>4, Places

LEMMA EntryTimeInv == ASSUME Inv, EntryTime PROVE Inv'
<1>1. /\ pc = "time" /\ pc' = "entryRecord"
      /\ UNCHANGED <<stream, sent, open, timeouts, mode, items, hasOptions, manual, nested, nmanual,
                     nend, nlimit, evLen, tag, rec, left, isChunk, delivered, acked>>
    BY DEF EntryTime, Reads, network, phase, event, options, output
<1>2. OrderedPrefix' /\ AckFollows' BY <1>1, Quiet DEF Inv
<1>3. CASE mode = "forward"
  <2>1. /\ pos \in Nat /\ pos < sent /\ Tok = stream[pos + 1] /\ Tok.typ \in {"ext", "int"} /\ manual
        /\ pos' = pos + 1 /\ mark' = mark /\ npos' = npos /\ nmark' = nmark /\ Between(mark)
      BY <1>3, ForwardReads, Accepted DEF EntryTime
  <2>2. InEvent(pos) BY <1>1, <1>3 DEF Inv, InForward
  <2>3. Timed(pos + 1) BY <2>1, <2>2, EntryTimeNext DEF Inv
  <2>4. TypeOK' BY <1>1, <2>1, Accepted DEF Inv, TypeOK
  <2>5. Bounds' /\ Waiting' BY <1>1, <2>1 DEF Inv, Bounds, Waiting
  <2>6. InForward'
    <3>1. Timed(pos)' BY <1>1, <2>1, <2>3 DEF Timed, Read
    <3>2. Between(mark)' BY <1>1, <2>1 DEF Between, InEvent, Read
    <3> QED BY <1>1, <2>1, <3>1, <3>2 DEF InForward, Ended
  <2>7. InMessage' /\ InPacked' /\ PackedLeft' BY <1>1, <1>3 DEF InMessage, InPacked, PackedLeft, Packed
  <2> QED BY <1>2, <2>4, <2>5, <2>6, <2>7 DEF Inv
<1>4. CASE mode \in Packed
  <2>1. /\ npos \in Nat /\ npos < sent /\ Tok = stream[npos + 1] /\ Tok.typ \in {"ext", "int"} /\ nested
        /\ npos' = npos + 1 /\ nmark' \in {nmark, npos + 1} /\ pos' = pos /\ mark' = mark
        /\ AtBin /\ InBatch(nmark)
      BY <1>4, PackedReads, Accepted DEF EntryTime
  <2>2. InEvent(npos) BY <1>1, <1>4, <2>1 DEF Inv, InPacked
  <2>3. Timed(npos + 1) BY <2>1, <2>2, EntryTimeNext DEF Inv
  <2>4. TypeOK'
    <3>1. npos' \in Nat /\ nmark' \in Nat BY <2>1 DEF Inv, TypeOK
    <3>2. pc' \in DOMAIN Expected BY <1>1, Accepted
    <3>3. acked' \subseteq Nat \cup {NoChunk} BY <1>1 DEF Inv, TypeOK
    <3> QED BY <1>1, <2>1, <3>1, <3>2, <3>3 DEF Inv, TypeOK
  <2>5. Bounds' /\ Waiting' BY <1>1, <2>1 DEF Inv, TypeOK, Bounds, Waiting
  <2>6. InPacked'
    <3>1. Timed(npos)' BY <1>1, <2>1, <2>3 DEF Timed, Read
    <3>2. InBatch(nmark)' BY <1>1, <2>1, <2>3 DEF InBatch, InEvent, Midway, Read, Timed
    <3>3. AtBin' BY <1>1, <2>1 DEF AtBin
    <3> QED BY <1>1, <3>1, <3>2, <3>3 DEF InPacked, Ended
  <2>7. InMessage' /\ InForward' /\ PackedLeft'
      BY <1>1, <1>4, <2>1 DEF InMessage, InForward, PackedLeft, Packed
  <2> QED BY <1>2, <2>4, <2>5, <2>6, <2>7 DEF Inv
<1> QED BY <1>1, <1>3, <1>4, Places

LEMMA EntryRecordInv == ASSUME Inv, EntryRecord PROVE Inv'
<1>1. /\ pc = "entryRecord" /\ pc' = "fields" /\ rec' = Tok /\ items' \in {items - 1, items}
      /\ UNCHANGED <<stream, sent, open, timeouts, mode, hasOptions, manual, nested, nmanual,
                     nend, nlimit, evLen, tag, left, isChunk, delivered, acked>>
    BY DEF EntryRecord, Reads, network, options, output
<1>2. OrderedPrefix' /\ AckFollows' BY <1>1, Quiet DEF Inv
<1>3. CASE mode = "forward"
  <2>1. /\ pos \in Nat /\ pos < sent /\ Tok = stream[pos + 1] /\ Tok.typ = "map" /\ manual
        /\ pos' = pos + 1 /\ mark' = mark /\ npos' = npos /\ nmark' = nmark
        /\ Tok \in Token /\ Between(mark)
      BY <1>3, ForwardReads, Accepted DEF EntryRecord
  <2>2. Timed(pos) BY <1>1, <1>3 DEF Inv, InForward
  <2>3. Midway(pos + 1) /\ stream[pos + 1].ev = tag BY <2>1, <2>2, RecordNext DEF Inv
  <2>4. TypeOK' BY <1>1, <2>1, Accepted DEF Inv, TypeOK
  <2>5. Bounds' /\ Waiting' BY <1>1, <2>1 DEF Inv, Bounds, Waiting
  <2>6. InForward'
    <3>1. AtFields(pos)' BY <1>1, <2>1, <2>3 DEF AtFields, Midway
    <3>2. Between(mark)' BY <1>1, <2>1 DEF Between, InEvent, Read
    <3> QED BY <1>1, <2>1, <3>1, <3>2 DEF InForward, Ended
  <2>7. InMessage' /\ InPacked' /\ PackedLeft' BY <1>1, <1>3 DEF InMessage, InPacked, PackedLeft, Packed
  <2> QED BY <1>2, <2>4, <2>5, <2>6, <2>7 DEF Inv
<1>4. CASE mode \in Packed
  <2>1. /\ npos \in Nat /\ npos < sent /\ Tok = stream[npos + 1] /\ Tok.typ = "map" /\ nested
        /\ npos' = npos + 1 /\ nmark' \in {nmark, npos + 1} /\ pos' = pos /\ mark' = mark
        /\ Tok \in Token /\ AtBin /\ InBatch(nmark)
      BY <1>4, PackedReads, Accepted DEF EntryRecord
  <2>2. Timed(npos) BY <1>1, <1>4, <2>1 DEF Inv, InPacked
  <2>3. Midway(npos + 1) /\ stream[npos + 1].ev = tag BY <2>1, <2>2, RecordNext DEF Inv
  <2>4. TypeOK' BY <1>1, <2>1, Accepted DEF Inv, TypeOK
  <2>5. Bounds' /\ Waiting' BY <1>1, <2>1 DEF Inv, TypeOK, Bounds, Waiting
  <2>6. InPacked'
    <3>1. AtFields(npos)' BY <1>1, <2>1, <2>3 DEF AtFields, Midway
    <3>2. InBatch(nmark)' BY <1>1, <2>1, <2>3 DEF InBatch, InEvent, Midway, Read
    <3>3. AtBin' BY <1>1, <2>1 DEF AtBin
    <3> QED BY <1>1, <3>1, <3>2, <3>3 DEF InPacked, Ended
  <2>7. InMessage' /\ InForward' /\ PackedLeft'
      BY <1>1, <1>4, <2>1 DEF InMessage, InForward, PackedLeft, Packed
  <2> QED BY <1>2, <2>4, <2>5, <2>6, <2>7 DEF Inv
<1> QED BY <1>1, <1>3, <1>4, Places

\* The record that the handler gets is the next one.
LEMMA HandedNext ==
    ASSUME Inv, NEW k \in Nat, k < sent, AtFields(k), stream' = stream, acked' = acked,
           delivered' = Append(delivered, [tag |-> tag, ev |-> rec.ev, ent |-> rec.ent])
    PROVE  /\ delivered' \in Seq([tag : Nat, ev : Nat, ent : Nat])
           /\ Number(stream, k + 1) = Len(delivered')
           /\ OrderedPrefix' /\ AckFollows'
<1> DEFINE x == [tag |-> tag, ev |-> rec.ev, ent |-> rec.ent]
           d == Len(delivered)
<1>1. /\ delivered \in Seq([tag : Nat, ev : Nat, ent : Nat]) /\ d \in Nat
      /\ x \in [tag : Nat, ev : Nat, ent : Nat]
    BY DEF Inv, TypeOK, Token
<1>2. delivered' \in Seq([tag : Nat, ev : Nat, ent : Nat]) /\ Len(delivered') = d + 1
      /\ delivered'[d + 1] = x /\ \A i \in 1..d : delivered'[i] = delivered[i]
    BY <1>1
<1>3. k \in Nat \ {0} /\ IsRecord(stream[k]) /\ Number(stream, k) = d + 1
      /\ x = [tag |-> stream[k].ev, ev |-> stream[k].ev, ent |-> stream[k].ent]
    BY DEF AtFields, Midway
<1>4. Number(stream, k + 1) = d + 1 BY FieldsNext DEF Inv
<1> HIDE DEF x
<1>5. Len(stream) \in Nat /\ k <= Len(stream) BY Stream DEF Inv, TypeOK
<1>6. Number(stream, k) <= Number(stream, Len(stream)) BY <1>3, <1>5, CountGrows
<1>7. ASSUME NEW i \in Entries, Number(stream, i) <= d + 1
      PROVE  delivered'[Number(stream, i)] =
                 [tag |-> stream[i].ev, ev |-> stream[i].ev, ent |-> stream[i].ent]
  <2>1. i \in Nat \ {0} /\ IsRecord(stream[i]) BY DEF Entries
  <2>2. Number(stream, 0) < Number(stream, i) /\ Number(stream, 0) = 0 /\ Number(stream, i) \in Nat
    <3>1. 0 \in Nat /\ 0 < i BY <2>1
    <3>2. Number(stream, 0) < Number(stream, i) BY <2>1, <3>1, CountDiffers
    <3>3. Number(stream, 0) = 0 BY CountZero
    <3>4. Number(stream, i) \in Nat BY <2>1, CountIs
    <3> QED BY <3>2, <3>3, <3>4
  <2>3. Number(stream, i) \in 1..(d + 1) BY <1>1, <1>7, <2>2
  <2>4. CASE Number(stream, i) <= d
    <3>1. Number(stream, i) \in 1..d BY <1>1, <2>3, <2>4
    <3>2. delivered[Number(stream, i)] =
              [tag |-> stream[i].ev, ev |-> stream[i].ev, ent |-> stream[i].ent]
        BY <2>4 DEF Inv, OrderedPrefix
    <3> QED BY <1>2, <3>1, <3>2
  <2>5. CASE Number(stream, i) = d + 1
    <3>1. i < k => Number(stream, i) < Number(stream, k) BY <1>3, <2>1, CountDiffers
    <3>2. k < i => Number(stream, k) < Number(stream, i) BY <1>3, <2>1, CountDiffers
    <3>3. i = k BY <1>1, <1>3, <2>1, <2>5, <3>1, <3>2
    <3> QED BY <1>2, <1>3, <2>5, <3>3
  <2> QED BY <1>1, <2>3, <2>4, <2>5
<1>8. OrderedPrefix'
  <2>1. Len(delivered') <= Number(stream', Len(stream')) BY <1>2, <1>3, <1>6
  <2>2. Entries' = Entries BY DEF Entries
  <2> QED BY <1>2, <1>7, <2>1, <2>2 DEF OrderedPrefix
<1>9. AckFollows'
  <2>1. \A i \in Entries : stream[i].ev \in acked => Number(stream, i) <= d BY DEF Inv, AckFollows
  <2>2. \A i \in Entries : i \in Nat /\ Number(stream, i) \in Nat
    <3>1. Entries \subseteq Nat BY <1>5 DEF Entries
    <3> QED BY <3>1, CountIs
  <2>3. Entries' = Entries BY DEF Entries
  <2> QED BY <1>1, <1>2, <2>1, <2>2, <2>3 DEF AckFollows
<1> QED BY <1>2, <1>4, <1>8, <1>9

LEMMA HandlerReadsInv == ASSUME Inv, HandlerReads PROVE Inv'
<1>1. /\ pc = "fields" /\ pc' = "next"
      /\ delivered' = Append(delivered, [tag |-> tag, ev |-> rec.ev, ent |-> rec.ent])
      /\ UNCHANGED <<stream, sent, open, timeouts, mode, items, hasOptions, manual, nested, nmanual,
                     nend, nlimit, evLen, tag, rec, left, isChunk, acked>>
    BY DEF HandlerReads, Reads, network, phase, event, options
<1>2. CASE mode \notin Packed
  <2>1. ~Inner BY <1>2 DEF Inner
  <2>2. /\ pos \in Nat /\ pos < sent
        /\ pos' = pos + 1 /\ mark' = Flushed /\ npos' = npos /\ nmark' = nmark
      BY <2>1, OuterRead DEF Inv, HandlerReads
  <2>3. AtFields(pos) BY <1>1, <1>2, Places DEF Inv, InMessage, InForward
  <2>4. /\ delivered' \in Seq([tag : Nat, ev : Nat, ent : Nat])
        /\ Number(stream, pos + 1) = Len(delivered')
        /\ OrderedPrefix' /\ AckFollows'
      BY <1>1, <2>2, <2>3, HandedNext
  <2>5. stream[pos + 1].typ = "str" /\ stream[pos + 1].ev = tag BY <2>2, <2>3, FieldsNext DEF Inv
  <2>6. TypeOK' BY <1>1, <2>2, <2>4 DEF Inv, TypeOK, Flushed
  <2>7. Bounds' /\ Waiting' BY <1>1, <2>2 DEF Inv, Bounds, Waiting
  <2>8. Read(pos)' /\ Between(pos)' BY <1>1, <2>2, <2>4, <2>5 DEF Read, Between, InEvent
  <2>9. InMessage' BY <1>1, <2>8 DEF InMessage, Ended
  <2>10. InForward' BY <1>1, <2>8 DEF Inv, InForward, Ended
  <2>11. InPacked' /\ PackedLeft' BY <1>1, <1>2 DEF InPacked, PackedLeft
  <2> QED BY <2>4, <2>6, <2>7, <2>9, <2>10, <2>11 DEF Inv
<1>3. CASE mode \in Packed
  <2>1. /\ npos \in Nat /\ npos < sent /\ nested /\ AtBin
        /\ npos' = npos + 1 /\ nmark' \in {nmark, npos + 1} /\ pos' = pos /\ mark' = mark
      BY <1>3, PackedReads DEF HandlerReads
  <2>2. AtFields(npos) BY <1>1, <1>3, <2>1 DEF Inv, InPacked
  <2>3. /\ delivered' \in Seq([tag : Nat, ev : Nat, ent : Nat])
        /\ Number(stream, npos + 1) = Len(delivered')
        /\ OrderedPrefix' /\ AckFollows'
      BY <1>1, <2>1, <2>2, HandedNext
  <2>4. stream[npos + 1].ev = tag BY <2>1, <2>2, FieldsNext DEF Inv
  <2>5. TypeOK' BY <1>1, <2>1, <2>3 DEF Inv, TypeOK
  <2>6. Bounds' /\ Waiting' BY <1>1, <2>1 DEF Inv, TypeOK, Bounds, Waiting
  <2>7. InPacked'
    <3>1. InBatch(npos)' BY <1>1, <2>1, <2>3, <2>4 DEF InBatch, InEvent, Read
    <3>2. AtBin' BY <1>1, <2>1 DEF AtBin
    <3> QED BY <1>1, <3>1, <3>2 DEF InPacked, Ended
  <2>8. InMessage' /\ InForward' /\ PackedLeft'
      BY <1>1, <1>3, <2>1 DEF InMessage, InForward, PackedLeft, Packed
  <2> QED BY <2>3, <2>5, <2>6, <2>7, <2>8 DEF Inv
<1> QED BY <1>2, <1>3

-----------------------------------------------------------------------------
(* Leaving a mode, and its options *)

LEMMA LeaveForwardInv == ASSUME Inv, LeaveForward PROVE Inv'
<1>1. /\ mode = "forward" /\ pc = "next" /\ manual' = TRUE /\ nested' = FALSE /\ pos' = pos /\ mark' = pos
      /\ \/ pc' = "options" /\ mode' = mode
         \/ pc' = "head" /\ mode' = "message"
      /\ UNCHANGED <<stream, sent, open, timeouts, items, hasOptions, npos, nmark, nmanual,
                     nend, nlimit, evLen, tag, rec, left, isChunk, delivered, acked>>
    BY DEF LeaveForward, Leave, network, event, options, output
<1>2. Between(pos) /\ Read(pos) BY <1>1 DEF Inv, InForward, Between, InEvent
<1>3. pos \in Nat \ {0} /\ stream[pos].typ \notin {"ext", "int"}
    BY <1>2 DEF Inv, TypeOK, Between, InEvent
<1>4. NoRecordNext(pos) BY <1>3, BehindOther DEF Inv
<1>5. OrderedPrefix' /\ AckFollows' BY <1>1, Quiet DEF Inv
<1>6. TypeOK'
  <2>1. mode' \in {"message", "forward"} \cup Packed BY <1>1
  <2>2. pc' \in DOMAIN Expected BY <1>1, Accepted
  <2>3. nested' \in BOOLEAN BY <1>1
  <2> QED BY <1>1, <2>1, <2>2, <2>3 DEF Inv, TypeOK
<1>7. Bounds' /\ Waiting' BY <1>1 DEF Inv, Bounds, Waiting
<1>8. Read(pos)' /\ Between(mark)' /\ Read(mark)' BY <1>1, <1>2 DEF Between, InEvent, Read
<1>9. AtOptions' BY <1>1, <1>3, <1>4, <1>8 DEF AtOptions, NoRecordNext
<1>10. InMessage' BY <1>1, <1>8 DEF InMessage, Ended
<1>11. InForward' BY <1>1, <1>8, <1>9 DEF InForward, Ended
<1>12. InPacked' /\ PackedLeft' BY <1>1 DEF InPacked, PackedLeft, Packed
<1> QED BY <1>5, <1>6, <1>7, <1>10, <1>11, <1>12 DEF Inv

\* At the end of a bin the handler has all its entries.
LEMMA BinRead ==
    ASSUME Inv, AtBin, InBatch(npos), npos = nend
    PROVE  npos > 0 /\ Read(npos) /\ NoRecordNext(npos) /\ AllHanded
<1>1. /\ pos \in 1..Len(stream) /\ npos \in 1..Len(stream) /\ npos = pos + stream[pos].n
      /\ stream[pos].typ = "bin" /\ stream[pos].ev = tag
  <2>1. pos \in 1..Len(stream) BY Stream DEF Inv, TypeOK, AtBin
  <2>2. stream[pos] \in Token BY <2>1, Stream DEF Inv
  <2>3. stream[pos].n \in Nat BY <2>2 DEF Token
  <2> QED BY <2>1, <2>3, Stream DEF Inv, TypeOK, Bounds, AtBin
<1>2. /\ npos \in 1..Len(stream) => ~IsRecord(stream[npos])
      /\ npos + 1 \in 1..Len(stream) => ~IsRecord(stream[npos + 1])
      /\ \A j \in 1..Len(stream) : IsRecord(stream[j]) /\ j > npos => stream[j].ev > tag
    BY <1>1, Stream DEF Inv, Marked
<1>3. Read(npos) BY <1>1, <1>2 DEF InBatch, InEvent, Midway
<1>4. NoRecordNext(npos) BY <1>1, <1>2, Stream DEF Inv, NoRecordNext
<1>5. ASSUME NEW i \in Entries, stream[i].ev <= tag PROVE Number(stream, i) <= Len(delivered)
  <2>1. i \in 1..Len(stream) /\ IsRecord(stream[i]) BY DEF Entries
  <2>2. stream[i] \in Token BY <2>1, Stream DEF Inv
  <2>3. stream[i].ev \in Nat /\ tag \in Nat BY <2>2 DEF Inv, TypeOK, Token
  <2>4. ~(stream[i].ev > tag) BY <1>5, <2>3
  <2>5. ~(i > npos) BY <1>2, <2>1, <2>4
  <2>6. i \in Nat /\ npos \in Nat /\ i <= npos BY <1>1, <2>1, <2>5
  <2>7. Number(stream, i) <= Number(stream, npos) BY <2>6, CountGrows
  <2> QED BY <1>3, <2>7 DEF Read
<1> QED BY <1>1, <1>3, <1>4, <1>5 DEF AllHanded

LEMMA LeavePackedInv == ASSUME Inv, LeavePacked PROVE Inv'
<1>1. /\ mode \in Packed /\ pc = "entry" /\ manual' = TRUE /\ nested' = FALSE
      /\ pos' = npos /\ mark' = npos
      /\ \/ hasOptions /\ pc' = "options" /\ mode' = mode
         \/ pc' = "head" /\ mode' = "message"
      /\ UNCHANGED <<stream, sent, open, timeouts, items, hasOptions, npos, nmark, nmanual,
                     nend, nlimit, evLen, tag, rec, left, isChunk, delivered, acked>>
      /\ npos = nend \/ (npos = sent /\ ~open)
    BY DEF LeavePacked, Leave, BatchEnd, CutBatch, Packed, network, event, options, output
<1>2. nested BY <1>1, Places DEF Packed
<1>3. AtBin /\ InBatch(npos) BY <1>1, <1>2 DEF Inv, InPacked
<1>4. \/ npos > 0 /\ Read(npos) /\ NoRecordNext(npos) /\ AllHanded
      \/ npos = sent /\ ~open
    BY <1>1, <1>3, BinRead
<1>5. Read(npos) \/ Midway(npos) BY <1>3 DEF InBatch, InEvent
<1>6. OrderedPrefix' /\ AckFollows' BY <1>1, Quiet DEF Inv
<1>7. TypeOK'
  <2>1. mode' \in {"message", "forward"} \cup Packed BY <1>1
  <2>2. pc' \in DOMAIN Expected BY <1>1, Accepted
  <2>3. nested' \in BOOLEAN BY <1>1
  <2>4. pos' \in 0..sent /\ mark' \in 0..pos' BY <1>1 DEF Inv, TypeOK, Bounds
  <2> QED BY <1>1, <2>1, <2>2, <2>3, <2>4 DEF Inv, TypeOK
<1>8. Bounds' /\ Waiting' BY <1>1 DEF Inv, Bounds, Waiting
<1>9. InMessage'
  <2>1. CASE mode' = "message"
    <3>1. pc' = "head" BY <1>1, <2>1 DEF Packed
    <3>2. Read(pos)' \/ Midway(pos)' BY <1>1, <1>5 DEF Read, Midway
    <3>3. Read(mark)' \/ (mark' = pos' /\ Midway(pos)') BY <1>1, <1>5 DEF Read, Midway
    <3> QED BY <3>1, <3>2, <3>3 DEF InMessage, Ended
  <2>2. CASE mode' # "message" BY <2>2 DEF InMessage
  <2> QED BY <2>1, <2>2
<1>10. InForward' /\ InPacked' BY <1>1 DEF InForward, InPacked, Packed
<1>11. PackedLeft'
  <2>1. CASE pc' = "options" /\ hasOptions
    <3>1. CASE npos > 0 /\ Read(npos) /\ NoRecordNext(npos) /\ AllHanded
      <4>1. AtOptions' BY <1>1, <3>1 DEF AtOptions, Read, NoRecordNext
      <4>2. AllHanded' BY <1>1, <3>1 DEF AllHanded, Entries
      <4> QED BY <1>1, <2>1, <4>1, <4>2 DEF PackedLeft
    <3>2. CASE npos = sent /\ ~open
      <4>1. Cut' BY <1>1, <3>2 DEF Cut
      <4> QED BY <1>1, <2>1, <4>1 DEF PackedLeft
    <3> QED BY <1>4, <3>1, <3>2
  <2>2. CASE mode' = "message" BY <2>2 DEF PackedLeft, Packed
  <2> QED BY <1>1, <2>1, <2>2
<1> QED BY <1>6, <1>7, <1>8, <1>9, <1>10, <1>11 DEF Inv

\* Having read the head of the options, or a value, the session reads the next key
\* or the next event.
LEMMA OptionsNext ==
    ASSUME Inv, mode # "message", pc \in {"options", "value"}, pos < sent, Read(pos + 1),
           pos' = pos + 1, left' \in Nat, isChunk' = isChunk,
           OptionsDone \/ (pc' = "key" /\ mark' = Flushed /\ mode' = mode),
           UNCHANGED <<network, items, hasOptions, manual, inner, event, delivered>>,
           acked' \subseteq Nat \cup {NoChunk}
    PROVE  /\ TypeOK' /\ Bounds' /\ Waiting'
           /\ InMessage' /\ InForward' /\ InPacked' /\ PackedLeft'
<1> USE DEF network, inner, event
<1>1. mode = "forward" \/ (mode \in Packed /\ ~nested) BY Places
<1>2. \/ pc' = "head" /\ mark' = pos + 1 /\ mode' = "message"
      \/ pc' = "key" /\ mark' = Flushed /\ mode' = mode
    BY DEF OptionsDone
<1>3. TypeOK'
  <2>1. mode' \in {"message", "forward"} \cup Packed BY <1>2 DEF Inv, TypeOK
  <2>2. pc' \in DOMAIN Expected BY <1>2, Accepted
  <2>3. pos' \in 0..sent /\ mark' \in 0..pos' BY <1>2 DEF Inv, TypeOK, Flushed
  <2> QED BY <2>1, <2>2, <2>3 DEF Inv, TypeOK
<1>4. Bounds' /\ Waiting' BY <1>2 DEF Inv, Bounds, Waiting
<1>5. Read(pos)' BY DEF Read
<1>6. CASE pc' = "head" /\ mark' = pos + 1 /\ mode' = "message"
  <2>1. Read(mark)' BY <1>6 DEF Read
  <2>2. InMessage' BY <1>5, <1>6, <2>1 DEF InMessage, Ended
  <2>3. InForward' /\ InPacked' /\ PackedLeft' BY <1>6 DEF InForward, InPacked, PackedLeft, Packed
  <2> QED BY <1>3, <1>4, <2>2, <2>3
<1>7. CASE pc' = "key" /\ mark' = Flushed /\ mode' = mode
  <2>1. InMessage' BY <1>7 DEF InMessage
  <2>2. InPacked' BY <1>1, <1>7 DEF InPacked, Packed
  <2>3. InForward'
    <3>1. CASE mode = "forward"
      <4>1. manual /\ Between(mark) BY <3>1 DEF Inv, InForward, Ended
      <4>2. mark' = mark BY <1>7, <4>1 DEF Flushed
      <4>3. Between(mark)' BY <4>1, <4>2 DEF Between, InEvent, Read
      <4> QED BY <1>5, <1>7, <4>1, <4>3 DEF InForward, Ended
    <3>2. CASE mode # "forward" BY <1>7, <3>2 DEF InForward
    <3> QED BY <3>1, <3>2
  <2>4. PackedLeft'
    <3>1. CASE mode \in Packed /\ ~nested
      <4>1. hasOptions /\ (AllHanded \/ Cut) BY <3>1 DEF Inv, PackedLeft
      <4>2. ~Cut BY DEF Inv, TypeOK, Cut
      <4>3. AllHanded' BY <4>1, <4>2 DEF AllHanded, Entries
      <4> QED BY <1>5, <1>7, <4>1, <4>3 DEF PackedLeft
    <3>2. CASE ~(mode \in Packed /\ ~nested) BY <1>7, <3>2 DEF PackedLeft
    <3> QED BY <3>1, <3>2
  <2> QED BY <1>3, <1>4, <2>1, <2>2, <2>3, <2>4
<1> QED BY <1>2, <1>6, <1>7

LEMMA OptionsHeadInv == ASSUME Inv, OptionsHead PROVE Inv'
<1>1. /\ pc = "options" /\ pos < sent /\ pos' = pos + 1 /\ left' = Tok.n /\ Tok.typ = "map"
      /\ OptionsDone \/ (pc' = "key" /\ mark' = Flushed /\ mode' = mode)
      /\ UNCHANGED <<network, items, hasOptions, manual, inner, event, delivered>>
      /\ isChunk' = isChunk /\ acked' = acked /\ stream' = stream
    BY DEF OptionsHead, network, output
<1>2. pos \in Nat /\ Tok = stream[pos + 1] BY <1>1 DEF Inv, TypeOK, Tok, Here, Inner
<1>3. mode # "message"
  <2>1. ASSUME mode = "message" PROVE Midway(pos) BY <1>1, <2>1 DEF Inv, InMessage, AtFields
  <2> QED BY <1>1, <1>2, <2>1, KeyNext DEF Inv
<1>4. AtOptions
  <2>1. ~Cut BY <1>1 DEF Inv, TypeOK, Cut
  <2> QED BY <1>1, <1>3, <2>1, Places DEF Inv, InForward, PackedLeft
<1>5. Read(pos + 1) BY <1>1, <1>2, <1>4, ReadNoRecord DEF Inv, AtOptions
<1>6. left' \in Nat BY <1>1, <1>2, TokenIs DEF Inv
<1>7. acked' \subseteq Nat \cup {NoChunk} BY <1>1 DEF Inv, TypeOK
<1>8. /\ TypeOK' /\ Bounds' /\ Waiting'
      /\ InMessage' /\ InForward' /\ InPacked' /\ PackedLeft'
    BY <1>1, <1>3, <1>5, <1>6, <1>7, OptionsNext
<1>9. OrderedPrefix' /\ AckFollows' BY <1>1, Quiet DEF Inv
<1> QED BY <1>8, <1>9 DEF Inv

LEMMA OptionsKeyInv == ASSUME Inv, OptionsKey PROVE Inv'
<1>1. ~Inner /\ pc = "key" BY DEF OptionsKey, Reads, Inner
<1>2. /\ pos \in Nat /\ pos < sent /\ Tok = stream[pos + 1] /\ Tok.typ = "str"
      /\ pos' = pos + 1 /\ mark' = Flushed /\ npos' = npos /\ nmark' = nmark
    BY <1>1, OuterRead, Accepted DEF Inv, OptionsKey
<1>3. /\ pc' = "value" /\ isChunk' = (Tok.key = "chunk")
      /\ UNCHANGED <<stream, sent, open, timeouts, mode, items, hasOptions, manual, nested, nmanual,
                     nend, nlimit, evLen, tag, rec, left, delivered, acked>>
    BY DEF OptionsKey, network, phase, event, output
<1>4. mode = "forward" \/ (mode \in Packed /\ ~nested) BY <1>1, Places
<1>5. Read(pos) BY <1>1, <1>4 DEF Inv, InForward, PackedLeft
<1>6. Read(pos + 1) BY <1>2, <1>5, ReadOther DEF Inv
<1>7. OrderedPrefix' /\ AckFollows' BY <1>3, Quiet DEF Inv
<1>8. TypeOK'
  <2>1. isChunk' \in BOOLEAN BY <1>3
  <2>2. pc' \in DOMAIN Expected BY <1>3, Accepted
  <2>3. pos' \in 0..sent /\ mark' \in 0..pos' BY <1>2 DEF Inv, TypeOK, Flushed
  <2> QED BY <1>2, <1>3, <2>1, <2>2, <2>3 DEF Inv, TypeOK
<1>9. Bounds' /\ Waiting' BY <1>2, <1>3 DEF Inv, Bounds, Waiting
<1>10. AtValue'
  <2>1. Read(pos)' BY <1>2, <1>3, <1>6 DEF Read
  <2>2. isChunk' => stream[pos + 1].key = "chunk" BY <1>2, <1>3
  <2>3. isChunk' => stream'[pos'].key = "chunk" BY <1>2, <1>3, <2>2
  <2>4. pos' > 0 /\ stream'[pos'].typ = "str" BY <1>2, <1>3
  <2> QED BY <2>1, <2>3, <2>4 DEF AtValue
<1>11. InMessage' /\ InPacked' BY <1>3, <1>4 DEF InMessage, InPacked, Packed
<1>12. InForward'
  <2>1. CASE mode = "forward"
    <3>1. manual /\ Between(mark) BY <1>1, <2>1 DEF Inv, InForward, Ended
    <3>2. mark' = mark BY <1>2, <3>1 DEF Flushed
    <3>3. Between(mark)' BY <1>3, <3>1, <3>2 DEF Between, InEvent, Read
    <3> QED BY <1>3, <1>10, <3>1, <3>3 DEF InForward, Ended
  <2>2. CASE mode # "forward" BY <1>3, <2>2 DEF InForward
  <2> QED BY <2>1, <2>2
<1>13. PackedLeft'
  <2>1. CASE mode \in Packed /\ ~nested
    <3>1. hasOptions /\ AllHanded BY <1>1, <2>1 DEF Inv, PackedLeft, Ended
    <3>2. AllHanded' BY <1>3, <3>1 DEF AllHanded, Entries
    <3> QED BY <1>3, <1>10, <3>1, <3>2 DEF PackedLeft
  <2>2. CASE ~(mode \in Packed /\ ~nested) BY <1>3, <2>2 DEF PackedLeft
  <2> QED BY <2>1, <2>2
<1> QED BY <1>7, <1>8, <1>9, <1>11, <1>12, <1>13 DEF Inv

\* When the chunk is acknowledged, the handler has all entries of its event.
LEMMA OptionsValueInv == ASSUME Inv, OptionsValue PROVE Inv'
<1>1. /\ pc = "value" /\ pos < sent /\ pos' = pos + 1 /\ left' = left - 1 /\ left \in Nat \ {0}
      /\ acked' = IF isChunk THEN acked \cup {Tok.ev} ELSE acked
      /\ OptionsDone \/ (pc' = "key" /\ mark' = Flushed /\ mode' = mode)
      /\ UNCHANGED <<network, items, hasOptions, manual, inner, event, delivered>>
      /\ isChunk' = isChunk /\ stream' = stream
    BY DEF Inv, TypeOK, OptionsValue, network, output
<1>2. pos \in Nat /\ Tok = stream[pos + 1] BY <1>1 DEF Inv, TypeOK, Tok, Here, Inner
<1>3. mode = "forward" \/ (mode \in Packed /\ ~nested) BY <1>1, Places
<1>4. AtValue /\ mode # "message" BY <1>1, <1>3 DEF Inv, InForward, PackedLeft, Packed
<1>5. pos \in Nat \ {0} /\ Read(pos) /\ stream[pos].typ = "str" BY <1>2, <1>4 DEF AtValue
<1>6. NoRecordNext(pos) BY <1>5, BehindOther DEF Inv
<1>7. Read(pos + 1) BY <1>1, <1>5, <1>6, ReadNoRecord DEF Inv
<1>8. pos + 1 \in 1..Len(stream) /\ Tok.ev \in Nat BY <1>1, <1>2, TokenIs DEF Inv
<1>9. left' \in Nat /\ acked' \subseteq Nat \cup {NoChunk}
  <2>1. left' \in Nat BY <1>1
  <2>2. acked \subseteq Nat \cup {NoChunk} /\ Tok.ev \in Nat BY <1>8 DEF Inv, TypeOK
  <2> QED BY <1>1, <2>1, <2>2
<1>10. /\ TypeOK' /\ Bounds' /\ Waiting'
       /\ InMessage' /\ InForward' /\ InPacked' /\ PackedLeft'
    BY <1>1, <1>4, <1>7, <1>9, OptionsNext
<1>11. OrderedPrefix' BY <1>1 DEF Inv, OrderedPrefix, Entries
<1>12. ASSUME NEW i \in Entries, isChunk, stream[i].ev = Tok.ev
       PROVE  Number(stream, i) <= Len(delivered)
  <2>1. pos \in 1..Len(stream) /\ pos < Len(stream) /\ stream[pos].key = "chunk"
      BY <1>4, <1>5, <1>8, <1>12, Stream DEF Inv, AtValue
  <2>2. i \in 1..Len(stream) /\ IsRecord(stream[i]) BY DEF Entries
  <2>3. ~(i > pos) BY <1>2, <1>12, <2>1, <2>2, Stream DEF Inv, Marked
  <2>4. i \in Nat /\ i <= pos BY <1>5, <2>2, <2>3
  <2>5. Number(stream, i) <= Number(stream, pos) BY <1>5, <2>4, CountGrows
  <2> QED BY <1>5, <2>5 DEF Read
<1>13. AckFollows'
  <2>1. Entries' = Entries /\ delivered' = delivered BY <1>1 DEF Entries
  <2>2. ASSUME NEW i \in Entries, stream[i].ev \in acked' PROVE Number(stream, i) <= Len(delivered)
    <3>1. stream[i].ev \in acked \/ (isChunk /\ stream[i].ev = Tok.ev) BY <1>1, <2>2
    <3> QED BY <1>12, <3>1 DEF Inv, AckFollows
  <2> QED BY <1>1, <2>1, <2>2 DEF AckFollows
<1> QED BY <1>10, <1>11, <1>13 DEF Inv

-----------------------------------------------------------------------------
(* Timeouts, and the client *)

LEMMA ReadTimeoutInv == ASSUME Inv, ReadTimeout PROVE Inv'
<1>1. /\ timeouts /\ pc \in DOMAIN Expected /\ pc' = "timeout" /\ nlimit' \in {npos, nlimit}
      /\ open \/ Inner
      /\ UNCHANGED <<stream, sent, open, timeouts, mode, items, hasOptions, pos, mark, manual, nested,
                     npos, nmark, nmanual, nend, evLen, tag, rec, left, isChunk, delivered, acked>>
    BY DEF ReadTimeout, network, phase, iter, event, options, output
<1>2. pc \notin {"next"} \cup Ended BY <1>1, Accepted DEF Ended
<1>3. OrderedPrefix' /\ AckFollows' BY <1>1, Quiet DEF Inv
<1>4. TypeOK' BY <1>1 DEF Inv, TypeOK
<1>5. Bounds' /\ Waiting' BY <1>1 DEF Inv, Bounds, Waiting
<1>6. InMessage'
  <2>1. ASSUME mode = "message" PROVE Read(mark) \/ (mark = pos /\ Midway(pos))
      BY <1>2, <2>1 DEF Inv, InMessage
  <2> QED BY <1>1, <2>1 DEF InMessage, Ended, Read, Midway
<1>7. InForward'
  <2>1. ASSUME mode = "forward" PROVE manual /\ Between(mark) BY <1>2, <2>1 DEF Inv, InForward
  <2> QED BY <1>1, <2>1 DEF InForward, Ended, Between, InEvent, Read
<1>8. InPacked'
  <2>1. ASSUME mode \in Packed, nested PROVE AtBin /\ InBatch(nmark) BY <1>2, <2>1 DEF Inv, InPacked
  <2> QED BY <1>1, <2>1 DEF InPacked, Ended, AtBin, InBatch, InEvent, Midway, Read
<1>9. PackedLeft'
  <2>1. ASSUME mode \in Packed, ~nested PROVE hasOptions /\ AllHanded
    <3>1. pc \in {"options", "key", "value"} BY <1>1, <1>2, <2>1, Accepted DEF Inv, PackedLeft
    <3>2. ~Cut BY <1>1, <3>1 DEF Inner, Cut
    <3> QED BY <2>1, <3>2 DEF Inv, PackedLeft
  <2> QED BY <1>1, <2>1 DEF PackedLeft, Ended, AllHanded, Entries
<1> QED BY <1>3, <1>4, <1>5, <1>6, <1>7, <1>8, <1>9 DEF Inv

LEMMA ShortValueInv == ASSUME Inv, ShortValue PROVE Inv'
<1>1. /\ pc \in {"tag", "second", "time", "key", "value"} /\ (timeouts \/ ~open)
      /\ acked' \in {acked, acked \cup {NoChunk}}
      /\ pc' = "lost" \/ (pc = "value" /\ open /\ pc' = "timeout")
      /\ UNCHANGED <<stream, sent, open, timeouts, mode, items, hasOptions, pos, mark, manual, nested,
                     npos, nmark, nmanual, nend, nlimit, evLen, tag, rec, left, isChunk, delivered>>
    BY DEF ShortValue, network, phase, iter, inner, event, options
<1>2. OrderedPrefix' BY <1>1 DEF Inv, OrderedPrefix, Entries
<1>3. AckFollows'
  <2>1. Entries' = Entries BY <1>1 DEF Entries
  <2>2. ASSUME NEW i \in Entries, stream[i].ev \in acked' PROVE Number(stream, i) <= Len(delivered)
    <3>1. i \in 1..Len(stream) BY DEF Entries
    <3>2. stream[i].ev \in Nat BY <3>1, Stream DEF Inv, Token
    <3>3. stream[i].ev # NoChunk BY <3>2 DEF NoChunk
    <3>4. stream[i].ev \in acked BY <1>1, <2>2, <3>3
    <3> QED BY <3>4 DEF Inv, AckFollows
  <2> QED BY <1>1, <2>1, <2>2 DEF AckFollows
<1>4. TypeOK'
  <2>1. acked' \subseteq Nat \cup {NoChunk} BY <1>1 DEF Inv, TypeOK
  <2> QED BY <1>1, <2>1 DEF Inv, TypeOK
<1>5. Bounds' /\ Waiting' BY <1>1 DEF Inv, Bounds, Waiting
<1>6. CASE pc' = "lost"
  <2>1. InMessage' /\ InForward' BY <1>1, <1>6 DEF Inv, InMessage, InForward, Ended
  <2>2. InPacked' BY <1>1, <1>6 DEF Inv, InPacked, Ended, AtBin
  <2>3. PackedLeft'
    <3>1. ASSUME mode \in Packed, ~nested PROVE hasOptions /\ (AllHanded \/ Cut)
        BY <3>1 DEF Inv, PackedLeft
    <3>2. AllHanded' = AllHanded /\ Cut' = Cut BY <1>1 DEF AllHanded, Entries, Cut
    <3> QED BY <1>1, <1>6, <3>1, <3>2 DEF PackedLeft, Ended
  <2> QED BY <1>2, <1>3, <1>4, <1>5, <2>1, <2>2, <2>3 DEF Inv
<1>7. CASE pc = "value" /\ open /\ pc' = "timeout"
  <2>1. mode = "forward" \/ (mode \in Packed /\ ~nested) BY <1>7, Places
  <2>2. InMessage' /\ InPacked' BY <1>1, <2>1 DEF InMessage, InPacked, Packed
  <2>3. InForward'
    <3>1. ASSUME mode = "forward" PROVE manual /\ Between(mark)
        BY <1>7, <3>1 DEF Inv, InForward, Ended
    <3> QED BY <1>1, <1>7, <3>1 DEF InForward, Ended, Between, InEvent, Read
  <2>4. PackedLeft'
    <3>1. ASSUME mode \in Packed, ~nested PROVE hasOptions /\ AllHanded
        BY <1>7, <3>1 DEF Inv, PackedLeft, Ended
    <3> QED BY <1>1, <1>7, <3>1 DEF PackedLeft, Ended, AllHanded, Entries
  <2> QED BY <1>2, <1>3, <1>4, <1>5, <2>2, <2>3, <2>4 DEF Inv
<1> QED BY <1>1, <1>6, <1>7

LEMMA HandlerRewindsInv == ASSUME Inv, HandlerRewinds PROVE Inv'
<1>1. /\ pc = "timeout"
      /\ UNCHANGED <<stream, sent, open, timeouts, mode, items, hasOptions, mark, manual, nested,
                     nmark, nmanual, nend, nlimit, evLen, tag, rec, left, isChunk, delivered, acked>>
    BY DEF HandlerRewinds, network, phase, event, options, output
<1>2. OrderedPrefix' /\ AckFollows' BY <1>1, Quiet DEF Inv
<1>3. CASE mode \notin Packed /\ pos' = mark /\ npos' = npos /\ pc' \in {"next", "lost"}
  <2>1. TypeOK' BY <1>1, <1>3 DEF Inv, TypeOK
  <2>2. Bounds' /\ Waiting' BY <1>1, <1>3 DEF Inv, Bounds, Waiting
  <2>3. InMessage'
    <3>1. ASSUME mode = "message" PROVE Read(mark) \/ Midway(mark)
        BY <1>1, <3>1 DEF Inv, InMessage, Ended, Midway
    <3> QED BY <1>1, <1>3, <3>1 DEF InMessage, Ended, Read, Midway
  <2>4. InForward'
    <3>1. ASSUME mode = "forward" PROVE manual /\ Between(mark)
        BY <1>1, <3>1 DEF Inv, InForward, Ended
    <3> QED BY <1>1, <1>3, <3>1 DEF InForward, Ended, Between, InEvent, Read
  <2>5. InPacked' /\ PackedLeft' BY <1>1, <1>3 DEF InPacked, PackedLeft
  <2> QED BY <1>2, <2>1, <2>2, <2>3, <2>4, <2>5 DEF Inv
<1>4. CASE mode \in Packed /\ nested /\ npos' = nmark /\ pos' = pos /\ pc' \in {"next", "lost"}
  <2>1. TypeOK' BY <1>1, <1>4 DEF Inv, TypeOK
  <2>2. Bounds' /\ Waiting' BY <1>1, <1>4 DEF Inv, TypeOK, Bounds, Waiting
  <2>3. AtBin /\ InBatch(nmark) BY <1>1, <1>4 DEF Inv, InPacked, Ended
  <2>4. InPacked' BY <1>1, <1>4, <2>3 DEF InPacked, Ended, AtBin, InBatch, InEvent, Midway, Read
  <2>5. InMessage' /\ InForward' /\ PackedLeft'
      BY <1>1, <1>4 DEF InMessage, InForward, PackedLeft, Packed
  <2> QED BY <1>2, <2>1, <2>2, <2>4, <2>5 DEF Inv
<1>5. CASE mode \in Packed /\ ~nested /\ pos' = pos /\ npos' = npos /\ pc' = "panic"
  <2>1. TypeOK' BY <1>1, <1>5 DEF Inv, TypeOK
  <2>2. Bounds' /\ Waiting' BY <1>1, <1>5 DEF Inv, Bounds, Waiting
  <2>3. hasOptions /\ AllHanded BY <1>1, <1>5 DEF Inv, PackedLeft, Ended
  <2>4. AllHanded' BY <1>1, <2>3 DEF AllHanded, Entries
  <2>5. PackedLeft' BY <1>1, <1>5, <2>3, <2>4 DEF PackedLeft
  <2>6. InMessage' /\ InForward' /\ InPacked'
      BY <1>1, <1>5 DEF InMessage, InForward, InPacked, Packed
  <2> QED BY <1>2, <2>1, <2>2, <2>5, <2>6 DEF Inv
<1> QED BY <1>3, <1>4, <1>5 DEF HandlerRewinds, Rewound

LEMMA ClientSendsInv == ASSUME Inv, ClientSends PROVE Inv'
<1>1. /\ open /\ sent < Len(stream) /\ sent' = sent + 1
      /\ UNCHANGED <<stream, open, timeouts, mode, items, hasOptions, pos, mark, manual, nested, npos,
                     nmark, nmanual, nend, nlimit, pc, evLen, tag, rec, left, isChunk, delivered, acked>>
    BY DEF ClientSends, phase, iter, inner, event, options, output
<1>2. OrderedPrefix' /\ AckFollows' BY <1>1, Quiet DEF Inv
<1>3. TypeOK' BY <1>1, Stream DEF Inv, TypeOK
<1>4. Bounds' /\ Waiting' BY <1>1, Stream DEF Inv, TypeOK, Bounds, Waiting
<1>5. InMessage' BY <1>1 DEF Inv, InMessage, Read, Midway, AtBin, Timed, AtFields
<1>6. InForward'
    BY <1>1 DEF Inv, InForward, Read, Midway, Between, InEvent, Timed, AtFields, AtOptions, AtValue,
                NoRecordNext
<1>7. InPacked' BY <1>1 DEF Inv, InPacked, Read, Midway, AtBin, InBatch, InEvent, Timed, AtFields
<1>8. PackedLeft'
    BY <1>1 DEF Inv, PackedLeft, Read, AtOptions, AtValue, NoRecordNext, AllHanded, Entries, Cut
<1> QED BY <1>2, <1>3, <1>4, <1>5, <1>6, <1>7, <1>8 DEF Inv

LEMMA ClientClosesInv == ASSUME Inv, ClientCloses PROVE Inv'
<1>1. /\ open /\ open' = FALSE
      /\ UNCHANGED <<stream, sent, timeouts, mode, items, hasOptions, pos, mark, manual, nested, npos,
                     nmark, nmanual, nend, nlimit, pc, evLen, tag, rec, left, isChunk, delivered, acked>>
    BY DEF ClientCloses, phase, iter, inner, event, options, output
<1>2. OrderedPrefix' /\ AckFollows' BY <1>1, Quiet DEF Inv
<1>3. TypeOK'
  <2>1. open' \in BOOLEAN BY <1>1
  <2> QED BY <1>1, <2>1 DEF Inv, TypeOK
<1>4. Bounds' /\ Waiting' BY <1>1 DEF Inv, Bounds, Waiting
<1>5. InMessage' BY <1>1 DEF Inv, InMessage, Read, Midway, AtBin, Timed, AtFields
<1>6. InForward'
    BY <1>1 DEF Inv, InForward, Read, Midway, Between, InEvent, Timed, AtFields, AtOptions, AtValue,
                NoRecordNext
<1>7. InPacked' BY <1>1 DEF Inv, InPacked, Read, Midway, AtBin, InBatch, InEvent, Timed, AtFields
<1>8. PackedLeft'
    BY <1>1 DEF Inv, PackedLeft, Read, AtOptions, AtValue, NoRecordNext, AllHanded, Entries, Cut
<1> QED BY <1>2, <1>3, <1>4, <1>5, <1>6, <1>7, <1>8 DEF Inv

LEMMA StutterInv == ASSUME Inv, UNCHANGED vars PROVE Inv'
<1> USE DEF vars, network, phase, iter, inner, event, options, output
<1>1. OrderedPrefix' /\ AckFollows' BY Quiet DEF Inv
<1>2. TypeOK' /\ Bounds' /\ Waiting' BY DEF Inv, TypeOK, Bounds, Waiting
<1>3. InMessage' BY DEF Inv, InMessage, Read, Midway, AtBin, Timed, AtFields
<1>4. InForward'
    BY DEF Inv, InForward, Read, Midway, Between, InEvent, Timed, AtFields, AtOptions, AtValue,
           NoRecordNext
<1>5. InPacked' BY DEF Inv, InPacked, Read, Midway, AtBin, InBatch, InEvent, Timed, AtFields
<1>6. PackedLeft'
    BY DEF Inv, PackedLeft, Read, AtOptions, AtValue, NoRecordNext, AllHanded, Entries, Cut
<1> QED BY <1>1, <1>2, <1>3, <1>4, <1>5, <1>6 DEF Inv

-----------------------------------------------------------------------------
(* The theorems *)

LEMMA InitInv == Init => Inv
<1> SUFFICES ASSUME Init PROVE Inv OBVIOUS
<1>1. stream \in Seq(Token) /\ Len(stream) \in Nat BY TransportAssumption DEF Init
<1>2. NoToken \in Token BY DEF NoToken, Token, Types, Keys
<1>3. TypeOK
  <2>1. /\ open \in BOOLEAN /\ hasOptions \in BOOLEAN /\ manual \in BOOLEAN /\ nested \in BOOLEAN
        /\ nmanual \in BOOLEAN /\ isChunk \in BOOLEAN
      BY DEF Init, PooledFlush
  <2>2. delivered \in Seq([tag : Nat, ev : Nat, ent : Nat]) /\ acked \subseteq Nat \cup {NoChunk} BY DEF Init
  <2>3. /\ sent \in 0..Len(stream) /\ items \in Int /\ pos \in 0..sent /\ mark \in 0..pos
        /\ npos \in Nat /\ nmark \in Nat /\ nend \in Nat /\ nlimit \in Nat
        /\ evLen \in Nat /\ tag \in Nat /\ left \in Nat
      BY <1>1 DEF Init
  <2>4. /\ stream \in Streams /\ timeouts \in Timeouts /\ rec \in Token
        /\ mode \in {"message", "forward"} \cup Packed
        /\ pc \in DOMAIN Expected \cup {"next", "timeout", "invalid", "ended", "lost", "panic"}
      BY <1>2 DEF Init
  <2> QED BY <2>1, <2>2, <2>3, <2>4 DEF TypeOK
<1>4. Bounds /\ Waiting BY DEF Init, Bounds, Waiting
<1>5. Read(pos) BY CountZero DEF Init, Read
<1>6. InMessage /\ InForward /\ InPacked /\ PackedLeft
    BY <1>5 DEF Init, InMessage, InForward, InPacked, PackedLeft, Packed, Ended
<1>7. OrderedPrefix
  <2>1. Number(stream, Len(stream)) \in Nat BY <1>1, CountIs
  <2>2. \A i \in Entries : Number(stream, 0) < Number(stream, i)
    <3>1. \A i \in Entries : i \in Nat \ {0} /\ 0 < i /\ IsRecord(stream[i]) BY <1>1 DEF Entries
    <3> QED BY <3>1, CountDiffers
  <2>3. Number(stream, 0) = 0 BY CountZero
  <2>4. \A i \in Entries : ~(Number(stream, i) <= 0)
    <3>1. \A i \in Entries : i \in Nat BY <1>1 DEF Entries
    <3>2. \A i \in Entries : Number(stream, i) \in Nat BY <3>1, CountIs
    <3> QED BY <2>2, <2>3, <3>2
  <2> QED BY <2>1, <2>4 DEF Init, OrderedPrefix
<1>8. AckFollows BY DEF Init, AckFollows
<1> QED BY <1>3, <1>4, <1>6, <1>7, <1>8 DEF Inv

LEMMA NextInv == Inv /\ [Next]_vars => Inv'
<1> SUFFICES ASSUME Inv, [Next]_vars PROVE Inv' OBVIOUS
<1>1. CASE UNCHANGED vars BY <1>1, StutterInv
<1>2. CASE ReadInvalid \/ ReadEOF \/ HandlerQuits \/ AckFails
    BY <1>2, EndsInv DEF ReadInvalid, ReadEOF, HandlerQuits, AckFails
<1>3. CASE NextMessage \/ MessageHead \/ MessageTag \/ MessageTime \/ MessageBin \/ MessageRecord
    BY <1>3, NextMessageInv, MessageHeadInv, MessageTagInv, MessageTimeInv, MessageBinInv,
       MessageRecordInv
<1>4. CASE EnterForward \/ EnterPacked \/ EnterFails
    BY <1>4, EnterForwardInv, EnterPackedInv, EnterFailsInv
<1>5. CASE NextForward \/ NextPacked \/ EntryHead \/ EntryTime \/ EntryRecord
    BY <1>5, NextForwardInv, NextPackedInv, EntryHeadInv, EntryTimeInv, EntryRecordInv
<1>6. CASE LeaveForward \/ LeavePacked BY <1>6, LeaveForwardInv, LeavePackedInv
<1>7. CASE OptionsHead \/ OptionsKey \/ OptionsValue
    BY <1>7, OptionsHeadInv, OptionsKeyInv, OptionsValueInv
<1>8. CASE HandlerReads \/ HandlerRewinds \/ ReadTimeout \/ ShortValue
    BY <1>8, HandlerReadsInv, HandlerRewindsInv, ReadTimeoutInv, ShortValueInv
<1>9. CASE ClientSends \/ ClientCloses BY <1>9, ClientSendsInv, ClientClosesInv
<1> QED BY <1>1, <1>2, <1>3, <1>4, <1>5, <1>6, <1>7, <1>8, <1>9 DEF Next, SessionStep

LEMMA Invariance == Spec => []Inv
BY InitInv, NextInv, PTL DEF Spec

\* Every variable has its type; in particular no iterator gets beyond what has
\* arrived, wherever the nested one was when the batch ended.
THEOREM TypeCorrect == Spec => []TypeOK
<1>1. Inv => TypeOK BY DEF Inv
<1> QED BY <1>1, Invariance, PTL

\* The handler gets the entries of a stream of any length in order, each once and
\* with its tag, whatever times out and however the iterators from the pool flush.
THEOREM EntriesInOrder == Spec => []OrderedPrefix
<1>1. Inv => OrderedPrefix BY DEF Inv
<1> QED BY <1>1, Invariance, PTL

\* No chunk is acknowledged before the handler has read all entries of its event.
THEOREM AcksFollowEntries == Spec => []AckFollows
<1>1. Inv => AckFollows BY DEF Inv
<1> QED BY <1>1, Invariance, PTL

\* A session dereferences nil only while it waits for the options behind a packed
\* batch, and the handler then has all entries up to these options.
THEOREM PanicsBehindEntries == Spec => []PanicKeepsEntries
<1>1. ASSUME Inv, pc = "panic" PROVE mode \in Packed /\ ~nested
    BY <1>1 DEF Inv, TypeOK, InMessage, InForward, InPacked, Ended
<1>2. Inv => PanicKeepsEntries
    BY <1>1 DEF Inv, Waiting, PackedLeft, AllHanded, Ended, PanicKeepsEntries
<1> QED BY <1>2, Invariance, PTL

=============================================================================
