---------------------------- MODULE MCTransport -----------------------------
(* Small streams for Transport. *)
EXTENDS Transport

T(typ, n, ev, ent, key) == [typ |-> typ, n |-> n, ev |-> ev, ent |-> ent, key |-> key]

Record(ev, ent) == <<T("map", 1, ev, ent, "none"), T("str", 1, ev, ent, "none")>>
Entry(ev, ent) == <<T("array", 2, ev, ent, "none"), T("ext", 8, ev, ent, "none")>> \o Record(ev, ent)

\* The options of an event: none, an empty map, or the chunk and the size.
Opt(ev, o) ==
    CASE o = "none" -> <<>>
      [] o = "empty" -> <<T("map", 0, ev, 0, "none")>>
      [] o = "chunk" -> <<T("map", 2, ev, 0, "none"),
                          T("str", 5, ev, 0, "chunk"), T("str", 24, ev, 0, "none"),
                          T("str", 4, ev, 0, "size"), T("int", 1, ev, 0, "none")>>

Items(o, n) == IF o = "none" THEN n ELSE n + 1

Message(ev, o) ==
    <<T("array", Items(o, 3), ev, 0, "none"), T("str", 3, ev, 0, "none"), T("ext", 8, ev, 0, "none")>>
    \o Record(ev, 1) \o Opt(ev, o)

Batch(ev, n) == IF n = 0 THEN <<>> ELSE IF n = 1 THEN Entry(ev, 1) ELSE Entry(ev, 1) \o Entry(ev, 2)

Forward(ev, n, o) ==
    <<T("array", Items(o, 2), ev, 0, "none"), T("str", 3, ev, 0, "none"), T("array", n, ev, 0, "none")>>
    \o Batch(ev, n) \o Opt(ev, o)

PackedForward(ev, n, key, o) ==
    <<T("array", Items(o, 2), ev, 0, "none"), T("str", 3, ev, 0, "none"),
      T("bin", Len(Batch(ev, n)), ev, 0, key)>>
    \o Batch(ev, n) \o Opt(ev, o)

\* An event in each mode, empty and of two entries, with and without a chunk ...
First ==
    {Message(1, o) : o \in {"none", "chunk"}}
    \cup {Forward(1, n, o) : n \in {0, 2}, o \in {"none", "chunk"}}
    \cup {PackedForward(1, 2, key, o) : key \in {"none", "gzip"}, o \in {"none", "chunk"}}
    \cup {PackedForward(1, 0, "none", "chunk")}

\* ... followed by one of one entry, or by a heartbeat, a badly formed event, an
\* oversized tag, empty options, a badly formed entry.
Second == {
    Message(2, "none"), Forward(2, 1, "chunk"),
    PackedForward(2, 1, "none", "chunk"), PackedForward(2, 1, "gzip", "chunk"),
    <<T("nil", 0, 2, 0, "none")>>,
    <<T("array", 5, 2, 0, "none")>>,
    <<T("array", 2, 2, 0, "none"), T("str", 65, 2, 0, "none")>>,
    Forward(2, 1, "empty"),
    <<T("array", 2, 2, 0, "none"), T("str", 3, 2, 0, "none"), T("array", 1, 2, 0, "none"),
      T("array", 3, 2, 0, "none")>> }

MCStreams == {a \o b : a \in First, b \in Second}

-----------------------------------------------------------------------------
(* The reader of the compressed mode, on streams of up to two members: with all
   combinations of optional parts, empty and of several blocks, complete, cut
   anywhere, and with something else behind them *)

G == INSTANCE Gzip

Data == {<<<<>>>>, <<<<1>>>>, <<<<1, 2>>, <<3>>>>, <<<<1>>, <<>>>>}
Bytes(data) == IF Len(data) = 1 THEN data[1] ELSE data[1] \o data[2]

Ones == {[s |-> G!Member(f, n, d), d |-> Bytes(d)] : f \in SUBSET G!Flag, n \in {0, 2}, d \in Data}
Others == {[s |-> G!Member(f, 1, d), d |-> Bytes(d)] : f \in {{}, {"flagExtra", "flagName"}}, d \in Data}

\* Reading gives the data of all members and ends behind the last one; of a stream
\* that is cut it gives a part of them, and ends well only where a member does.
ASSUME GzipReads ==
    \A a \in Ones, b \in Others, together \in BOOLEAN :
        LET both == G!ReadAll(a.s \o b.s, together)
            Cut(k) == G!ReadAll(SubSeq(a.s \o b.s, 1, k), together) IN
        /\ both.out = a.d \o b.d /\ both.ended
        /\ \A k \in 0..(Len(a.s) + Len(b.s) - 1) :
              /\ Cut(k).out = SubSeq(a.d \o b.d, 1, Len(Cut(k).out))
              /\ Cut(k).ended = (k = Len(a.s))
              /\ k >= Len(a.s) => Len(Cut(k).out) >= Len(a.d)

\* What is no member ends the stream with an error.
ASSUME GzipStops ==
    \A a \in Ones, together \in BOOLEAN :
        LET r == G!ReadAll(a.s \o G!Repeat(12), together) IN r.out = a.d /\ ~r.ended

=============================================================================
