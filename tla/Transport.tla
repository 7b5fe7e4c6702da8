----------------------------- MODULE Transport ------------------------------
(***************************************************************************)
(* The transport phase of a server session (forward/transport): Next, which *)
(* hands the entries of a stream to the session's handler one at a time,   *)
(* in four modes, the acknowledgement of chunks, and Rewind after a read   *)
(* has timed out.                                                          *)
(*                                                                         *)
(* The stream is a sequence of MessagePack tokens that arrive one by one.  *)
(* The content of a `bin` stands in the stream behind its token, and is    *)
(* read through the nested iterator of the packed modes.                   *)
(***************************************************************************)
EXTENDS Integers, Sequences, FiniteSets

CONSTANTS
    Streams,        \* the token sequences a client may send
    Timeouts        \* whether reads may time out: a subset of BOOLEAN

Types == {"array", "str", "ext", "map", "bin", "int", "nil"}
Keys == {"none", "chunk", "size", "gzip"}

\* A token: its type; its items, or the length of its value; the event and the
\* entry it belongs to; and what the value says ("gzip" marks a gzip stream).
Token == [typ : Types, n : Nat, ev : Nat, ent : Nat, key : Keys]

\* The records of the entries are the maps that are no options.
IsRecord(t) == t.typ = "map" /\ t.ent > 0

\* What the marks of the tokens mean, and what clients keep to, however they end
\* their events otherwise: a record comes behind a time and begins with a key; an
\* event begins with an array and its tag, or with what no event begins with; a
\* bin ends between two entries and has all of its event; and a chunk stands
\* behind the entries of its event.
Marked(s) ==
    \A i \in 1..Len(s) :
        /\ s[i].typ = "map" => (s[i].ent > 0 <=> i > 1 /\ s[i - 1].typ \in {"ext", "int"})
        /\ IsRecord(s[i]) /\ i < Len(s) => s[i + 1].typ = "str"
        /\ i > 1 /\ s[i].ev # s[i - 1].ev =>
              \/ s[i].typ = "nil"
              \/ s[i].typ = "array" /\ (i < Len(s) => s[i + 1].typ = "str")
        /\ s[i].typ = "bin" =>
              /\ i + s[i].n \in 1..Len(s) => ~IsRecord(s[i + s[i].n])
              /\ i + s[i].n + 1 \in 1..Len(s) => ~IsRecord(s[i + s[i].n + 1])
              /\ \A j \in 1..Len(s) : IsRecord(s[j]) /\ j > i + s[i].n => s[j].ev > s[i].ev
        /\ s[i].key = "chunk" /\ i < Len(s) =>
              \A j \in 1..Len(s) : IsRecord(s[j]) /\ j > i => s[j].ev # s[i + 1].ev

ASSUME TransportAssumption ==
    /\ Streams \subseteq Seq(Token)
    /\ \A s \in Streams : Marked(s)
    /\ Timeouts \subseteq BOOLEAN

VARIABLES
    stream, sent, open,     \* the connection: what the client sends, how much of it
                            \* has arrived, and whether the client keeps it open
    timeouts,               \* ReadTimeout is set
    mode, items, hasOptions,    \* the current mode, its entries left, options behind them
    pos, mark, manual,      \* the session's iterator: read up to, flushed up to, manual flush
    nested,                 \* the packed modes' own iterator is there
    npos, nmark, nmanual,   \* ... read up to, flushed up to, manual flush
    nend, nlimit,           \* ... end of the bin, and how far it can still be read
    pc,                     \* what is read next, or how the session ended
    evLen, tag, rec,        \* items of the event, the entry's tag, the record or bin
    left, isChunk,          \* options: keys left, the key was "chunk"
    delivered, acked        \* entries the handler has read, chunks acknowledged by their
                            \* events (NoChunk: an empty string was)

network == <<stream, sent, open, timeouts>>
phase == <<mode, items, hasOptions>>
iter == <<pos, mark, manual>>
inner == <<nested, npos, nmark, nmanual, nend, nlimit>>
event == <<evLen, tag, rec>>
options == <<left, isChunk>>
output == <<delivered, acked>>
vars == <<network, phase, iter, inner, pc, event, options, output>>

Packed == {"packed", "compressed"}
NoChunk == -1
NoToken == [typ |-> "nil", n |-> 0, ev |-> 0, ent |-> 0, key |-> "none"]
minTagLen == 1
maxTagLen == 64

-----------------------------------------------------------------------------
(* Init *)

\* IterPool.Get: a new iterator is flushed by hand.  One that was used before has
\* been reset, but nothing sets how it is flushed: a session that ended in a
\* packed batch has left its iterator flushing by itself.
PooledFlush == {TRUE, FALSE}

Init ==
    /\ stream \in Streams /\ sent = 0 /\ open = TRUE
    /\ timeouts \in Timeouts
    /\ mode = "message" /\ items = 0 /\ hasOptions = FALSE
    /\ pos = 0 /\ mark = 0 /\ manual \in PooledFlush
    /\ nested = FALSE /\ npos = 0 /\ nmark = 0 /\ nmanual = TRUE /\ nend = 0 /\ nlimit = 0
    /\ pc = "next"
    /\ evLen = 0 /\ tag = 0 /\ rec = NoToken
    /\ left = 0 /\ isChunk = FALSE
    /\ delivered = <<>> /\ acked = {}

-----------------------------------------------------------------------------
(* Reading a token *)

\* The types each place accepts.
Expected == [
    head |-> {"array"}, tag |-> {"str"}, second |-> {"ext", "int", "array", "bin"},
    peek |-> Types, record |-> {"map"},
    entry |-> {"array"}, time |-> {"ext", "int"}, entryRecord |-> {"map"}, fields |-> Types,
    options |-> {"map"}, key |-> {"str"}, value |-> Types ]

\* Entries and their records come from the nested iterator in the packed modes.
Inner == mode \in Packed /\ pc \in {"entry", "time", "entryRecord", "fields"}

Here == IF Inner THEN npos ELSE pos
Limit == IF Inner /\ nlimit < sent THEN nlimit ELSE sent
Tok == stream[Here + 1]

Flushed == IF manual THEN mark ELSE pos + 1

Advance ==
    IF Inner
        THEN /\ npos' = npos + 1 /\ nmark' = (IF nmanual THEN nmark ELSE npos + 1)
             /\ UNCHANGED <<pos, mark>>
        ELSE /\ pos' = pos + 1 /\ mark' = Flushed
             /\ UNCHANGED <<npos, nmark>>

\* The next token has arrived and is one that place l accepts.
Reads(l) ==
    /\ pc = l
    /\ Here < Limit
    /\ Tok.typ \in Expected[l]
    /\ Advance

\* Any other token ends the session.
ReadInvalid ==
    /\ pc \in DOMAIN Expected
    /\ Here < Limit
    /\ Tok.typ \notin Expected[pc]
    /\ pc' = "invalid"
    /\ UNCHANGED <<network, phase, iter, inner, event, options, output>>

BatchEnd == mode \in Packed /\ pc = "entry" /\ npos = nend

\* The plain packed mode takes the end of the connection for that of the batch.
CutBatch == mode = "packed" /\ pc = "entry" /\ npos < nend

ReadEOF ==
    /\ pc \in DOMAIN Expected
    /\ Here = sent /\ ~open
    /\ Inner => npos < nlimit
    /\ ~BatchEnd /\ ~CutBatch
    /\ pc' = "ended"
    /\ UNCHANGED <<network, phase, iter, inner, event, options, output>>

\* An inflater does not go on after an error.
ReadTimeout ==
    /\ timeouts
    /\ pc \in DOMAIN Expected
    /\ Here = Limit
    /\ open \/ (Inner /\ npos = nlimit)
    /\ ~BatchEnd
    /\ nlimit' = IF Inner /\ mode = "compressed" THEN npos ELSE nlimit
    /\ pc' = "timeout"
    /\ UNCHANGED <<network, phase, iter, nested, npos, nmark, nmanual, nend, event, options, output>>

\* A value is cut in its bytes, after its head has been read.  The error of Str, Time and
\* Skip is ignored: instead of its chunk an empty one is acknowledged, and what is
\* read next begins inside of the value, where the bytes can be anything.  Without any
\* byte of it the next read times out too, unless the options end here.
ShortValue ==
    /\ pc \in {"tag", "second", "time", "key", "value"}
    /\ Here = Limit /\ Here < Len(stream)
    /\ Tok.typ \in Expected[pc] \cap {"str", "ext", "int"}
    /\ timeouts \/ ~open
    /\ acked' = IF pc = "value" /\ isChunk THEN acked \cup {NoChunk} ELSE acked
    /\ \/ pc' = "lost"
       \/ pc = "value" /\ left > 1 /\ open /\ pc' = "timeout"
    /\ UNCHANGED <<network, phase, iter, inner, event, options, delivered>>

-----------------------------------------------------------------------------
(* MessageMode *)

NextMessage ==
    /\ pc = "next"
    /\ mode = "message"
    /\ mark' = pos
    /\ pc' = "head"
    /\ UNCHANGED <<network, phase, pos, manual, inner, event, options, output>>

MessageHead ==
    /\ Reads("head")
    /\ evLen' = Tok.n
    /\ pc' = IF Tok.n \in 2..4 THEN "tag" ELSE "invalid"
    /\ UNCHANGED <<network, phase, manual, nested, nmanual, nend, nlimit, tag, rec, options, output>>

MessageTag ==
    /\ Reads("tag")
    /\ tag' = Tok.ev
    /\ pc' = IF Tok.n \in minTagLen..maxTagLen THEN "second" ELSE "invalid"
    /\ UNCHANGED <<network, phase, manual, nested, nmanual, nend, nlimit, evLen, rec, options, output>>

\* The type of the second item decides the mode.
MessageTime ==
    /\ Reads("second")
    /\ Tok.typ \in {"ext", "int"}
    /\ pc' = "record"
    /\ UNCHANGED <<network, phase, manual, nested, nmanual, nend, nlimit, event, options, output>>

EnterForward ==
    /\ Reads("second")
    /\ Tok.typ = "array"
    /\ mode' = "forward" /\ items' = Tok.n /\ hasOptions' = (evLen = 3)
    /\ manual' = TRUE
    /\ pc' = "next"
    /\ UNCHANGED <<network, nested, nmanual, nend, nlimit, event, options, output>>

\* isGzip peeks into the bin: an empty one looks like the end of the stream.
MessageBin ==
    /\ Reads("second")
    /\ Tok.typ = "bin"
    /\ rec' = Tok
    /\ nend' = pos + 1 + Tok.n
    /\ pc' = IF Tok.n = 0 THEN "ended" ELSE "peek"
    /\ UNCHANGED <<network, phase, manual, nested, nmanual, nlimit, evLen, tag, options, output>>

EnterPacked ==
    /\ pc = "peek"
    /\ pos < sent
    /\ mode' = IF rec.key = "gzip" THEN "compressed" ELSE "packed"
    /\ hasOptions' = (evLen = 3)
    /\ manual' = FALSE /\ mark' = pos
    /\ nested' = TRUE /\ npos' = pos /\ nmark' = pos /\ nlimit' = nend /\ nmanual' \in PooledFlush
    /\ pc' = "next"
    /\ UNCHANGED <<network, items, pos, nend, event, options, output>>

\* The gzip header does not arrive in time.  The mode is not changed, but what has
\* been read is flushed: if the handler repeats Next, that begins inside the bin,
\* where the bytes can be anything.
EnterFails ==
    /\ timeouts
    /\ pc = "peek" /\ rec.key = "gzip"
    /\ pos = sent /\ open
    /\ manual' = FALSE /\ mark' = pos
    /\ pc' = "lost"
    /\ UNCHANGED <<network, phase, pos, inner, event, options, output>>

\* With four items the options are read next, before the handler has read the
\* fields of the record.
MessageRecord ==
    /\ Reads("record")
    /\ rec' = Tok
    /\ pc' = IF evLen = 4 THEN "options" ELSE "fields"
    /\ UNCHANGED <<network, phase, manual, nested, nmanual, nend, nlimit, evLen, tag, options, output>>

-----------------------------------------------------------------------------
(* ForwardMode, PackedForwardMode, CompressedPackedForwardMode *)

\* Mutant: the iterator is not flushed, so that Rewind goes back too far.
MutNextForward ==
    /\ pc = "next"
    /\ mode = "forward" /\ items > 0
    /\ pc' = "entry"
    /\ UNCHANGED <<network, phase, iter, inner, event, options, output>>

NextForward ==
    /\ pc = "next"
    /\ mode = "forward" /\ items > 0
    /\ mark' = pos
    /\ pc' = "entry"
    /\ UNCHANGED <<network, phase, pos, manual, inner, event, options, output>>

\* Without a nested iterator this is a nil dereference.
NextPacked ==
    /\ pc = "next"
    /\ mode \in Packed
    /\ \/ nested /\ nmark' = npos /\ pc' = "entry"
       \/ ~nested /\ UNCHANGED nmark /\ pc' = "panic"
    /\ UNCHANGED <<network, phase, iter, nested, npos, nmanual, nend, nlimit, event, options, output>>

EntryHead ==
    /\ Reads("entry")
    /\ pc' = IF Tok.n = 2 THEN "time" ELSE "invalid"
    /\ UNCHANGED <<network, phase, manual, nested, nmanual, nend, nlimit, event, options, output>>

EntryTime ==
    /\ Reads("time")
    /\ pc' = "entryRecord"
    /\ UNCHANGED <<network, phase, manual, nested, nmanual, nend, nlimit, event, options, output>>

EntryRecord ==
    /\ Reads("entryRecord")
    /\ rec' = Tok
    /\ items' = IF mode = "forward" THEN items - 1 ELSE items
    /\ pc' = "fields"
    /\ UNCHANGED <<network, mode, hasOptions, manual, nested, nmanual, nend, nlimit, evLen, tag,
                   options, output>>

\* Mutant: without options the mode is not changed.
MutLeave(at) ==
    /\ manual' = TRUE
    /\ nested' = FALSE
    /\ pos' = at /\ mark' = at
    /\ pc' = IF hasOptions THEN "options" ELSE "head"
    /\ UNCHANGED <<network, phase, npos, nmark, nmanual, nend, nlimit, event, options, output>>

\* messageMode.Enter: the mode is left, which reads its options; only then is
\* the mode changed.  The iterator of a packed mode is gone before.
Leave(at) ==
    /\ manual' = TRUE
    /\ nested' = FALSE
    /\ pos' = at /\ mark' = at
    /\ \/ hasOptions /\ pc' = "options" /\ UNCHANGED mode
       \/ ~hasOptions /\ pc' = "head" /\ mode' = "message"
    /\ UNCHANGED <<network, items, hasOptions, npos, nmark, nmanual, nend, nlimit, event, options, output>>

LeaveForward ==
    /\ pc = "next"
    /\ mode = "forward" /\ items <= 0
    /\ Leave(pos)

\* Mutant: every error of the nested iterator ends the batch, and the rest of it
\* is skipped.
MutLeavePacked ==
    /\ BatchEnd \/ (mode \in Packed /\ pc = "entry" /\ npos = Limit /\ (timeouts \/ ~open))
    /\ Leave(nend)

LeavePacked ==
    /\ BatchEnd \/ (CutBatch /\ npos = sent /\ ~open)
    /\ Leave(npos)

-----------------------------------------------------------------------------
(* handleOptions *)

\* The options are read: the entry of MessageMode is handed out; any other mode
\* has been left, and the next event is read.
OptionsDone ==
    \/ mode = "message" /\ pc' = "fields" /\ mark' = Flushed /\ UNCHANGED mode
    \/ mode # "message" /\ pc' = "head" /\ mark' = pos + 1 /\ mode' = "message"

OptionsHead ==
    /\ pc = "options"
    /\ pos < sent /\ Tok.typ = "map"
    /\ pos' = pos + 1
    /\ left' = Tok.n
    /\ \/ Tok.n = 0 /\ OptionsDone
       \/ Tok.n > 0 /\ pc' = "key" /\ mark' = Flushed /\ UNCHANGED mode
    /\ UNCHANGED <<network, items, hasOptions, manual, inner, event, isChunk, output>>

OptionsKey ==
    /\ Reads("key")
    /\ isChunk' = (Tok.key = "chunk")
    /\ pc' = "value"
    /\ UNCHANGED <<network, phase, manual, nested, nmanual, nend, nlimit, event, left, output>>

\* Mutant: nothing is read behind the chunk.
MutOptionsValue ==
    /\ pc = "value"
    /\ pos < sent
    /\ pos' = pos + 1
    /\ left' = left - 1
    /\ acked' = IF isChunk THEN acked \cup {Tok.ev} ELSE acked
    /\ \/ (isChunk \/ left = 1) /\ OptionsDone
       \/ ~isChunk /\ left > 1 /\ pc' = "key" /\ mark' = Flushed /\ UNCHANGED mode
    /\ UNCHANGED <<network, items, hasOptions, manual, inner, event, isChunk, delivered>>

\* The value of "chunk" is acknowledged, any other one skipped.
OptionsValue ==
    /\ pc = "value"
    /\ pos < sent
    /\ pos' = pos + 1
    /\ left' = left - 1
    /\ acked' = IF isChunk THEN acked \cup {Tok.ev} ELSE acked
    /\ \/ left = 1 /\ OptionsDone
       \/ left > 1 /\ pc' = "key" /\ mark' = Flushed /\ UNCHANGED mode
    /\ UNCHANGED <<network, items, hasOptions, manual, inner, event, isChunk, delivered>>

AckFails ==
    /\ pc = "value"
    /\ pos < sent
    /\ isChunk /\ ~open
    /\ pc' = "ended"
    /\ UNCHANGED <<network, phase, iter, inner, event, options, output>>

-----------------------------------------------------------------------------
(* The handler, and the client *)

\* It reads the whole record and calls Next again.
HandlerReads ==
    /\ Reads("fields")
    /\ delivered' = Append(delivered, [tag |-> tag, ev |-> rec.ev, ent |-> rec.ent])
    /\ pc' = "next"
    /\ UNCHANGED <<network, phase, manual, nested, nmanual, nend, nlimit, event, options, acked>>

\* After a timeout it calls Rewind, and Next once more.  An iterator that flushes by
\* itself has nothing to go back to: Next begins where the read stopped, and if
\* that was inside a token, the bytes can be anything.
Rewound(byHand) == IF byHand THEN {"next"} ELSE {"next", "lost"}

HandlerRewinds ==
    /\ pc = "timeout"
    /\ \/ mode \notin Packed /\ pos' = mark /\ UNCHANGED npos /\ pc' \in Rewound(manual)
       \/ mode \in Packed /\ nested /\ npos' = nmark /\ UNCHANGED pos /\ pc' \in Rewound(nmanual)
       \/ mode \in Packed /\ ~nested /\ UNCHANGED <<pos, npos>> /\ pc' = "panic"
    /\ UNCHANGED <<network, phase, mark, manual, nested, nmark, nmanual, nend, nlimit, event, options,
                   output>>

\* It may also give up.
HandlerQuits ==
    /\ pc = "timeout"
    /\ pc' = "ended"
    /\ UNCHANGED <<network, phase, iter, inner, event, options, output>>

ClientSends ==
    /\ open
    /\ sent < Len(stream)
    /\ sent' = sent + 1
    /\ UNCHANGED <<stream, open, timeouts, phase, iter, inner, pc, event, options, output>>

ClientCloses ==
    /\ open
    /\ open' = FALSE
    /\ UNCHANGED <<stream, sent, timeouts, phase, iter, inner, pc, event, options, output>>

SessionStep ==
    \/ ReadInvalid \/ ReadEOF \/ ReadTimeout \/ ShortValue
    \/ NextMessage \/ MessageHead \/ MessageTag \/ MessageTime \/ MessageBin \/ MessageRecord
    \/ EnterForward \/ EnterPacked \/ EnterFails
    \/ NextForward \/ NextPacked \/ EntryHead \/ EntryTime \/ EntryRecord
    \/ LeaveForward \/ LeavePacked
    \/ OptionsHead \/ OptionsKey \/ OptionsValue \/ AckFails
    \/ HandlerReads \/ HandlerRewinds \/ HandlerQuits

Next == SessionStep \/ ClientSends \/ ClientCloses

Spec == Init /\ [][Next]_vars

\* The session's goroutine runs, and the client sends all it has.
FairSpec == Spec /\ WF_vars(SessionStep) /\ WF_vars(ClientSends)

-----------------------------------------------------------------------------
(* Properties *)

\* Every variable has its type; in particular the iterator is never rewound or
\* moved beyond what has arrived.
TypeOK ==
    /\ stream \in Streams /\ sent \in 0..Len(stream)
    /\ open \in BOOLEAN /\ timeouts \in Timeouts
    /\ mode \in {"message", "forward"} \cup Packed
    /\ items \in Int /\ hasOptions \in BOOLEAN
    /\ pos \in 0..sent /\ mark \in 0..pos /\ manual \in BOOLEAN
    /\ nested \in BOOLEAN
    /\ npos \in Nat /\ nmark \in Nat /\ nmanual \in BOOLEAN /\ nend \in Nat /\ nlimit \in Nat
    /\ pc \in DOMAIN Expected \cup {"next", "timeout", "invalid", "ended", "lost", "panic"}
    /\ evLen \in Nat /\ tag \in Nat /\ rec \in Token
    /\ left \in Nat /\ isChunk \in BOOLEAN
    /\ delivered \in Seq([tag : Nat, ev : Nat, ent : Nat]) /\ acked \subseteq Nat \cup {NoChunk}

\* Where the entries of the stream are, and how many there are up to i.
Entries == {i \in 1..Len(stream) : IsRecord(stream[i])}
Number(s, i) == Cardinality({j \in 1..i : IsRecord(s[j])})

\* The handler gets the entries of the stream in their order, each once and with
\* the tag of its event, whatever modes alternate and wherever reads time out
\* and are repeated after Rewind: what it has read is a prefix of the stream.
OrderedPrefix ==
    /\ Len(delivered) <= Number(stream, Len(stream))
    /\ \A i \in Entries :
          Number(stream, i) <= Len(delivered) =>
              delivered[Number(stream, i)] =
                  [tag |-> stream[i].ev, ev |-> stream[i].ev, ent |-> stream[i].ent]

\* A chunk is acknowledged only after the handler has read all its entries, so a
\* client that drops acknowledged chunks loses nothing.
AckFollows ==
    \A i \in Entries : stream[i].ev \in acked => Number(stream, i) <= Len(delivered)

\* A session dereferences nil only if the options behind a packed batch do not
\* arrive in time.  By then the handler has all entries of the batch.
PanicKeepsEntries ==
    pc = "panic" =>
        /\ timeouts /\ hasOptions /\ mode \in Packed
        /\ \A i \in Entries : stream[i].ev <= tag => Number(stream, i) <= Len(delivered)

Chunks == {stream[i].ev : i \in {j \in 2..Len(stream) : stream[j - 1].key = "chunk"}}

\* Streams without what this server does not understand: options in MessageMode,
\* empty bins, and values that are no arrays.
Supported ==
    \A i \in 1..Len(stream) :
        /\ stream[i].typ # "nil"
        /\ stream[i].typ = "bin" => stream[i].n > 0
        /\ stream[i].typ = "array" => stream[i].n # 4

\* If no read times out and the client does not hang up, all entries of such a
\* stream are delivered and all its chunks acknowledged.  On other streams
\* (MessageMode with options, empty bins) the session acknowledges a chunk or ends:
\* a client waits for the acknowledgement as long as the connection stays, so no
\* session may keep silent.
Completes ==
    /\ Supported /\ ~timeouts ~> (Len(delivered) = Number(stream, Len(stream)) /\ acked = Chunks) \/ ~open
    /\ ~timeouts ~> Chunks \subseteq acked \/ pc \in {"invalid", "ended"} \/ ~open

=============================================================================
