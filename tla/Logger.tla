------------------------------- MODULE Logger -------------------------------
(***************************************************************************)
(* Loggers and their fields: logger.go, slog.go, the append_*.go files and *)
(* the part of instance.go that acquires and releases loggers and builds   *)
(* records.  Loggers and the buffers of their fields come from pools that  *)
(* all goroutines share, as do the buffers in which records are built.     *)
(*                                                                         *)
(* The fields of a logger, and those of a record, are a sequence of pieces *)
(* of key/value pairs.  Counts of pairs are bytes, as in the code.         *)
(***************************************************************************)
EXTENDS FiniteSets, Functions, Printf

CONSTANTS
    Proc,                   \* goroutines that use loggers
    Log, Buf,               \* loggers and buffers
    NoBuf,
    Messages,               \* what is logged: records of a format (<<>> if the method takes
                            \* none), arguments, and a severity
    FieldArguments,         \* arguments of With
    SlogRecords,            \* slog records: attributes and a level
    StackTraceThreshold,
    QueueSize,              \* capacity of the instance's queue
    MaxPieces               \* bound on the pieces a logger collects

\* What is passed to the log methods and to With, and in slog records.
CallArgument == [kind : {"string", "value", "appender"}, id : STRING, n : Nat]
SlogAttr == [kind : {"known", "unknown"}, id : STRING, n : Nat]

\* Arguments as README.md says they must be: keys, which are strings, and values
\* in turn.  (Without keys, or with an odd one, it promises nothing.)
Paired(args) ==
    /\ Len(args) % 2 = 0
    /\ \A i \in 1..Len(args) : IF i % 2 = 1 THEN args[i].kind = "string" /\ args[i].id # ""
                                            ELSE args[i].n > 0

ASSUME LoggerAssumption ==
    /\ NoBuf \notin Buf
    /\ Log \cap Proc = {} /\ {"pool", "queue"} \cap (Log \cup Proc) = {}
    /\ QueueSize \in Nat \ {0} /\ MaxPieces \in Nat
    /\ StackTraceThreshold \in Nat
    /\ \A m \in Messages : m.format \in Seq(FormatDirective) /\ m.args \in Seq(CallArgument)
    /\ \A args \in FieldArguments : args \in Seq(CallArgument) /\ Paired(args)
    /\ \A rec \in SlogRecords : rec.attrs \in Seq(SlogAttr)

VARIABLES
    fieldData, fieldCount,  \* the loggers
    logPool, bufPool,       \* the free loggers and buffers
    content,                \* of the buffers: pieces, and the count in the map's header
    held,                   \* loggers the application has
    handlers,               \* those of them that slog handlers have, never released
    pc, job,                \* the goroutines' calls
    queue, closed,          \* records handed to the worker; the instance is closed
    given, dropped,         \* the pieces each logger was promised (history): dropped are
                            \* those that With without arguments or WithGroup left out
    expect                  \* the pieces the record in a buffer should have (history)

promised == <<given, dropped>>
loggers == <<fieldData, fieldCount, logPool, held, handlers, promised>>
calls == <<pc, job>>
vars == <<loggers, bufPool, content, calls, queue, closed, expect>>

\* Mutant: counts are wider than the byte of the header.
MutByte(n) == n

Byte(n) == n % 256

-----------------------------------------------------------------------------
(* appendArgs, appendKeyValue, appendSlogAttr, appendStackTrace *)

\* Arguments: strings, other values, and values that implement KeyValueAppender
\* and append n pairs themselves.  An attribute's value is of a kind that
\* AppendAny knows, or not.
String(id) == [kind |-> "string", id |-> id, n |-> 1]
Value(id) == [kind |-> "value", id |-> id, n |-> 1]
Appender(id, n) == [kind |-> "appender", id |-> id, n |-> n]
Attr(id, known) == [kind |-> IF known THEN "known" ELSE "unknown", id |-> id, n |-> 1]

Piece(key, id, keys, values) == [key |-> key, id |-> id, keys |-> keys, values |-> values]
Pair(key, id) == Piece(key, id, 1, 1)

\* Mutant: the value is forgotten.
MutappendKeyValue(key, a) ==
    [out |-> IF a.n = 0 THEN <<>> ELSE <<Piece(key, a.id, a.n, 0)>>, n |-> a.n]

\* What is appended, and the count that is returned.
appendKeyValue(key, a) ==
    IF a.kind = "appender"
       THEN [out |-> IF a.n = 0 THEN <<>> ELSE <<Piece(key, a.id, a.n, a.n)>>, n |-> a.n]
       ELSE [out |-> <<Pair(key, a.id)>>, n |-> 1]

\* A string where a key is due is the key of the next argument; anything else
\* there has the key "".  An empty string is skipped, and a last key dropped.
appendArgs(args) ==
    LET step[i \in 0..Len(args)] ==
          IF i = 0 THEN [key |-> "", out |-> <<>>, n |-> 0]
          ELSE LET s == step[i - 1] IN
               IF s.key = "" /\ args[i].kind = "string"
                  THEN [s EXCEPT !.key = args[i].id]
                  ELSE LET kv == appendKeyValue(s.key, args[i]) IN
                       [key |-> "", out |-> s.out \o kv.out, n |-> Byte(s.n + kv.n)]
    IN step[Len(args)]

\* Nothing is appended for a value of an unknown kind, only its key.
appendSlogAttrs(attrs) ==
    [out |-> [i \in 1..Len(attrs) |->
                 Piece(attrs[i].id, attrs[i].id, 1, IF attrs[i].kind = "known" THEN 1 ELSE 0)],
     n |-> Byte(Len(attrs))]

StackTrace(sev) ==
    IF sev <= StackTraceThreshold THEN <<Pair("stackTrace", "frames")>> ELSE <<>>

\* @id, pri and message.
Base == <<Piece("base", "base", 3, 3)>>

\* The fields that arguments in pairs and attributes stand for.
Entry(key, a) ==
    LET pairs == IF a.kind = "appender" THEN a.n ELSE 1 IN Piece(key, a.id, pairs, pairs)
Fields(args) == [i \in 1..(Len(args) \div 2) |-> Entry(args[2 * i - 1].id, args[2 * i])]
Attributes(attrs) == [i \in 1..Len(attrs) |-> Pair(attrs[i].id, attrs[i].id)]

-----------------------------------------------------------------------------
(* NewInstance, and the pools *)

Empty == [map |-> 0, pieces |-> <<>>]
NoJob == [logger |-> {}, new |-> {}, buf |-> NoBuf, data |-> NoBuf, count |-> 0,
          tail |-> <<>>, n |-> 0, fields |-> <<>>, format |-> <<>>]

\* What a record should have: its base, the fields its logger was promised, and
\* those of the call; exact says that the call keeps to what the code supports.
Record(base, before, rest, exact) ==
    [base |-> base, dropped |-> before, rest |-> rest, exact |-> exact]
Unwritten == Record(<<>>, <<>>, <<>>, TRUE)

Init ==
    /\ fieldData = [l \in Log |-> NoBuf] /\ fieldCount = [l \in Log |-> 0]
    /\ logPool = Log /\ bufPool = Buf
    /\ content = [b \in Buf |-> Empty]
    /\ held = {} /\ handlers = {}
    /\ pc = [p \in Proc |-> "idle"] /\ job = [p \in Proc |-> NoJob]
    /\ queue = <<>> /\ closed = FALSE
    /\ given = [l \in Log |-> <<>>] /\ dropped = [l \in Log |-> <<>>]
    /\ expect = [b \in Buf |-> Unwritten]

\* Free loggers are alike, and so are free buffers: it does not matter which of
\* them a pool gives.
SomeLog == CHOOSE l \in logPool : TRUE
SomeBuf == CHOOSE b \in bufPool : TRUE

\* A buffer is put back; the pool empties it.
Put(b) ==
    /\ bufPool' = bufPool \cup {b}
    /\ content' = [content EXCEPT ![b] = Empty]
    /\ expect' = [expect EXCEPT ![b] = Unwritten]

Start(p, where, j) ==
    /\ pc' = [pc EXCEPT ![p] = where]
    /\ job' = [job EXCEPT ![p] = j]

Finish(p) ==
    /\ pc' = [pc EXCEPT ![p] = "idle"]
    /\ job' = [job EXCEPT ![p] = NoJob]

Busy(l) == \E p \in Proc : l \in job[p].logger

-----------------------------------------------------------------------------
(* Logger, Release *)

\* Instance.Logger takes a logger as it is in the pool.
Acquire(p) ==
    /\ pc[p] = "idle"
    /\ logPool # {}
    /\ logPool' = logPool \ {SomeLog}
    /\ held' = held \cup {SomeLog}
    /\ UNCHANGED <<fieldData, fieldCount, handlers, promised, bufPool, content, calls, queue,
                   closed, expect>>

\* Mutant: the count of fields is not reset.
MutRelease(p, l) ==
    /\ pc[p] = "idle"
    /\ l \in held \ handlers /\ ~Busy(l)
    /\ \/ fieldData[l] # NoBuf /\ Put(fieldData[l])
       \/ fieldData[l] = NoBuf /\ UNCHANGED <<bufPool, content, expect>>
    /\ fieldData' = [fieldData EXCEPT ![l] = NoBuf]
    /\ logPool' = logPool \cup {l}
    /\ held' = held \ {l}
    /\ given' = [given EXCEPT ![l] = <<>>] /\ dropped' = [dropped EXCEPT ![l] = <<>>]
    /\ UNCHANGED <<fieldCount, handlers, calls, queue, closed>>

\* Mutant: the logger keeps the buffer that goes back to the pool.
MutReleaseData(p, l) ==
    /\ pc[p] = "idle"
    /\ l \in held \ handlers /\ ~Busy(l)
    /\ \/ fieldData[l] # NoBuf /\ Put(fieldData[l])
       \/ fieldData[l] = NoBuf /\ UNCHANGED <<bufPool, content, expect>>
    /\ fieldCount' = [fieldCount EXCEPT ![l] = 0]
    /\ logPool' = logPool \cup {l}
    /\ held' = held \ {l}
    /\ given' = [given EXCEPT ![l] = <<>>] /\ dropped' = [dropped EXCEPT ![l] = <<>>]
    /\ UNCHANGED <<fieldData, handlers, calls, queue, closed>>

\* The application releases a logger once, when none of its calls uses it.
Release(p, l) ==
    /\ pc[p] = "idle"
    /\ l \in held \ handlers /\ ~Busy(l)
    /\ \/ fieldData[l] # NoBuf /\ Put(fieldData[l])
       \/ fieldData[l] = NoBuf /\ UNCHANGED <<bufPool, content, expect>>
    /\ fieldData' = [fieldData EXCEPT ![l] = NoBuf]
    /\ fieldCount' = [fieldCount EXCEPT ![l] = 0]
    /\ logPool' = logPool \cup {l}
    /\ held' = held \ {l}
    /\ given' = [given EXCEPT ![l] = <<>>] /\ dropped' = [dropped EXCEPT ![l] = <<>>]
    /\ UNCHANGED <<handlers, calls, queue, closed>>

-----------------------------------------------------------------------------
(* With, SlogHandler, WithAttrs, WithGroup *)

\* A logger and a buffer are taken for the new logger; added is what the call
\* appends to the fields of l, as [out, n], and fields what that should be.
Derive(p, l, added, fields) ==
    /\ pc[p] = "idle"
    /\ l \in held
    /\ Len(dropped[l]) + Len(given[l]) + Len(fields) <= MaxPieces
    /\ logPool # {} /\ bufPool # {}
    /\ logPool' = logPool \ {SomeLog} /\ bufPool' = bufPool \ {SomeBuf}
    /\ Start(p, "copy", [NoJob EXCEPT !.logger = {l}, !.new = {SomeLog}, !.buf = SomeBuf,
                                      !.tail = added.out, !.n = added.n,
                                      !.fields = given[l] \o fields])
    /\ UNCHANGED <<fieldData, fieldCount, held, promised, content, queue, closed, expect>>

With(p, l) ==
    \E args \in FieldArguments :
        /\ args # <<>>
        /\ Derive(p, l, appendArgs(args), Fields(args))
        /\ UNCHANGED handlers

WithAttrs(p, l) ==
    \E rec \in SlogRecords :
        /\ l \in handlers
        /\ Derive(p, l, appendSlogAttrs(rec.attrs), Attributes(rec.attrs))
        /\ handlers' = handlers \cup {SomeLog}

\* With without arguments, and WithGroup, give a logger without fields, although
\* it is promised to inherit those of l.
WithNothing(p, l) ==
    /\ pc[p] = "idle"
    /\ l \in held
    /\ logPool # {}
    /\ logPool' = logPool \ {SomeLog}
    /\ held' = held \cup {SomeLog}
    /\ handlers' = handlers \/ (l \in handlers /\ handlers' = handlers \cup {SomeLog})
    /\ dropped' = [dropped EXCEPT ![SomeLog] = dropped[l] \o given[l]]
    /\ UNCHANGED <<fieldData, fieldCount, given, bufPool, content, calls, queue, closed, expect>>

\* Mutant: the count of the parent's fields is not taken over.
MutCountNew(p) ==
    /\ pc[p] = "copy"
    /\ \E l \in job[p].logger, new \in job[p].new :
          LET b == job[p].buf
              parent == fieldData[l] # NoBuf IN
          /\ fieldData' = [fieldData EXCEPT ![new] = b]
          /\ fieldCount' = [fieldCount EXCEPT ![new] = job[p].n]
          /\ content' = [content EXCEPT ![b].pieces =
                             @ \o (IF parent THEN content[fieldData[l]].pieces ELSE <<>>)
                               \o job[p].tail]
          /\ held' = held \cup {new}
          /\ given' = [given EXCEPT ![new] = job[p].fields]
          /\ dropped' = [dropped EXCEPT ![new] = dropped[l]]
    /\ Finish(p)
    /\ UNCHANGED <<logPool, handlers, bufPool, queue, closed, expect>>

\* Mutant: the new logger shares its parent's buffer instead of copying it.
MutDeriveCopy(p) ==
    /\ pc[p] = "copy"
    /\ \E l \in job[p].logger, new \in job[p].new :
          LET b == IF fieldData[l] = NoBuf THEN job[p].buf ELSE fieldData[l] IN
          /\ fieldData' = [fieldData EXCEPT ![new] = b]
          /\ fieldCount' = [fieldCount EXCEPT ![new] = Byte(fieldCount[l] + job[p].n)]
          /\ content' = [content EXCEPT ![b].pieces = @ \o job[p].tail]
          /\ held' = held \cup {new}
          /\ given' = [given EXCEPT ![new] = job[p].fields]
          /\ dropped' = [dropped EXCEPT ![new] = dropped[l]]
    /\ Finish(p)
    /\ UNCHANGED <<logPool, handlers, bufPool, queue, closed, expect>>

\* The parent's fields are copied, and those of the call appended.
DeriveCopy(p) ==
    /\ pc[p] = "copy"
    /\ \E l \in job[p].logger, new \in job[p].new :
          LET b == job[p].buf
              parent == fieldData[l] # NoBuf IN
          /\ fieldData' = [fieldData EXCEPT ![new] = b]
          /\ fieldCount' = [fieldCount EXCEPT ![new] =
                                Byte((IF parent THEN fieldCount[l] ELSE @) + job[p].n)]
          /\ content' = [content EXCEPT ![b].pieces =
                             @ \o (IF parent THEN content[fieldData[l]].pieces ELSE <<>>)
                               \o job[p].tail]
          /\ held' = held \cup {new}
          /\ given' = [given EXCEPT ![new] = job[p].fields]
          /\ dropped' = [dropped EXCEPT ![new] = dropped[l]]
    /\ Finish(p)
    /\ UNCHANGED <<logPool, handlers, bufPool, queue, closed, expect>>

\* From now on a handler has the logger, so the application keeps it.
SlogHandler(p, l) ==
    /\ pc[p] = "idle"
    /\ l \in held
    /\ handlers' = handlers \cup {l}
    /\ UNCHANGED <<fieldData, fieldCount, logPool, held, promised, bufPool, content, calls, queue,
                   closed, expect>>

-----------------------------------------------------------------------------
(* log, metrics, slogHandler.log *)

\* The instance is open: a buffer is taken and the record begun in it.  The
\* logger's fields are read from it before the call, and appended later.
Begin(p, l, tail, n, fields, exact) ==
    /\ l \in held
    /\ ~closed
    /\ bufPool # {}
    /\ bufPool' = bufPool \ {SomeBuf}
    /\ content' = [content EXCEPT ![SomeBuf] = [map |-> Byte(@.map + 3), pieces |-> @.pieces \o Base]]
    /\ Start(p, "fields", [NoJob EXCEPT !.logger = {l}, !.buf = SomeBuf,
                                        !.data = fieldData[l], !.count = fieldCount[l],
                                        !.tail = tail, !.n = n])
    /\ expect' = [expect EXCEPT ![SomeBuf] =
                      Record(Base, dropped[l], given[l] \o fields, exact)]
    /\ UNCHANGED <<loggers, queue, closed>>

\* The arguments behind those of the format are fields.
LogMessage(p, l) ==
    \E m \in Messages :
        LET k == countFmtArgs(Format(m.format))
            added == appendArgs(SubSeq(m.args, k + 1, Len(m.args)))
            trace == StackTrace(m.sev)
            rest == SubSeq(m.args, Wants(m.format) + 1, Len(m.args)) IN
        /\ pc[p] = "idle"
        /\ k <= Len(m.args)
        /\ Begin(p, l, added.out \o trace, Byte(added.n + Len(trace)), Fields(rest) \o trace,
                 AllExact(m.format) /\ Paired(rest))

\* Fewer arguments than the format asks for: slicing them panics, and the buffer
\* is left to the garbage collector.
LogPanics(p, l) ==
    /\ pc[p] = "idle"
    /\ l \in held
    /\ ~closed
    /\ \E m \in Messages :
          /\ countFmtArgs(Format(m.format)) > Len(m.args)
          /\ Start(p, "panic", [NoJob EXCEPT !.logger = {l}, !.n = Len(m.args), !.format = m.format])
    /\ UNCHANGED <<loggers, bufPool, content, queue, closed, expect>>

CRIT == 2

\* A deferred Recover logs a panic, or, if there was none, that it is <nil>.
Recover(p, l) ==
    /\ \/ pc[p] = "panic" /\ l \in job[p].logger
       \/ pc[p] = "idle"
    /\ LET trace == StackTrace(CRIT) IN
       \/ Begin(p, l, trace, Len(trace), trace, TRUE)
       \/ /\ closed /\ pc[p] = "panic"
          /\ Finish(p)
          /\ UNCHANGED <<loggers, bufPool, content, queue, closed, expect>>

\* The severity of a slog level; levels in between are INFO.
Level == [debug |-> 7, info |-> 6, warn |-> 4, error |-> 3, other |-> 6]

Handle(p, l) ==
    /\ pc[p] = "idle"
    /\ l \in handlers
    /\ \E rec \in SlogRecords :
          LET added == appendSlogAttrs(rec.attrs)
              trace == StackTrace(Level[rec.level]) IN
          Begin(p, l, added.out \o trace, Byte(added.n + Len(trace)), Attributes(rec.attrs) \o trace,
                TRUE)

\* Neither base nor fields of the logger.
Metrics(p) ==
    \E m \in Messages :
        LET added == appendArgs(m.args) IN
        /\ pc[p] = "idle"
        /\ m.format = <<>>
        /\ ~closed
        /\ bufPool # {}
        /\ bufPool' = bufPool \ {SomeBuf}
        /\ Start(p, "fields", [NoJob EXCEPT !.buf = SomeBuf, !.tail = added.out, !.n = added.n])
        /\ expect' = [expect EXCEPT ![SomeBuf] = Record(<<>>, <<>>, Fields(m.args), Paired(m.args))]
        /\ UNCHANGED <<loggers, content, queue, closed>>

\* The record is completed, and queued or, if the queue is full, dropped.
\* (See module Instance for callers that wait.)
LogFields(p) ==
    LET j == job[p]
        extra == IF j.count > 0 THEN content[j.data].pieces ELSE <<>> IN
    /\ pc[p] = "fields"
    /\ j.count > 0 => j.data # NoBuf
    /\ \/ /\ Len(queue) < QueueSize
          /\ content' = [content EXCEPT ![j.buf] =
                             [map |-> Byte(@.map + j.count + j.n), pieces |-> @.pieces \o extra \o j.tail]]
          /\ queue' = Append(queue, j.buf)
          /\ UNCHANGED <<bufPool, expect>>
       \/ /\ Len(queue) >= QueueSize
          /\ Put(j.buf)
          /\ UNCHANGED queue
    /\ Finish(p)
    /\ UNCHANGED <<loggers, closed>>

\* The worker sends a record and puts its buffer back.
WorkerSends ==
    /\ queue # <<>>
    /\ queue' = Tail(queue)
    /\ Put(Head(queue))
    /\ UNCHANGED <<loggers, calls, closed>>

Close ==
    /\ ~closed
    /\ closed' = TRUE
    /\ UNCHANGED <<loggers, bufPool, content, calls, queue, expect>>

Next ==
    \/ \E p \in Proc :
          \/ Acquire(p) \/ DeriveCopy(p) \/ Metrics(p) \/ LogFields(p)
          \/ \E l \in Log :
                \/ Release(p, l) \/ With(p, l) \/ WithNothing(p, l)
                \/ SlogHandler(p, l) \/ WithAttrs(p, l)
                \/ LogMessage(p, l) \/ LogPanics(p, l) \/ Recover(p, l) \/ Handle(p, l)
    \/ WorkerSends
    \/ Close

Spec == Init /\ [][Next]_vars

-----------------------------------------------------------------------------
(* Properties *)

Pieces(s) == \A i \in 1..Len(s) : s[i].keys \in Nat /\ s[i].values \in Nat

\* Every variable has its type; the counts of fields are bytes, as the header of
\* the map has only one for them.
TypeOK ==
    /\ fieldData \in [Log -> Buf \cup {NoBuf}] /\ fieldCount \in [Log -> 0..255]
    /\ logPool \subseteq Log /\ bufPool \subseteq Buf
    /\ \A b \in Buf : content[b].map \in 0..255 /\ Pieces(content[b].pieces)
    /\ held \subseteq Log /\ handlers \subseteq Log
    /\ pc \in [Proc -> {"idle", "copy", "fields", "panic"}]
    /\ queue \in Seq(Buf) /\ Len(queue) <= QueueSize
    /\ closed \in BOOLEAN

\* The number of keys in a sequence of pieces.
Keys(s) ==
    LET sum[i \in 0..Len(s)] == IF i = 0 THEN 0 ELSE sum[i - 1] + s[i].keys
    IN sum[Len(s)]

\* Every buffer has one owner: the pool, a logger, a call, or the queue.  So no
\* record is built in a buffer that holds the fields of a logger, and none is
\* released with a logger or sent by the worker while someone still uses it.
OneOwner ==
    LET Owned(o, b) == CASE o = "pool" -> b \in bufPool [] o = "queue" -> b \in Range(queue)
                         [] o \in Log -> fieldData[o] = b [] o \in Proc -> job[o].buf = b IN
    /\ \A b \in Buf : \A o1, o2 \in {"pool", "queue"} \cup Log \cup Proc :
          Owned(o1, b) /\ Owned(o2, b) => o1 = o2
    /\ \A i, j \in 1..Len(queue) : queue[i] = queue[j] => i = j
    /\ logPool \cap held = {}

\* What is in a buffer is what was promised, except that the value of an
\* attribute of a kind that AppendAny does not know is missing behind its key.
Unvalued == {a.id : a \in {b \in UNION {Range(rec.attrs) : rec \in SlogRecords} : b.kind = "unknown"}}

Agree(s, g) ==
    /\ Len(s) = Len(g)
    /\ \A i \in 1..Len(s) : s[i] = g[i] \/ (g[i].id \in Unvalued /\ s[i] = [g[i] EXCEPT !.values = 0])

Has(l) == IF fieldData[l] = NoBuf THEN <<>> ELSE content[fieldData[l]].pieces

\* A logger has all fields that the chain of calls it comes from promised it,
\* whatever loggers of that chain have been released and used again meanwhile, and
\* by whichever goroutine, and knows their number.  The exception: With without
\* arguments and WithGroup drop what they should inherit (logger.go:110); then it
\* has what it was given since.
LoggersKeep ==
    \A l \in held :
        /\ \/ Agree(Has(l), dropped[l] \o given[l])
           \/ dropped[l] # <<>> /\ Agree(Has(l), given[l])
        /\ fieldCount[l] = Byte(Keys(Has(l)))

\* The map of a record says how many fields it has.  If these are at most 255, they
\* are the base, those its logger had been promised when the call was made, with
\* the exception above, those of the call, and the stack trace, until the worker
\* has sent it; what fmt takes for the format is not among them.  Exceptions: a
\* format with directives that countFmtArgs miscounts, and fields not in pairs.
RecordsFaithful ==
    \A b \in Range(queue) :
        LET s == content[b].pieces
            e == expect[b] IN
        /\ content[b].map = Byte(Keys(s))
        /\ e.exact /\ Keys(e.base \o e.rest) <= 255 =>
              \/ Agree(s, e.base \o e.dropped \o e.rest)
              \/ e.dropped # <<>> /\ Agree(s, e.base \o e.rest)

\* A log call panics only if it has fewer arguments than its format asks for, or if
\* an index or % is hidden behind flags or a width: %#[1]x panics with the argument
\* it needs.  And it never has a number of fields without the buffer they are in.
PanicsOnlyIfMissing ==
    \A p \in Proc :
        /\ pc[p] = "panic" => \/ job[p].n < Wants(job[p].format)
                              \/ ~NoneHidden(job[p].format)
        /\ job[p].count > 0 => job[p].data # NoBuf

=============================================================================
