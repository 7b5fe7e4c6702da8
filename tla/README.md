# TLA+ models of fluentlog

fluentlog is a Go logging library that speaks the Fluent Forward protocol: an
application logs through an `Instance`, a background worker sends the messages
through a client, and, when the server cannot be reached, keeps them in a
compressed disk buffer until it can. The repository also holds the other end
(a Forward server) and its own MessagePack implementation.

These modules model the parts of the code in which order, concurrency and
failure matter. TLC checks them on small instances; TLAPS proves their safety
properties for instances of any size.

## Inventory

| component | source | state | operations |
|---|---|---|---|
| logging instance | `instance.go`, `write_behavior.go`, `batch_writer.go` | bounded channel `queue`, pool of buffers, `close` channel, the worker's `fb` flag | `log`/`metrics`/`queueMessage` (callers), `worker`, `sendToCli`, `sendToFallbackCli`, `flushFallbackToCli`, `maybeSetFb`, `Close` |
| ping-pong disk buffer | `fallback/dir_buffer.go` | two files that swap the roles *read* and *write*, an open gzip stream on the second, a mutex | `Write`, `HasData`, `Reader`, `Close` |
| file buffer | `fallback/file_buffer.go` | one file, a mutex | `Write`, `HasData`, `Reader`, `Close` |
| forward client | `forward/client.go`, `forward/auth.go` | one connection, a reader, a buffered writer | `Connect`, `Write`, `WriteBatch`, `Reconnect`, `Close` |
| handshake | `forward/phase_handshake.go`, `forward/sha512_hex.go` | nonce, salt, credentials | HELO, PING, PONG |
| server, sessions | `forward/server.go`, `forward/server_session.go` | listener, pools shared by the sessions, one goroutine per session | `Listen`, `authenticate`, `Next`, `Rewind`, `Close` |
| transport phase | `forward/transport/*.go` | current mode, entries left, a nested iterator and gzip reader from a pool | `Next`, `Leave`, `handleOptions`, `Rewind` for four modes |
| heartbeat | `forward/server_heartbeat.go` | none | echo of a UDP datagram |
| gzip reader, pool | `internal/gzip/*.go` | a pool of readers | `Get`, `Put` |
| MessagePack | `pkg/msgpack/*.go`, `pkg/msgpack/types` | byte buffers | `Append*`, `Read*`, `Writer`, `Iterator`, `Value`, timestamps |
| logger, fields | `logger.go`, `append_*.go`, `printf.go`, `severity.go` | a field buffer per logger | `With`, `Release`, the log methods |
| slog handler | `slog.go` | fields of the handler | `Handle`, `WithAttrs`, `WithGroup` |

How they interact: the callers of the logging methods build a message in a
pooled buffer and hand it to the worker through the channel. The worker is the
only goroutine that writes to the client and to the disk buffer; a ticker and
the close channel reach it through the same `select`. `Close` runs in yet
another goroutine and waits for the worker. The disk buffer calls back into the
client (`Reader(func(n, r) { WriteBatch(...) })`) while it holds no mutex. A
new process on the same directory inherits only the two files.

What is hard here:

* callers that block on a full queue, `Close` that comes between a caller's
  `closed()` check and its send, and a worker whose `select` is random;
* pooled buffers with three possible holders;
* the disk buffer's swap of roles, which decides what the next `Reader` call
  sees, repeated after a reconnect, with writes in between;
* failing disk operations between the steps of `HasData` (flush, copy,
  truncate) and of `Reader` (swap, open, callback, truncate);
* crashes, which leave a torn gzip member behind which nothing is readable;
* in the protocol's server: nested iterators taken from shared pools, and
  acknowledgements that must follow the entries they acknowledge;
* loggers and field buffers from pools that all goroutines share, and counts of
  fields that are bytes.

## Modules

`FallbackStore` is what a disk buffer promises: a set of stored entries to which
`Put` adds, and from which `Take` removes what the callback accepted; `Fail`
says what is allowed when something fails. Both disk buffers refine it.
`BufferFile` is what their files hold, and how much of it can be decoded.

`DirBuffer` is `fallback/dir_buffer.go`. The variables `rName`, `wName` say which
of the two files has which role; `read` and `write` are the open handles; `gz`
and `gzErr` are the gzip stream's unflushed entries and its permanent error;
`exists` and `disk` the two files (a sequence of entries and of `Garbage` for a
part that cannot be decoded). `call` and `ret` are the control state of the call
in progress and the result of the last one. `Write` and `Close` are single
steps since they hold the mutex throughout; `HasData` and `Reader` are several
(`HasDataCopy`, `HasDataTruncate`; `ReaderSwitch`, `ReaderOpen`, `ReaderFnOK` or
`ReaderFnErr`, `ReaderTruncate`), because they can fail or the process can die
between them, and because `Reader` lets go of the mutex. `closeErr` has the ways in which
closing fails: the permanent gzip error, the flush, the write file's `Close`, and that of a read
file a failed merge has left open (`closeReadFails`). The history variables
`written` and `consumed` collect what a `Write` accepted and what a callback
accepted.

`FileBuffer` is `fallback/file_buffer.go`: one file instead of two, opened on the
first `Write`. `Reader` is again several steps (`ReaderOpen`, the callback,
`ReaderTruncate`); it lets go of the mutex after it has closed the stream, so a
`Write` or a `Close` of another goroutine can come in between. `overlapped` remembers
that one did, since the truncation then takes what it wrote.

`Instance` is `instance.go`, with `DirBuffer` as its fallback buffer. Callers:
`LogBuild`, then `QueueMessage`, `QueueDrop` or `QueueFull`, and after that
`SendRoom` or `SendBlocks`. Go's channel is `queue` and `sendq` (`Receive` moves the
first blocked sender's buffer into the queue). The worker's program counter
`wpc` has one value per place where the goroutine can be observed or block;
each action is named for the case of the `select` or the function it models.
`CliOK` and `CliErr` are the client as the worker sees it: a connection that is
`nil`, `good` or `broken`; a reconnect may fail in the handshake (`HandshakeFails`), and since
the client keeps that connection it may look usable, with writes to it going nowhere. `Setups` are the configurations a run covers (write
behavior, whether the client implements `Reconnector`, and the bounds on
messages, calls, outages, restarts and faults that go with them); one is
chosen in the initial state. `Restart` is a new process after `Close`, `Crash` one
after the death of the process.

`Logger` is `logger.go`, `slog.go`, the `append_*.go` files and the part of
`instance.go` that acquires and releases loggers and builds records. A logger
is a buffer of fields and a count; loggers and buffers come from pools. The calls
of a goroutine are several steps where other goroutines can come in between
(`With` and `WithAttrs`, then `DeriveCopy`; `LogMessage`, then `LogFields`). Fields are *pieces*, each with
its number of keys and of values, so that a key without a value is visible; the
counts are bytes. `given` is what the application has put into each logger, `dropped` what it
should have inherited from a parent and did not (`With` without arguments, `WithGroup`),
`expect` what a record should contain. `Printf` is `printf.go`: `countFmtArgs` over formats as
sequences of characters, and `Wants`, what `fmt` takes, over the directives they
are made of: text, and a verb or a `%` behind any combination of flags, a width, a star,
two of them, and explicit indices of each. `Exact` and `Starred` are the directives for which
`countFmtArgs` is right, and those for which it counts too few.

`Forward` is a client (`forward/client.go`), the handshake
(`phase_handshake.go`) and the sessions of a server (`server.go`,
`server_session.go`) over TCP connections. `cpc` is where the client's current
operation is: `dial`, `auth` (the `Auth` callback), `helo`, `ping`, `pong`,
`write`. `conn` is `Client.conn` and `w` the connection of `Client.w`, which follow
each other only once `Auth` has succeeded. `ss` is where each session is. Digests
are the tuples of what is hashed; nonce, salt and auth salt are fresh per
connection and therefore represented by its number. A connection can break at
any time (`Break`); what was on its way is then lost, and a write to a connection
the other end has left either fails or succeeds without effect, as with TCP. A
batch that fails in the middle (`WriteBatchFails`) leaves the session inside it
(`ss` is `batch`), where it takes whatever comes next for the rest. The client is used as a
worker uses it, through `Write`, `WriteBatch`, `Reconnect` and `Close`. The public `Connect` is
reached through them, always without a connection; called by a user without one it is a `Reconnect`
without one. Called with one it would dial a second connection and leave the first open; nothing in the
repository does so, and `OneConnection` says nothing of it.

`Transport` is the transport phase of a session (`forward/transport`). A stream is
a sequence of MessagePack tokens which arrive one at a time; `pc` names the
token that is read next, and `Expected` the types accepted there. `pos`, `mark` and
`manual` are the session's iterator: read up to, flushed up to (where `Rewind`
returns to), manual flush. `nested`, `npos`, `nmark` and `nend` are the iterator the
packed modes take from the pool, `nlimit` how far it can be read: an inflater
does not go on after an error. An iterator from the pool has been reset, but
nothing in the repository sets whether it is flushed by hand: `manual` and `nmanual`
may be either (`PooledFlush`), and one that flushes by itself has nothing to rewind to. The
gzip header of a compressed batch may not arrive in time (`EnterFails`). The handler reads each record completely; when a
read times out it calls `Rewind` and tries again, or gives up. A value can also be cut inside
its bytes (`ShortValue`): `Str`, `Time` and `Skip` drop that error, so an empty string is taken for the
chunk and acknowledged (`NoChunk`), and the session goes on reading in the middle of the value. A handler that
just calls `Next` again after a timeout, as the one in `example/server` does, is not modelled: a
timeout in the middle of a token then leaves arbitrary bytes to be read. `lost` is
where the model stops in both cases, since bytes in the middle of a value can be anything. A token is marked with its event and its entry, which
the code does not see; `Marked` says what the marks mean, and what a client must keep
to for them to mean anything: a record is not empty, comes behind a time and begins with a key, a bin ends
between two entries, a chunk stands behind the entries of its event. Counts and tags
may be wrong, and a stream may stop or go astray anywhere.

`Gzip` is `internal/gzip/gunzip.go` as operators on sequences of parts of a stream:
the header with its optional parts, the blocks of the inflater (external), the
trailer, and the next member. `MCTransport` compares them, in assumptions that TLC
evaluates, with what compressors write: `GzipReads` for all combinations of
optional parts, one and two members, complete and cut at every place, `GzipStops` for
something else behind a member.

`Msgpack` is `pkg/msgpack`. Each `Append` function is an operator that gives the bytes
it appends and the length of the body behind them; `Get` is the table of
`types`. `Token`, `Any` and `Skipped` are the iterator's `Next`, accessors and the switch
of `Skip`, whose recursion is the stack `todo`; the `Read` functions are operators
on an offset. Bytes are numbers and 64-bit integers sequences of eight bytes
(`ZeroExtend`, `SignExtend`), so widths and signs are those of the code. Bodies are
kept as intervals of the buffer, not byte by byte. A value is written, the buffer
is opened by one kind of reader, and the reader goes through it; `idx` is the value
it should be at, `Behind` where it should be after a `Skip`, counted without
recursion. The kinds of reader are the iterator (which can also show a value:
`AppendText` and `TextNext` are the walk of `iter_text_appender.go` over nested
values), the `Read` functions, and `Value` with its `Array` and `Map` (`ValueLoop`, `ValueNext`,
which step by `BytesLen`). The buffer can be cut at every byte of its last value (`Cuts`). `Skip` and `AppendText` ignore
the error of a nested value that is cut and go on with the loops around it (`GoesOn`). A reader that then
takes bytes in the middle of a body for a token stops (`lost`), since they could be anything.

`Instance` does not use `Forward` directly. Its `conn` is what the worker can tell
of the client: `nil`, usable or not.

The theorems about `DirBuffer`, `FileBuffer`, `Instance`, `Forward`, `Logger` (with `Printf`),
`Transport` and `Msgpack` are in modules of their own, `DirBufferProofs` and so on;
`SequenceLemmas` has the lemmas that several of them use. The `MC` modules give the model
values.

Outside `Msgpack` and `Gzip` data is abstracted: a message, and an entry on disk, is a
model value that is logged at most once; a file can be decoded up to its first
`Garbage`. In `Instance` and `Logger`, buffers, messages and loggers that are not in use
are all alike, so a `CHOOSE` picks one.

## Runs

| run | instance | shows |
|---|---|---|
| `dirbuffer` | 3 entries, 2 faults (failed disk operations or crashes) | `TypeOK`; `NoLoss`, `NoRedelivery`; `ReadFileQuiet`: the file a callback holds is not written; `HasDataGathers`: a `true` answer means the next `Reader` will see everything; `MergeKeeps`: whatever fails, a merge loses an entry only if it copies it behind a part that was torn before; `ImplementsStore`: refinement of `FallbackStore` |
| `filebuffer` | 3 entries, 2 faults | `NoLoss`: nothing is lost but by a `Write` between the steps of a `Reader`, and what that `Reader` found not even then; `NoRedelivery`; `ImplementsStore` for callers that keep the two apart |
| `instance` | Block and Loose: 2 callers, 3 messages, a queue of 1, 4 buffers, 1 outage that may last; Fallback: the same with 2 messages; 1 caller, 2 outages, 1 restart; and 1 caller, 1 outage, 1 restart, 1 fault; the first three with both kinds of client | `OneOwner`, `FifoOnce`, `NoLoss`, `CloseMakesDurable` (the queue is drained, and the rest on disk), `SentOnce`, `DiskKept`; and under fairness `CallReturns` (in Loose even after `Close`), `CloseReturns`, `BootDelivers` |
| `logger` | 2 goroutines, 2 loggers, 3 buffers, 0 to 256 fields | `OneOwner`: a buffer belongs to a pool, a logger, a call or the queue; `LoggersKeep`: a logger keeps exactly the fields it was promised, whatever others derive and release, except those that `With` without arguments and `WithGroup` drop; `RecordsFaithful`: a record has the logger's fields and the call's, keys and values, behind a header with their number; `PanicsOnlyIfMissing`: the only panic is that of a format that asks for too much, or hides an index or a `%` behind flags or a width; and, as an assumption TLC evaluates, `countFmtArgs` against `Wants` for every format of up to three directives (`CountAgrees`) |
| `transport` | 81 streams of two events: each mode, empty and with two entries, with and without a chunk, then one of one entry, a heartbeat or a badly formed one; with and without timeouts | `OrderedPrefix`: the handler gets a prefix of the entries, in order, each once, with its tag; `AckFollows`: a chunk is acknowledged after its entries; `Completes`: supported streams are read to their end, and no chunk of any stream is left without an answer while the session goes on; `PanicKeepsEntries`: what a nil dereference leaves behind |
| `msgpack` | up to 3 values of about 220 at the boundaries of every format, one of them any, the others a string, an array of 2 or a map of 1; complete or cut at every place of the last value | `IteratorReads`: what the iterator returns is what was appended, as far as the first time with an ext8 header; `Aligned`: after any mixture of reading, showing and skipping it is at the start of a value, and stops only where bytes are missing; `OffsetReads`: what the `Read` functions and `Value` return |
| `forward` | 2 messages, 2 connections, 5 combinations of credentials | `HandshakeAgrees`, `ReceivedPrefix`, `OneConnection`, `OperationsEnd`; `WrittenArrives`: what was written without an error arrives while the connection lasts and no batch was cut on it |
| `ext8_time` | as `msgpack`, single values | `TimesRead` is violated |
| `not_retried` | Fallback, 1 caller, 2 messages, 1 outage that ends | `RetriedLater` is violated |
| `close_strands_caller` | 2 callers, queue of 1, Block | `BlockedCallReturns` is violated |
| `crash_merge` | 1 crash | `DurableKept` is violated |
| `failed_handshake` | as `forward` | `NotWrittenAfterFailure` is violated |

Why these bounds: a queue of one is full with one message, so blocking,
dropping and the hand-over to a blocked caller all happen; three messages put
one in the worker's hand, one in the queue and one in a blocked call, or one in
each file and one on its way; two outages are needed to fail a flush after
entries have gone to both files; two faults of a disk buffer cover every pair of failed steps,
which includes a failure while recovering from one; in the instance one fault meets every step of the worker. There is a buffer for each
caller, each place of the queue and the worker. Two connections are what it takes to
fail a handshake and reconnect, with the old session still running. Two events
are a change of mode in each direction. Two loggers are a parent and one
derived from it while another goroutine releases or uses one; fields come in
pieces of 128 and 124, so that a logger can have 252 of them, the most that fits into
a record with its own fields, and 256, which wraps to none; formats have up to three directives, so that every pair of kinds has
something before or behind it. Symmetry is used for callers and goroutines
only, and not in the runs with liveness. Deadlock checking is off for the
instance, the client and the session, because a closed instance, an idle client
and an ended session really stop.

Fairness: weak fairness for each caller, the worker and the goroutine in `Close`
(the Go scheduler runs what can run); strong fairness for `SelectClose`, since a
`select` chooses among its ready cases at random. `RecoverySpec` adds that an
outage ends. In `Forward` the client's operation and each session run; in
`Transport` the session runs and the client sends all it has. Nothing says that callers log, that `Close` is called, or that the
server stays up.

## What the violated properties show

* `RetriedLater` (`write_behavior.go`: "and retried later"). A `Reader` call reads
  one of the two files. A first flush fails and leaves file *a* unread; further
  messages go to *b*; the next flush swaps, delivers *b* and resets `fb`. No
  later step looks at *a* until the next failure or the next process.
* `BlockedCallReturns` (`README.md`: "the log call will block until space becomes
  available"). The blocking send does not watch the close channel, so a call that
  passed `closed()` before `Close` can wait for a worker that has exited.
* `DurableKept` (`write_behavior.go`: "guarantees that no logs neither lost").
  A crash leaves a torn member at the end of one file; `HasData` of the next
  process appends the other file's intact entries behind it and truncates the
  file they were in.

* `NotWrittenAfterFailure` (the protocol specification: "Client MUST disconnect the
  connection if authentication operation fails"). `Connect` leaves the connection
  in the client when the handshake fails; the next `Write` uses it and succeeds,
  although the session has ended. The message is lost without a fallback.

* `TimesRead` (the protocol specification: "Binary representation of `EventTime` may be `fixext` or
  `ext`(with length 8)"; `timestamp.go` on this header: "ext8 (Ts96) or Forward EventTime"). The length of an
  ext8 does not count the type byte, and `Iterator` does not add it, so `Time` hands
  `readTimeUnsafe` one byte less than it asks for: a `Ts96` (`TsAuto` before 1970, so a zero `time.Time` in an
  slog attribute) and an EventTime in the ext form are read as the epoch, and what
  follows is read from one byte too early. The Read functions are right.

Also in the model, with no run of their own:

* `MessageMode.Next` reads the options before the handler has read the record, so it
  takes the record's first key for them and the session ends; a chunk sent with
  an event in this mode is never acknowledged, although the protocol
  specification says "Server MUST respond `ack` when the `chunk` option is sent by
  client". `Completes` excludes MessageMode with options for that reason.
* EventTime seconds are written unsigned and read signed: from 2038 on they come
  back negative. `TsAuto` picks `Ts32` for every whole second, also beyond 2106.
* `ReadBinary`, `ReadArrayHeader` and `ReadMapHeader` read lengths as signed: a bin8 of
  128 bytes or more, or a bin16 of 32768 or more, makes `ReadBinary` panic, and
  counts from 32768 to 65535 come out negative. The server uses the iterator,
  which reads them as unsigned.
* A packed mode's `Leave` drops its iterator before it reads the options. If that
  read times out, `Rewind` and `Next` dereference nil (the state `panic`).
* After a timeout inside a compressed batch the inflater repeats its error; the
  session never gets beyond it.
* If a chunk's value is cut inside its bytes by a timeout, its error is dropped and an empty
  chunk acknowledged.
* After a failed merge the read file stays open; if its `Close` fails at the next operation, that
  operation fails although the write file is sound.
* A copy of a merge that fails half way leaves a torn part in the write file; the next `HasData` copies
  behind it, as in `DurableKept`, without a crash.
* An acknowledgement can be sent twice, if the read of the option behind the
  chunk times out in ForwardMode and is repeated (`acked` is a set).
* If the gzip header of a compressed batch does not arrive in time, `Enter` returns
  with the session still in MessageMode and what was read flushed: a repeated
  `Next` begins inside the batch.
* A session whose iterator comes from a session that ended inside a packed batch
  may flush by itself from the start; after a timeout `Rewind` then has nothing to
  go back to. (Whether `Reset` of the ring buffer keeps the setting is not visible in
  this repository; the model allows both.)
* A `bin` of length 0 ends the session as if the client had hung up; so does, with
  an error, a heartbeat (`nil`).
* In ForwardMode the count of entries is lowered before the handler has read the
  record: `Rewind` inside a record makes the mode end one entry early, and the
  session with it.
* If the client's `Auth` callback fails in the first `Connect`, the next
  `WriteBatch` has a writer without a connection: it writes nothing and returns no
  error, so the batch is dropped and the fallback buffer emptied.
* A batch that fails in the middle leaves its connection in the client. What a
  `Write` sends next is taken for the rest of the batch, and `Write` returns no error.
  The instance reconnects after a failed batch.
* Without `PasswordAuth` a client sends no username, so a `StaticAuthServer` with one
  refuses everybody.

* `FileBuffer` says "Reads and writes are blocking each other", but `Reader` lets go of
  the mutex before the callback: a `Write` of another goroutine that comes before the
  truncation is lost.
* `Value.BytesLen` reads lengths as signed: behind a `str` or `bin` of 128 to 255 or of
  32768 to 65535 bytes `Array` and `Map` panic or go on inside it. Items of a nested array
  or map come out as elements of the outer one. `Value.String` of a time in an ext8
  panics.
* `Iterator.AppendText` ignores errors and shows a timestamp written as an integer as
  the number.
* `With` without arguments and `WithGroup` return a logger without the fields of its
  parent, although `logger.go` says that it "inherits any meta data from the current
  logger".
* Counts of fields are bytes. A logger with more than 252 makes the count of a
  record's map wrap; one with exactly 256 loses them all, since a count of 0 means that
  there are none.
* A key without a value at the end of the arguments is dropped, and so is an empty
  string. An slog attribute of a kind `AppendAny` does not know leaves a key without
  a value in the record, so that what follows is shifted.
* A format that asks for more arguments than there are makes the log call panic. A star
  (`%*d`) is counted as no argument. `countFmtArgs` looks at one character behind a `%`: it does not see an
  index behind flags or a width, and takes the second `%` of `%5%` for the beginning of a directive, so
  `Infof("%d %#[1]x", 16)` panics with all the arguments `fmt` needs, and with fields behind them the first
  key goes to the text.
* `Recover` logs `panic: <nil>` as critical when there was no panic.

* Fallback mode blocks a caller that finds the queue full exactly as Block does,
  although `write_behavior.go` says it does not block.
* In Block and Loose mode a message whose `Write` fails is dropped by the worker;
  `NoLoss` is conditioned on that (`Lossless`).
* If the client is no `Reconnector`, a failed flush resets `fb` all the same.
* `sendToFallbackCli` ignores the result of writing the entry's header; a body
  without its header is `Garbage`.
* A gzip error is permanent: after it every `Write` and every flush fails until the
  process ends.
* The instance's `closed()` check is not repeated before the send: a message may
  enter the queue after the worker's last look at it. `NoLoss` and
  `CloseMakesDurable` therefore speak of the messages that were queued before
  `Close` began (`promised`).

## Proofs

All safety properties of the passing runs are theorems, for every value of the constants;
so is `HasDataTells` of `FileBuffer`, which no run states. Each proof module has an inductive invariant
`Inv`, whose parts say in words what they are for, one lemma per action, and the theorems
at its end. TLC has checked every `Inv` as well, on the instance of
its run.

| module | theorems |
|---|---|
| `DirBufferProofs` | `TypeCorrect`; `ReadFileIsQuiet`: `ReadFileQuiet`; `NothingLost`: `NoLoss`; `NothingRedelivered`: `NoRedelivery`; `HasDataIsRight`: `HasDataGathers`; `MergeIsSafe`: `MergeKeeps`; `Refinement`: `ImplementsStore` |
| `FileBufferProofs` | `TypeCorrect`; `NothingLost`: `NoLoss`; `NothingRedelivered`: `NoRedelivery`; `HasDataIsRight`: `HasDataTells`; `Refinement`: `ImplementsStore` |
| `InstanceProofs` | `TypeCorrect`; `BuffersHaveOneOwner`: `OneOwner`; `QueueIsFifo`: `FifoOnce`; `NothingLost`: `NoLoss`; `NothingSentTwice`: `SentOnce`; `CloseIsDurable`: `CloseMakesDurable`; `DiskIsKept`: `DiskKept` |
| `ForwardProofs` | `TypeCorrect`; `ClientHoldsItsConnection`: `OneConnection`; `HandshakeIsAgreed`: `HandshakeAgrees`; `ReceivedInOrder`: `ReceivedPrefix` |
| `LoggerProofs` | `TypeCorrect`; `BuffersHaveOneOwner`: `OneOwner`; `LoggersKeepFields`: `LoggersKeep`; `RecordsAreFaithful`: `RecordsFaithful`; `PanicsAreDeserved`: `PanicsOnlyIfMissing`; `CountAgreesWithFmt`, which no run states |
| `TransportProofs` | `TypeCorrect`; `EntriesInOrder`: `OrderedPrefix`; `AcksFollowEntries`: `AckFollows`; `PanicsBehindEntries`: `PanicKeepsEntries` |
| `MsgpackProofs` | `RoundTrip`, which no run states; `IteratorIsFaithful`: `IteratorReads`; `IteratorStaysAligned`: `Aligned`; `OffsetsAreFaithful`: `OffsetReads` |

Why the invariants are needed, and what they are:

* `DirBuffer`. Several, each inductive relative to the one before. `Inv` adds to `TypeOK` the
  `Roles`: which handles may be open in which control state, and that the two
  names differ. `ReadFileQuiet` follows from it. `Content` says what is in the stream
  and in the files while no fault has happened: no garbage anywhere, the file of
  the callback unchanged since it was opened, the copy of `HasData` present in
  both files only between the copy and the truncation. `Gathers` adds to
  `HasDataGathers` that `HasData` merges only into a file with data. `Account` adds the
  history variables: what is stored and what is consumed is together what was written. `Copied` is what `MergeKeeps` needs with faults: between copy and truncation
  the one file ends in the other. The refinement maps the abstract store
  to the set of entries in the files and the stream; each action is shown to be
  a `Put`, a `Take`, a `Fail` or a stutter.
* `FileBuffer`. The same argument, without the second file but with calls that overlap.
  `Found` is about what a `Reader` found, whatever comes between its steps; `Apart` about
  everything that was written, as long as no `Write` does.
* `Instance`. `Somewhere` and `Once` are `OneOwner` place by place. `Messages` says that
  no two buffers hold the same message, without which a buffer that is reused too early
  could not be told from one that is not; `NotLeft` that what has been written or
  stored is not also still in a buffer; `Kept` is `NoLoss` in terms of what the fallback
  buffer has accepted. The steps of that buffer are those of `DirBuffer`, so the
  invariant contains the one of `DirBufferProofs`, of which `InstanceProofs` is an instance: its
  lemmas apply to each step of the buffer, and only `NewBuffer` (the restart) and
  the header that was not written (`GarbageWrite`) are new. `DiskKept` needs `FirstLife`.
* `Forward`. For each connection: what may be on its way in each direction (`ToServer`,
  `ToClient`) given where both ends are, and, as long as a write reaches the session,
  what the client's position says about the session's (`Stage`). Without the last, a
  message that was written behind a failed handshake could be taken for a PING.
  `Order` extends `ReceivedPrefix` by what is still in the connection, up to a cut batch.
* `Logger`. Who has which logger and buffer (`LoggersApart`, `BuffersApart`), and for each
  call what it has prepared: `Copying`, `Logging`, `Panicking`. That counts agree with what is
  appended rests on lemmas about the recursive functions of the model:
  `appendArgs`, the attributes and the stack trace. `CountAgreesWithFmt`
  follows `countFmtArgs` through a format character by character and `fmt` through its
  directives: after each directive the scan has counted the highest argument
  used so far, or a lower one behind a star (`ScanFollows`); it says nothing of hidden indices.
* `Transport`. The handler has all records up to where the session's iterator, or
  the nested one, stands (`Read`), or all but the one it stands behind (`Midway`). A rewind
  may leave an iterator that flushes by itself anywhere in an event. The invariant
  does not exclude that; it shows that from there on nothing is delivered or
  acknowledged wrongly, because what comes next is of a type that is not accepted, or
  is the beginning of an event or an entry all the same. `AllHanded` is what holds when a packed mode is left.
* `Msgpack`. First each value by itself, without the state machine. `RoundTrip` says that,
  wherever the bytes of `Encode(v)` lie, every reader is right about them (`Good`): the token, what the
  iterator returns, what the `Read` functions return and where they go on, the length
  `Value` steps by and what it shows, and the number of items. It goes through the formats one by one,
  with the arithmetic of their bytes in lemmas (`Bytes4`, `PackedIs`, `Tails`), and the exceptions are in
  `Good` itself: `Kept` (formats that drop nanoseconds or high bits), `Ext8`,
  `SignedLength`. Then the buffer: `Written` says that every value lies where its span says, one behind the other.
  Then the readers: `Reads` says for each control state where the reader is. The properties
  speak of values only, so what has to be added is the middle of a nested value: the
  loops that are open in `todo` have together as many rounds to go as values are still missing
  (`Loops`, `Passed`), and none of the values in between closed the outermost loop (`StillOpen`); a loop
  that ends is then at `Behind`. As in the properties, nothing is claimed behind a time
  with an ext8 header (`CleanOf`), where the iterator is a byte short, or
  behind a value whose length `BytesLen` gets wrong (`WholeOf`).

The prover has no induction over operators. `SequenceLemmas` proves induction with a set
in place of the predicate, and from it that a function defined by recursion along a
sequence exists and is unique in what it gives (`RecursionExists`, `Along`); that is enough for the recursive
functions in `Logger` and `Printf`, and for the count of missing values in `Behind` (`NeededOf`). Entries of a stream are counted by cardinality
(`Number`) for the same reason: nothing is known to the prover about `SelectSeq`.

The assumptions are those named in the modules, and TLC evaluates them for the
instances: `Garbage` is no entry or message; the placeholders are no buffers or messages;
the bounds are natural numbers, the queue has room for one; formats, arguments and
attributes have the shapes of `Printf` and `Logger`; goroutines and loggers are different
things; credentials have their three parts; streams are `Marked`; and the values to append are of `Value`:
any 64-bit integer, any time with less than 10^9 nanoseconds, any length below 2^30 (`Huge`, which
stands for the lengths from there on), by any of the functions and in any of the formats.

Only model-checked:

* all liveness, which is out of the prover's reach: `CallReturns`, `CloseReturns`, `BootDelivers`,
  `OperationsEnd`, `WrittenArrives`, `Completes`;
* `Gzip`, whose operators are recursive over parts of a stream; TLC evaluates them over bounded
  inputs.

## Not modelled

* The heartbeat listener, which echoes datagrams and keeps no state, and `Listen` before
  it accepts connections.
* `AsciiFormatter`, a debugging aid around `Transport`'s `Next`. (It keeps its mode across
  calls of `Write`, so a batch that is cut by one call changes what the next one reads.)
* `Value.AppendJson`, which panics, and the debug dumps.
* `Buffer` and `Writer` of `pkg/msgpack` as such: their methods append what `Msgpack`'s operators
  give. That `WriteTo` of the external buffer empties it is assumed; the server's
  session relies on it, since it writes HELO, PONG and acknowledgements without a
  reset.
* The pools as such. An object is taken from them in the state its last user left
  it in (`PooledFlush`, the loggers and buffers of `Logger`); putting a nil buffer into a
  pool, as the release of a logger without fields does, is assumed to be harmless.
* The examples and benchmarks.

Within the modelled components: the bytes of a message and `strSize`, the pool's allocation of
new buffers, the ticker's period (a tick may come at any time), TLS, badly formed
handshake messages, a server that accepts a connection and then hangs (the
client has no deadline for the handshake), and records without fields.

## Plan

1. Done: `FallbackStore`, `DirBuffer`, `FileBuffer`, `Instance`, `Logger` and `Printf`, `Forward`, `Transport` and
   `Gzip`, `Msgpack`.
2. Done: all safety properties of `DirBuffer`, `FileBuffer`, `Instance`, `Forward`, `Logger`,
   `Transport` and `Msgpack` proved. What is left is what the prover cannot do.
