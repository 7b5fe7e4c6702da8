----------------------------- MODULE FileBuffer -----------------------------
(***************************************************************************)
(* The disk buffer of fallback/file_buffer.go: one file, appended to       *)
(* through a gzip stream by Write, handed to a callback and then truncated *)
(* by Reader.  Write, HasData and Close hold the mutex throughout; Reader  *)
(* holds it only while it closes the stream, so the others may come        *)
(* between its later steps.                                                *)
(*                                                                         *)
(* A file is a sequence of entries and garbage (module BufferFile).        *)
(***************************************************************************)
EXTENDS BufferFile

CONSTANTS
    FaultKinds,  \* the faults that may happen, a subset of {"disk", "crash"}
    MaxFaults    \* bound on their number

ASSUME FileBufferAssumption ==
    /\ Garbage \notin Entry
    /\ FaultKinds \subseteq {"disk", "crash"}
    /\ MaxFaults \in Nat

VARIABLES
    w,           \* f.f and f.w: "nil", "open", "failed" (the gzip writer has a
                 \* permanent error) or "closed" (only the file's Close failed)
    gz,          \* entries in the gzip stream, not yet certainly on disk
    exists,      \* the file has been created
    file,        \* its content: whole gzip members, and what is left of others
    call,        \* progress of the call of Reader under way
    ret,         \* the result of the last call
    found,       \* entries on disk when that Reader closed the stream (history)
    consumed,    \* entries handed to a callback that accepted them (history)
    written,     \* entries a Write accepted (history)
    overlapped,  \* a Write has come between the steps of a Reader (history)
    faults       \* number of faults so far (history, bounded)

history == <<found, consumed, written, overlapped>>
vars == <<w, gz, exists, file, call, ret, history, faults>>

-----------------------------------------------------------------------------
Stored == Readable(file) \cup Readable(gz)

Fault(kind) ==
    /\ kind \in FaultKinds
    /\ faults < MaxFaults
    /\ faults' = faults + 1

Return(r) == call' = "none" /\ ret' = r

-----------------------------------------------------------------------------
(* NewFileBuffer *)

Init ==
    /\ w = "nil" /\ gz = <<>>
    /\ exists = FALSE /\ file = <<>>
    /\ call = "none" /\ ret = "none"
    /\ found = {} /\ consumed = {} /\ written = {}
    /\ overlapped = FALSE /\ faults = 0

-----------------------------------------------------------------------------
(* Write *)

\* Mutant: the entry is wrapped instead of appended as it is.
MutWriteOK(e) ==
    /\ w \in {"nil", "open"}
    /\ w' = "open" /\ exists' = TRUE
    /\ gz' = Append(gz, <<e>>)
    /\ written' = written \cup {e}
    /\ ret' = "ok"
    /\ UNCHANGED <<file, faults>>

\* The file is opened, and created, by the first Write after a close; the
\* stream's header reaches it at once, the entries may stay in the stream.
WriteOK(e) ==
    /\ w \in {"nil", "open"}
    /\ w' = "open" /\ exists' = TRUE
    /\ gz' = Append(gz, e)
    /\ written' = written \cup {e}
    /\ ret' = "ok"
    /\ UNCHANGED <<file, faults>>

WriteOpenFails ==
    /\ w = "nil"
    /\ Fault("disk")
    /\ ret' = "error"
    /\ UNCHANGED <<w, gz, exists, file, written>>

WriteThroughFails(e) ==
    /\ w \in {"nil", "open"}
    /\ Fault("disk")
    /\ w' = "failed" /\ exists' = TRUE
    /\ \E p \in TornPrefixes(Append(gz, e)) : file' = file \o p
    /\ gz' = <<>>
    /\ ret' = "error"
    /\ UNCHANGED written

WriteRefused ==
    /\ w \in {"failed", "closed"}
    /\ ret' = "error"
    /\ UNCHANGED <<w, gz, exists, file, written, faults>>

\* A closed gzip writer may also take the entry, but no one will flush it.
WriteForgotten(e) ==
    /\ w = "closed"
    /\ written' = written \cup {e}
    /\ ret' = "ok"
    /\ UNCHANGED <<w, gz, exists, file, faults>>

Write(e) ==
    /\ e \notin written
    /\ \/ WriteOK(e) \/ WriteOpenFails \/ WriteThroughFails(e)
       \/ WriteRefused \/ WriteForgotten(e)
    /\ overlapped' = (overlapped \/ call # "none")
    /\ UNCHANGED <<call, found, consumed>>

-----------------------------------------------------------------------------
(* Closing the stream and the file, in Close and at the start of Reader *)

Flushed == file \o gz
\* Mutant: the file is closed without closing the gzip stream.
MutcloseOK ==
    /\ w \in {"nil", "open"}
    /\ w' = "nil"
    /\ gz' = <<>>
    /\ UNCHANGED <<exists, file, faults>>

closeOK ==
    /\ w \in {"nil", "open"}
    /\ w' = "nil"
    /\ file' = Flushed /\ gz' = <<>>
    /\ UNCHANGED <<exists, faults>>

\* Every later Close of a failed gzip writer fails as well, and so does that of
\* the file: f.f stays set, and nothing opens it anew.
closeErr ==
    \/ /\ w \in {"failed", "closed"}
       /\ UNCHANGED <<w, gz, exists, file, faults>>
    \/ /\ w = "open"
       /\ Fault("disk")
       /\ \/ w' = "failed" /\ \E p \in TornPrefixes(gz) : file' = file \o p
          \/ w' = "closed" /\ file' = Flushed
       /\ gz' = <<>>
       /\ UNCHANGED exists

Close ==
    /\ \/ closeOK /\ ret' = "ok"
       \/ closeErr /\ ret' = "error"
    /\ UNCHANGED <<call, history>>

-----------------------------------------------------------------------------
(* HasData *)

\* The size of the file, as far as it is known: the header of an open stream is
\* in it, unless it has been truncated since.
Sizes ==
    IF gz = <<>> THEN {Len(file)}
    ELSE IF Head(gz) = Garbage THEN {Len(file), Len(file) + 1}
    ELSE {Len(file) + 1}

\* It only looks at the size, and leaves the stream open.
HasData ==
    /\ \/ \E n \in Sizes : ret' = (IF exists /\ n > 0 THEN "true" ELSE "false") /\ UNCHANGED faults
       \/ Fault("disk") /\ ret' = "error"
    /\ UNCHANGED <<w, gz, exists, file, call, history>>

-----------------------------------------------------------------------------
(* Reader *)

ReaderClose ==
    /\ call = "none"
    /\ \/ closeOK /\ call' = "closed" /\ found' = Readable(file') /\ UNCHANGED ret
       \/ closeErr /\ Return("error") /\ UNCHANGED found
    /\ UNCHANGED <<consumed, written, overlapped>>

\* The mutex is free from here on.  Open and Stat; an empty file is truncated too.
ReaderOpen ==
    /\ call = "closed"
    /\ \/ ~exists /\ Return("ok") /\ UNCHANGED faults
       \/ exists /\ (\E n \in Sizes : call' = IF n > 0 THEN "opened" ELSE "empty")
                 /\ UNCHANGED <<ret, faults>>
       \/ Fault("disk") /\ Return("error")
    /\ UNCHANGED <<w, gz, exists, file, history>>

\* The callback sees the file, and of a stream opened meanwhile what it has
\* written through.
ReaderFnOK ==
    /\ call = "opened"
    /\ \E n \in 0..Len(gz) : consumed' = consumed \cup Readable(file \o SubSeq(gz, 1, n))
    /\ call' = "accepted"
    /\ UNCHANGED <<w, gz, exists, file, ret, found, written, overlapped, faults>>
\* Mutant: the file is truncated although the callback failed.
MutReaderFnErr ==
    /\ call = "opened"
    /\ file' = <<>>
    /\ Return("error")
    /\ UNCHANGED <<w, gz, exists, history, faults>>

ReaderFnErr ==
    /\ call = "opened"
    /\ Return("error")
    /\ UNCHANGED <<w, gz, exists, file, history, faults>>
\* Mutant: the file is not truncated.
MutReaderTruncate ==
    /\ call \in {"accepted", "empty"}
    /\ Return("ok")
    /\ UNCHANGED <<w, gz, exists, file, history, faults>>

\* Everything in the file goes, the header of a stream opened meanwhile included:
\* what is in that stream, and what will be, cannot be decoded any more.
ReaderTruncate ==
    /\ call \in {"accepted", "empty"}
    /\ \/ /\ file' = <<>>
          /\ gz' = IF gz = <<>> THEN gz ELSE <<Garbage>>
          /\ Return("ok")
          /\ UNCHANGED faults
       \/ /\ Fault("disk")
          /\ Return(IF call = "accepted" THEN "error" ELSE "ok")
          /\ UNCHANGED <<file, gz>>
    /\ UNCHANGED <<w, exists, history>>

Reader == ReaderClose \/ ReaderOpen \/ ReaderFnOK \/ ReaderFnErr \/ ReaderTruncate

-----------------------------------------------------------------------------
\* The process dies and starts anew.
Crash ==
    /\ Fault("crash")
    /\ \/ gz = <<>> /\ UNCHANGED file
       \/ gz # <<>> /\ \E p \in TornPrefixes(gz) : file' = file \o p
    /\ w' = "nil" /\ gz' = <<>>
    /\ Return("none")
    /\ UNCHANGED <<exists, history>>

Next ==
    \/ \E e \in Entry : Write(e)
    \/ HasData
    \/ Reader
    \/ Close
    \/ Crash

Spec == Init /\ [][Next]_vars

-----------------------------------------------------------------------------
(* Properties *)

\* Every variable has its type: among others, what is on disk is a sequence of
\* entries and of parts that cannot be decoded.
TypeOK ==
    /\ w \in {"nil", "open", "failed", "closed"}
    /\ gz \in Seq(Chunk) /\ exists \in BOOLEAN /\ file \in Seq(Chunk)
    /\ call \in {"none", "closed", "opened", "accepted", "empty"}
    /\ ret \in {"none", "ok", "error", "true", "false"}
    /\ found \subseteq Entry /\ consumed \subseteq Entry /\ written \subseteq Entry
    /\ overlapped \in BOOLEAN /\ faults \in Nat

\* As long as no Write comes between the steps of a Reader, no entry that Write
\* accepted is lost: it is in the stream, in the file, or accepted by a callback.
\* And whatever comes between those steps, the entries that the Reader found in
\* the file are not lost by its Truncate or by a failing callback.
NoLoss ==
    faults = 0 =>
        /\ ~overlapped => written \subseteq Stored \cup consumed
        /\ found \subseteq Readable(file) \cup consumed

\* An entry a callback accepted is not in the buffer any more when Reader has
\* returned, also if it was written while the Reader ran.
NoRedelivery == faults = 0 /\ call # "accepted" => consumed \cap Stored = {}

\* HasData says whether there is something to read, although it does not flush
\* the stream and sees nothing but the size of the file.
HasDataTells ==
    faults = 0 /\ ~overlapped /\ call = "none" /\ ret \in {"true", "false"} =>
        (ret = "true" <=> Stored # {})

\* Callers that keep Write and Reader apart, as the instance's one worker does,
\* get a FallbackStore.
Store == INSTANCE FallbackStore WITH
    stored <- Stored \ consumed, taken <- consumed, faulty <- faults > 0 \/ overlapped

ImplementsStore == Store!Spec

=============================================================================
