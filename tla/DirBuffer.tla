------------------------------ MODULE DirBuffer ------------------------------
(***************************************************************************)
(* The disk based ping-pong buffer of fallback/dir_buffer.go.              *)
(*                                                                         *)
(* Two files take turns: Write appends to the file named by wName through  *)
(* a gzip stream, Reader swaps the names and hands the file that has just  *)
(* become the read file to a callback, truncating it when the callback     *)
(* succeeds.  Write and the body of Reader run concurrently; HasData,      *)
(* switchFiles and Close exclude writers with the mutex.                   *)
(*                                                                         *)
(* A file is a sequence of entries and garbage (module BufferFile).        *)
(***************************************************************************)
EXTENDS BufferFile

CONSTANTS
    FaultKinds,  \* the faults that may happen, a subset of {"disk", "crash"}
    MaxFaults    \* bound on their number

ASSUME DirBufferAssumption ==
    /\ Garbage \notin Entry
    /\ FaultKinds \subseteq {"disk", "crash"}
    /\ MaxFaults \in Nat

VARIABLES
    rName, wName,  \* the names of the two files, in their present roles
    read, write,   \* the open files, or NoFile
    gz,            \* entries in the gzip stream, not yet certainly on disk
    gzErr,         \* the gzip writer has failed; its error is permanent
    exists,        \* the files that have been created
    disk,          \* the contents of the files
    call,          \* progress of the call of HasData or Reader under way
    ret,           \* the result of the last such call
    consumed,      \* entries handed to a callback that accepted them (history)
    written,       \* entries a Write accepted (history)
    faults         \* number of faults so far (history, bounded)

files == <<read, write, gz, gzErr, exists, disk>>
vars == <<rName, wName, files, call, ret, consumed, written, faults>>

File == {"ping", "pong"}
NoFile == "nil"
Calls == {"none", "merging", "copied", "switched", "opened", "accepted"}
Results == {"none", "ok", "error", "true", "false", "true_error"}

-----------------------------------------------------------------------------
OnDisk == UNION {Readable(disk[f]) : f \in File}

\* What the buffer holds: what can be decoded from the files, and what is in
\* the gzip stream.
Stored == OnDisk \cup (Range(gz) \ {Garbage})

\* Mutant: the written sequence becomes one element of the file.
MutAppended(f, s) == [disk EXCEPT ![f] = Append(@, s)]

Appended(f, s) == [disk EXCEPT ![f] = @ \o s]

\* The disk after the gzip stream has been flushed.
Flushed == IF write = NoFile THEN disk ELSE Appended(write, gz)

Fault(kind) ==
    /\ kind \in FaultKinds
    /\ faults < MaxFaults
    /\ faults' = faults + 1

Return(r) == call' = "none" /\ ret' = r

\* HasData holds the mutex through the merge of the two files.
MutexFree == call \notin {"merging", "copied"}

-----------------------------------------------------------------------------
(* NewDirBuffer *)

Init ==
    /\ rName = "ping" /\ wName = "pong"
    /\ read = NoFile /\ write = NoFile
    /\ gz = <<>> /\ gzErr = FALSE
    /\ call = "none" /\ ret = "none"
    /\ exists = {}
    /\ disk = [f \in File |-> <<>>]
    /\ consumed = {} /\ written = {} /\ faults = 0

\* A new process opens the directory: the files are there, the roles are not.
NewDirBuffer ==
    /\ rName' = "ping" /\ wName' = "pong"
    /\ read' = NoFile /\ write' = NoFile
    /\ gz' = <<>> /\ gzErr' = FALSE
    /\ call' = "none" /\ ret' = "none"

-----------------------------------------------------------------------------
(* close: closeReadFile, then closeWriteFile *)
\* Mutant: the gzip stream is dropped instead of flushed.
MutcloseOK ==
    /\ ~gzErr
    /\ read' = NoFile /\ write' = NoFile
    /\ gz' = <<>>
    /\ UNCHANGED <<gzErr, exists, disk, faults>>

closeOK ==
    /\ ~gzErr
    /\ read' = NoFile /\ write' = NoFile
    /\ gz' = <<>> /\ disk' = Flushed
    /\ UNCHANGED <<gzErr, exists, faults>>

\* A failed gzip writer fails every later Close of it, and the write file
\* stays open.
closeSticky ==
    /\ gzErr
    /\ read' = NoFile
    /\ UNCHANGED <<write, gz, gzErr, exists, disk, faults>>

\* Flushing fails, with a part of the stream on disk ...
closeFlushFails ==
    /\ ~gzErr /\ write # NoFile
    /\ Fault("disk")
    /\ read' = NoFile
    /\ \E p \in TornPrefixes(gz) : disk' = Appended(write, p)
    /\ gz' = <<>> /\ gzErr' = TRUE
    /\ UNCHANGED <<write, exists>>

\* ... or the file's own Close does, after the flush.
closeFileFails ==
    /\ ~gzErr /\ write # NoFile
    /\ Fault("disk")
    /\ read' = NoFile /\ write' = NoFile
    /\ gz' = <<>> /\ disk' = Flushed
    /\ UNCHANGED <<gzErr, exists>>

\* The read file's Close fails, where a failed merge has left that file open: the
\* write file is not closed then.
closeReadFails ==
    /\ read # NoFile
    /\ Fault("disk")
    /\ read' = NoFile
    /\ UNCHANGED <<write, gz, gzErr, exists, disk>>

closeErr == closeSticky \/ closeFlushFails \/ closeFileFails \/ closeReadFails

-----------------------------------------------------------------------------
(* Write *)

\* The chunk c goes into the gzip stream; the write file is opened, and
\* created, at the first Write after a close.
WriteOK(c) ==
    /\ MutexFree
    /\ ~gzErr
    /\ write' = IF write = NoFile THEN wName ELSE write
    /\ exists' = exists \cup {write'}
    /\ gz' = Append(gz, c)
    /\ UNCHANGED <<rName, wName, read, gzErr, disk, call, ret>>

\* The write file could not be opened.
WriteOpenFails ==
    /\ MutexFree
    /\ write = NoFile
    /\ Fault("disk")
    /\ UNCHANGED <<rName, wName, files, call, ret>>

\* The gzip writer hits an error while it writes through to the file ...
WriteThroughFails(c) ==
    /\ MutexFree
    /\ ~gzErr
    /\ Fault("disk")
    /\ write' = IF write = NoFile THEN wName ELSE write
    /\ exists' = exists \cup {write'}
    /\ \E p \in TornPrefixes(Append(gz, c)) : disk' = Appended(write', p)
    /\ gz' = <<>> /\ gzErr' = TRUE
    /\ UNCHANGED <<rName, wName, read, call, ret>>

\* ... and refuses everything from then on.
WriteRefused ==
    /\ MutexFree
    /\ gzErr
    /\ UNCHANGED <<rName, wName, files, call, ret, faults>>

Write(e) ==
    /\ e \notin written
    /\ \/ WriteOK(e) /\ written' = written \cup {e} /\ UNCHANGED faults
       \/ (WriteOpenFails \/ WriteThroughFails(e) \/ WriteRefused) /\ UNCHANGED written
    /\ UNCHANGED consumed

-----------------------------------------------------------------------------
(* HasData *)

\* The files are closed and their sizes compared.
HasDataNothing ==
    /\ call = "none"
    /\ closeOK
    /\ \A f \in File : disk'[f] = <<>>
    /\ Return("false")
    /\ UNCHANGED <<rName, wName>>

HasDataInWrite ==
    /\ call = "none"
    /\ closeOK
    /\ disk'[wName] # <<>> /\ disk'[rName] = <<>>
    /\ Return("true")
    /\ UNCHANGED <<rName, wName>>
\* Mutant: the names are not swapped.
MutHasDataInRead ==
    /\ call = "none"
    /\ closeOK
    /\ disk'[wName] = <<>> /\ disk'[rName] # <<>>
    /\ Return("true")
    /\ UNCHANGED <<rName, wName>>

\* The data is in the "wrong" file: the names are swapped.
HasDataInRead ==
    /\ call = "none"
    /\ closeOK
    /\ disk'[wName] = <<>> /\ disk'[rName] # <<>>
    /\ Return("true")
    /\ rName' = wName /\ wName' = rName

\* Both files have data: both are opened, to copy the read file behind the
\* write file.  The copy goes to the file itself, not through gzip.
HasDataInBoth ==
    /\ call = "none"
    /\ ~gzErr
    /\ Flushed[wName] # <<>> /\ Flushed[rName] # <<>>
    /\ disk' = Flushed /\ gz' = <<>>
    /\ \/ /\ read' = rName /\ write' = wName
          /\ call' = "merging"
          /\ UNCHANGED <<ret, faults>>
       \/ /\ Fault("disk")                  \* opening one of them fails
          /\ read' \in {NoFile, rName} /\ write' = NoFile
          /\ Return("true_error")
    /\ UNCHANGED <<rName, wName, gzErr, exists>>

HasDataCloseErr ==
    /\ call = "none"
    /\ closeErr
    /\ Return("error")
    /\ UNCHANGED <<rName, wName>>

\* Mutant: the error of io.Copy is ignored.
MutHasDataCopy ==
    /\ call = "merging"
    /\ \E p \in TornPrefixes(disk[read]) \cup {disk[read]} : disk' = Appended(write, p)
    /\ call' = "copied"
    /\ UNCHANGED <<rName, wName, read, write, gz, gzErr, exists, ret, faults>>

HasDataCopy ==
    /\ call = "merging"
    /\ \/ /\ disk' = Appended(write, disk[read])
          /\ call' = "copied"
          /\ UNCHANGED <<ret, faults>>
       \/ /\ Fault("disk")                  \* io.Copy stops half way
          /\ \E p \in TornPrefixes(disk[read]) : disk' = Appended(write, p)
          /\ Return("true_error")
    /\ UNCHANGED <<rName, wName, read, write, gz, gzErr, exists>>
\* Mutant: the merge truncates the file it has just copied to.
MutHasDataTruncate ==
    /\ call = "copied"
    /\ disk' = [disk EXCEPT ![write] = <<>>]
    /\ read' = NoFile /\ write' = NoFile
    /\ Return("true")
    /\ UNCHANGED <<rName, wName, gz, gzErr, exists, faults>>

\* The read file is truncated and both are closed; closing the gzip writer
\* appends an empty member, which decodes to nothing.
HasDataTruncate ==
    /\ call = "copied"
    /\ \/ /\ disk' = [disk EXCEPT ![read] = <<>>]
          /\ read' = NoFile /\ write' = NoFile
          /\ Return("true")
          /\ UNCHANGED <<gzErr, faults>>
       \/ /\ Fault("disk")                  \* Truncate fails, both stay open
          /\ Return("true_error")
          /\ UNCHANGED <<read, write, gzErr, disk>>
       \/ /\ Fault("disk")                  \* the read file's Close fails
          /\ disk' = [disk EXCEPT ![read] = <<>>]
          /\ read' = NoFile
          /\ Return("true_error")
          /\ UNCHANGED <<write, gzErr>>
       \/ /\ Fault("disk")                  \* the gzip writer's Close fails
          /\ disk' = [disk EXCEPT ![read] = <<>>, ![write] = @ \o <<Garbage>>]
          /\ read' = NoFile /\ gzErr' = TRUE
          /\ Return("true_error")
          /\ UNCHANGED write
       \/ /\ Fault("disk")                  \* the write file's Close fails
          /\ disk' = [disk EXCEPT ![read] = <<>>]
          /\ read' = NoFile /\ write' = NoFile
          /\ Return("true_error")
          /\ UNCHANGED gzErr
    /\ UNCHANGED <<rName, wName, gz, exists>>

HasData ==
    /\ \/ HasDataNothing \/ HasDataInWrite \/ HasDataInRead \/ HasDataInBoth
       \/ HasDataCloseErr \/ HasDataCopy \/ HasDataTruncate
    /\ UNCHANGED <<consumed, written>>

-----------------------------------------------------------------------------
(* Reader *)
\* Mutant: the names are swapped with the write file still open.
MutReaderSwitch ==
    /\ call = "none"
    /\ rName' = wName /\ wName' = rName
    /\ call' = "switched"
    /\ UNCHANGED <<files, ret, consumed, written, faults>>

\* switchFiles: close, and swap the names.  The mutex is free from here on.
ReaderSwitch ==
    /\ call = "none"
    /\ \/ closeOK /\ rName' = wName /\ wName' = rName /\ call' = "switched" /\ UNCHANGED ret
       \/ closeErr /\ Return("error") /\ UNCHANGED <<rName, wName>>
    /\ UNCHANGED <<consumed, written>>

\* ensureReadFile does not create the file.
ReaderOpen ==
    /\ call = "switched"
    /\ \/ /\ rName \in exists
          /\ read' = rName
          /\ call' = "opened"
          /\ UNCHANGED <<ret, faults>>
       \/ /\ (rName \notin exists /\ UNCHANGED faults) \/ Fault("disk")
          /\ Return("error")
          /\ UNCHANGED read
    /\ UNCHANGED <<rName, wName, write, gz, gzErr, exists, disk, consumed, written>>
\* Mutant: the file is truncated although the callback failed.
MutReaderFnErr ==
    /\ call = "opened"
    /\ disk' = [disk EXCEPT ![read] = <<>>]
    /\ read' = NoFile
    /\ Return("error")
    /\ UNCHANGED <<rName, wName, write, gz, gzErr, exists, consumed, written, faults>>

\* The callback fails: the file keeps its content.
ReaderFnErr ==
    /\ call = "opened"
    /\ read' = NoFile
    /\ Return("error")
    /\ UNCHANGED <<rName, wName, write, gz, gzErr, exists, disk, consumed, written, faults>>

ReaderFnOK ==
    /\ call = "opened"
    /\ consumed' = consumed \cup Readable(disk[read])
    /\ call' = "accepted"
    /\ UNCHANGED <<rName, wName, files, ret, written, faults>>
\* Mutant: the file is not truncated.
MutReaderTruncate ==
    /\ call = "accepted"
    /\ read' = NoFile
    /\ Return("ok")
    /\ UNCHANGED <<rName, wName, write, gz, gzErr, exists, disk, consumed, written, faults>>

ReaderTruncate ==
    /\ call = "accepted"
    /\ \/ disk' = [disk EXCEPT ![read] = <<>>] /\ Return("ok") /\ UNCHANGED faults
       \/ Fault("disk") /\ Return("error") /\ UNCHANGED disk
    /\ read' = NoFile
    /\ UNCHANGED <<rName, wName, write, gz, gzErr, exists, consumed, written>>

Reader == ReaderSwitch \/ ReaderOpen \/ ReaderFnErr \/ ReaderFnOK \/ ReaderTruncate

-----------------------------------------------------------------------------
\* Close is called when no Reader runs: Instance.Close waits for its worker.
Close ==
    /\ call = "none"
    /\ \/ closeOK /\ ret' = "ok"
       \/ closeErr /\ ret' = "error"
    /\ UNCHANGED <<rName, wName, call, consumed, written>>

\* The process dies and starts anew.  Of an open gzip stream a part is on
\* disk, its end torn; of an interrupted merge a part of the copy.
Crash ==
    /\ Fault("crash")
    /\ \/ gz = <<>> /\ disk' = disk
       \/ gz # <<>> /\ \E p \in TornPrefixes(gz) : disk' = Appended(write, p)
       \/ call = "merging" /\ \E p \in TornPrefixes(disk[read]) : disk' = Appended(write, p)
    /\ NewDirBuffer
    /\ UNCHANGED <<exists, consumed, written>>

Next ==
    \/ \E e \in Entry : Write(e)
    \/ HasData
    \/ Reader
    \/ Close
    \/ Crash

Spec == Init /\ [][Next]_vars

-----------------------------------------------------------------------------
(* Properties *)

\* Every variable has its type: among others, what is on disk is a sequence of
\* entries and of parts that cannot be decoded.
TypeOK ==
    /\ rName \in File /\ wName \in File
    /\ read \in File \cup {NoFile} /\ write \in File \cup {NoFile}
    /\ gz \in Seq(Chunk) /\ gzErr \in BOOLEAN
    /\ exists \subseteq File
    /\ disk \in [File -> Seq(Chunk)]
    /\ call \in Calls /\ ret \in Results
    /\ consumed \subseteq Entry /\ written \subseteq Entry
    /\ faults \in Nat

\* However Write interleaves with HasData and Reader, every entry that Write
\* accepted is in the gzip stream, decodable from one of the two files, or
\* has been accepted by a Reader callback (as long as no disk operation
\* failed and the process did not die).
NoLoss == faults = 0 => written \subseteq Stored \cup consumed

\* Between calls, an entry that a callback accepted is not in the buffer any
\* more, so no later Reader hands it out again.
NoRedelivery == faults = 0 /\ call # "accepted" => consumed \cap Stored = {}

\* While a callback has the read file, no Write goes to that file: the
\* Truncate at the end of Reader erases only what the callback has seen.
\* This is what allows Reader to release the mutex.  It holds with any
\* number of failed disk operations and crashes.
ReadFileQuiet ==
    call \in {"switched", "opened", "accepted"} =>
        /\ write # rName
        /\ read \in {NoFile, rName}

\* When HasData has reported data, all of it is in the write file, which the
\* next Reader swaps in; when it has reported none there is none.
HasDataGathers ==
    faults = 0 /\ write = NoFile =>
        /\ ret = "true" /\ call = "none" => disk[rName] = <<>> /\ disk[wName] # <<>>
        /\ ret = "false" /\ call = "none" => Stored = {}

\* An entry that can be decoded from the files stays so until a callback has
\* accepted it, whatever calls and faults follow.
DurableKept == [][OnDisk \subseteq OnDisk' \cup consumed']_vars

\* The merge copies, then truncates what it has copied, and any step may fail
\* or be the process's last.  The only readable entries that ever leave the
\* files without a callback's consent are those of a merge that copied them
\* behind a part that was torn before (the case of DurableKept).
TornBefore ==
    /\ call = "copied"
    /\ Garbage \in Range(SubSeq(disk[write], 1, Len(disk[write]) - Len(disk[read])))

MergeKeeps == [][TornBefore \/ OnDisk \subseteq OnDisk' \cup consumed']_vars

\* The buffer implements FallbackStore: the two files, their swaps, the merge
\* and the gzip stream together behave like one set of entries.
Store == INSTANCE FallbackStore WITH
    stored <- Stored \ consumed, taken <- consumed, faulty <- faults > 0

ImplementsStore == Store!Spec

=============================================================================
