--------------------------- MODULE DirBufferProofs ---------------------------
(***************************************************************************)
(* Proofs about DirBuffer, for any set of entries and any faults: its type *)
(* invariant, that a callback and a Write never share a file, and that no  *)
(* entry is lost or handed out twice, and that it implements FallbackStore.*)
(***************************************************************************)
EXTENDS DirBuffer, SequenceLemmas

-----------------------------------------------------------------------------
(* The content of the files *)

LEMMA ReadableIs ==
    \A s : Readable(s) = Until(s, Garbage)
BY DEF Readable, Until

LEMMA EmptySequence ==
    Range(<<>>) = {} /\ Readable(<<>>) = {} /\ \A S : <<>> \in Seq(S)
BY DEF Range, Readable

\* Without garbage everything in a file can be decoded.
LEMMA ReadableClean ==
    ASSUME NEW s \in Seq(Chunk), Garbage \notin Range(s)
    PROVE  Readable(s) = Range(s)
BY ReadableIs, UntilNone, Zenon

LEMMA ReadableInRange ==
    ASSUME NEW s \in Seq(Chunk)
    PROVE  Readable(s) \subseteq Range(s) \ {Garbage} /\ Readable(s) \subseteq Entry
<1>1. Readable(s) \subseteq Range(s) \ {Garbage} /\ Readable(s) \subseteq Chunk \ {Garbage} BY ReadableIs, UntilRange, Zenon
<1> QED BY <1>1 DEF Chunk

\* What can be decoded behind an append could be decoded before, or is what the
\* appended content decodes to by itself.
LEMMA ReadableConcat ==
    ASSUME NEW s \in Seq(Chunk), NEW t \in Seq(Chunk)
    PROVE  Readable(s \o t) \subseteq Readable(s) \cup Readable(t)
BY ReadableIs, UntilConcat, Zenon

\* Content behind an append can be decoded as before.
LEMMA AppendKeeps ==
    ASSUME NEW s \in Seq(Chunk), NEW t \in Seq(Chunk)
    PROVE  Readable(s) \subseteq Readable(s \o t)
BY ReadableIs, UntilKeeps, Zenon

LEMMA PrefixReadable ==
    ASSUME NEW s \in Seq(Chunk), NEW n \in 0..Len(s)
    PROVE  Readable(SubSeq(s, 1, n)) \subseteq Readable(s)
BY ReadableIs, UntilPrefix, Zenon

\* An interrupted write leaves at most what a complete one leaves.
LEMMA TornContent ==
    ASSUME NEW s \in Seq(Chunk), NEW p \in TornPrefixes(s)
    PROVE  p \in Seq(Chunk) /\ Readable(p) \subseteq Readable(s)
<1>1. PICK n \in 0..Len(s) : p = SubSeq(s, 1, n) \o <<Garbage>> BY DEF TornPrefixes
<1>2. SubSeq(s, 1, n) \in Seq(Chunk) /\ <<Garbage>> \in Seq(Chunk) BY DEF Chunk
<1>3. Readable(SubSeq(s, 1, n)) \subseteq Readable(s) BY PrefixReadable
<1>4. Readable(<<Garbage>>) = {} BY DEF Readable
<1>5. SubSeq(s, 1, n) \o <<Garbage>> \in Seq(Chunk) BY <1>2, RangeConcat, Zenon
<1>6. Readable(SubSeq(s, 1, n) \o <<Garbage>>) \subseteq Readable(s)
    BY <1>2, <1>3, <1>4, ReadableConcat, Zenon
<1> QED BY <1>1, <1>5, <1>6, Zenon

-----------------------------------------------------------------------------
(* Types and the roles of the files *)

\* The two names differ; only the file named by wName is open for writing, and
\* a running Reader has only the one named by rName open; nothing is in the
\* gzip stream unless it has a file; the merge works on a fresh stream.
Roles ==
    /\ rName # wName
    /\ write \in {NoFile, wName}
    /\ read \in {NoFile, rName}
    /\ write = NoFile => gz = <<>> /\ ~gzErr
    /\ call \in {"opened", "accepted"} => read = rName
    /\ call \in {"merging", "copied"} =>
          read = rName /\ write = wName /\ gz = <<>> /\ ~gzErr

Inv == TypeOK /\ Roles

LEMMA AppendedType ==
    ASSUME TypeOK, NEW f \in File, NEW s \in Seq(Chunk)
    PROVE  Appended(f, s) \in [File -> Seq(Chunk)]
<1>1. disk[f] \o s \in Seq(Chunk) BY DEF TypeOK
<1> QED BY <1>1 DEF TypeOK, Appended

LEMMA FlushedType ==
    ASSUME TypeOK
    PROVE  Flushed \in [File -> Seq(Chunk)]
BY AppendedType DEF TypeOK, Flushed

LEMMA TornType ==
    ASSUME TypeOK, NEW f \in File, NEW s \in Seq(Chunk), NEW p \in TornPrefixes(s)
    PROVE  Appended(f, p) \in [File -> Seq(Chunk)]
BY TornContent, AppendedType

LEMMA TruncateType ==
    ASSUME TypeOK, NEW f \in File
    PROVE  [disk EXCEPT ![f] = <<>>] \in [File -> Seq(Chunk)]
BY EmptySequence DEF TypeOK

LEMMA FaultType ==
    ASSUME TypeOK, NEW k, Fault(k)
    PROVE  faults' \in Nat /\ faults' > 0
BY DEF TypeOK, Fault

\* close, successful or not, keeps the types and leaves no read file; a write
\* file stays open only when it fails.
LEMMA CloseRoles ==
    ASSUME Inv, closeOK \/ closeErr
    PROVE  /\ read' = NoFile
           /\ write' \in {NoFile, write}
           /\ gz' \in Seq(Chunk) /\ gzErr' \in BOOLEAN
           /\ write' = NoFile => gz' = <<>> /\ ~gzErr'
           /\ exists' = exists
           /\ disk' \in [File -> Seq(Chunk)]
           /\ faults' \in Nat
           /\ closeOK => write' = NoFile
<1> USE DEF Inv
<1>1. CASE closeOK
    BY <1>1, FlushedType, EmptySequence DEF closeOK, TypeOK
<1>2. CASE closeSticky
    BY <1>2 DEF closeSticky, closeOK, TypeOK, Roles
<1>3. CASE closeFlushFails
  <2>1. write \in File BY <1>3 DEF closeFlushFails, TypeOK
  <2>2. gz \in Seq(Chunk) BY DEF TypeOK
  <2>3. disk' \in [File -> Seq(Chunk)] BY <1>3, <2>1, <2>2, TornType DEF closeFlushFails
  <2>4. faults' \in Nat BY <1>3, FaultType DEF closeFlushFails
  <2> QED BY <1>3, <2>3, <2>4, EmptySequence DEF closeFlushFails, closeOK, TypeOK
<1>4. CASE closeFileFails
  <2>1. faults' \in Nat BY <1>4, FaultType DEF closeFileFails
  <2> QED BY <1>4, <2>1, FlushedType, EmptySequence DEF closeFileFails, TypeOK
<1>5. CASE closeReadFails
  <2>1. faults' \in Nat BY <1>5, FaultType DEF closeReadFails
  <2> QED BY <1>5, <2>1, EmptySequence DEF closeReadFails, closeOK, TypeOK, Roles
<1> QED BY <1>1, <1>2, <1>3, <1>4, <1>5 DEF closeErr

LEMMA InitInv == Init => Inv
<1> SUFFICES ASSUME Init PROVE Inv OBVIOUS
<1>1. gz \in Seq(Chunk) /\ disk \in [File -> Seq(Chunk)]
    BY EmptySequence DEF Init
<1>2. TypeOK BY <1>1 DEF Init, TypeOK, File, Calls, Results
<1>3. Roles BY DEF Init, Roles, NoFile
<1> QED BY <1>2, <1>3 DEF Inv

LEMMA WriteInv ==
    ASSUME Inv, NEW e \in Entry, Write(e)
    PROVE  Inv'
<1> USE DEF Inv
<1>0. e \in Chunk BY DEF Chunk
<1>1. CASE WriteOK(e) /\ written' = written \cup {e} /\ UNCHANGED faults
  <2>1. gz' \in Seq(Chunk) BY <1>0, <1>1, RangeAppend DEF WriteOK, TypeOK
  <2>2. write' = wName /\ wName \in File /\ wName # NoFile
      BY <1>1 DEF WriteOK, TypeOK, Roles, File, NoFile
  <2>3. TypeOK' BY <1>1, <2>1, <2>2 DEF WriteOK, TypeOK, Write
  <2>4. Roles' BY <1>1, <2>2 DEF WriteOK, Roles, MutexFree
  <2> QED BY <2>3, <2>4
<1>2. CASE WriteOpenFails /\ UNCHANGED written
  <2>1. faults' \in Nat BY <1>2, FaultType DEF WriteOpenFails
  <2> QED BY <1>2, <2>1 DEF WriteOpenFails, TypeOK, Roles, files, Write
<1>3. CASE WriteThroughFails(e) /\ UNCHANGED written
  <2>1. faults' \in Nat BY <1>3, FaultType DEF WriteThroughFails
  <2>2. write' = wName /\ wName \in File /\ wName # NoFile
      BY <1>3 DEF WriteThroughFails, TypeOK, Roles, File, NoFile
  <2>3. Append(gz, e) \in Seq(Chunk) BY <1>0, RangeAppend DEF TypeOK
  <2>4. disk' \in [File -> Seq(Chunk)]
      BY <1>3, <2>2, <2>3, TornType DEF WriteThroughFails
  <2>5. TypeOK' BY <1>3, <2>1, <2>2, <2>4, EmptySequence DEF WriteThroughFails, TypeOK, Write
  <2>6. Roles' BY <1>3, <2>2 DEF WriteThroughFails, Roles, MutexFree
  <2> QED BY <2>5, <2>6
<1>4. CASE WriteRefused /\ UNCHANGED written
  BY <1>4 DEF WriteRefused, TypeOK, Roles, files, Write
<1> QED BY <1>1, <1>2, <1>3, <1>4 DEF Write

LEMMA HasDataInv ==
    ASSUME Inv, HasData
    PROVE  Inv'
<1> USE DEF Inv
<1>a. consumed' = consumed /\ written' = written BY DEF HasData
<1>b. /\ {"true", "false", "error", "true_error"} \subseteq Results
      /\ {"none", "merging", "copied"} \subseteq Calls
    BY DEF Results, Calls
<1>1. CASE HasDataNothing \/ HasDataInWrite \/ HasDataInRead \/ HasDataCloseErr
  <2>1. closeOK \/ closeErr
      BY <1>1 DEF HasDataNothing, HasDataInWrite, HasDataInRead, HasDataCloseErr
  <2>2. closeOK \/ (rName' = rName /\ wName' = wName)
      BY <1>1 DEF HasDataNothing, HasDataInWrite, HasDataInRead, HasDataCloseErr
  <2>3. /\ call' = "none" /\ ret' \in Results
        /\ <<rName', wName'>> \in {<<rName, wName>>, <<wName, rName>>}
      BY <1>1, <1>b
      DEF HasDataNothing, HasDataInWrite, HasDataInRead, HasDataCloseErr, Return
  <2>4. TypeOK' BY <1>a, <1>b, <2>1, <2>3, CloseRoles DEF TypeOK
  <2>5. Roles' BY <2>1, <2>2, <2>3, CloseRoles DEF Roles
  <2> QED BY <2>4, <2>5
<1>2. CASE HasDataInBoth
  <2>1. disk' \in [File -> Seq(Chunk)] BY <1>2, FlushedType DEF HasDataInBoth
  <2>2. CASE read' = rName /\ write' = wName /\ call' = "merging" /\ UNCHANGED <<ret, faults>>
    BY <1>a, <1>b, <1>2, <2>1, <2>2, EmptySequence DEF HasDataInBoth, TypeOK, Roles
  <2>3. CASE /\ Fault("disk") /\ read' \in {NoFile, rName} /\ write' = NoFile
             /\ Return("true_error")
    <3>1. faults' \in Nat BY <2>3, FaultType
    <3> QED BY <1>a, <1>b, <1>2, <2>1, <2>3, <3>1, EmptySequence
            DEF HasDataInBoth, TypeOK, Roles, Return
  <2> QED BY <1>2, <2>2, <2>3 DEF HasDataInBoth
<1>3. CASE HasDataCopy
  <2>0. read \in File /\ write \in File BY <1>3 DEF HasDataCopy, TypeOK, Roles
  <2>1. disk[read] \in Seq(Chunk) BY <2>0 DEF TypeOK
  <2>2. CASE disk' = Appended(write, disk[read]) /\ call' = "copied" /\ UNCHANGED <<ret, faults>>
    BY <1>a, <1>b, <1>3, <2>0, <2>1, <2>2, AppendedType DEF HasDataCopy, TypeOK, Roles
  <2>3. CASE /\ Fault("disk") /\ Return("true_error")
             /\ \E p \in TornPrefixes(disk[read]) : disk' = Appended(write, p)
    <3>1. disk' \in [File -> Seq(Chunk)] BY <2>0, <2>1, <2>3, TornType
    <3>2. faults' \in Nat BY <2>3, FaultType
    <3> QED BY <1>a, <1>b, <1>3, <2>3, <3>1, <3>2 DEF HasDataCopy, TypeOK, Roles, Return
  <2> QED BY <1>3, <2>2, <2>3 DEF HasDataCopy
<1>4. CASE HasDataTruncate
  <2>0. read \in File /\ write \in File BY <1>4 DEF HasDataTruncate, TypeOK, Roles
  <2>1. call' = "none" /\ ret' \in Results BY <1>4, <1>b DEF HasDataTruncate, Return
  <2>2. faults' \in Nat BY <1>4, FaultType DEF HasDataTruncate, TypeOK
  <2>3. [disk EXCEPT ![read] = <<>>] \in [File -> Seq(Chunk)] BY <2>0, TruncateType
  <2>4. disk[write] \o <<Garbage>> \in Seq(Chunk) BY <2>0 DEF TypeOK, Chunk
  <2>5. [disk EXCEPT ![read] = <<>>, ![write] = @ \o <<Garbage>>] \in [File -> Seq(Chunk)]
      BY <2>0, <2>3, <2>4, <1>4 DEF HasDataTruncate, TypeOK, Roles
  <2>6. disk' \in [File -> Seq(Chunk)] BY <1>4, <2>3, <2>5 DEF HasDataTruncate, TypeOK
  <2>7. TypeOK' BY <1>4, <1>a, <1>b, <2>1, <2>2, <2>6 DEF HasDataTruncate, TypeOK
  <2>8. Roles' BY <1>4, <2>0, <2>1 DEF HasDataTruncate, Roles, File, NoFile
  <2> QED BY <2>7, <2>8
<1> QED BY <1>1, <1>2, <1>3, <1>4 DEF HasData

LEMMA ReaderInv ==
    ASSUME Inv, Reader
    PROVE  Inv'
<1> USE DEF Inv
<1>b. {"ok", "error"} \subseteq Results /\ {"none", "switched", "opened", "accepted"} \subseteq Calls
    BY DEF Results, Calls
<1>1. CASE ReaderSwitch
  <2>1. closeOK \/ closeErr BY <1>1 DEF ReaderSwitch
  <2>2. closeOK \/ (rName' = rName /\ wName' = wName) BY <1>1 DEF ReaderSwitch
  <2>3. /\ call' \in {"none", "switched"} /\ ret' \in Results
        /\ <<rName', wName'>> \in {<<rName, wName>>, <<wName, rName>>}
      BY <1>1, <1>b DEF ReaderSwitch, Return, TypeOK
  <2>4. TypeOK' BY <1>1, <1>b, <2>1, <2>3, CloseRoles DEF ReaderSwitch, TypeOK
  <2>5. Roles' BY <2>1, <2>2, <2>3, CloseRoles DEF Roles
  <2> QED BY <2>4, <2>5
<1>2. CASE ReaderOpen
  <2>1. faults' \in Nat BY <1>2, FaultType DEF ReaderOpen, TypeOK
  <2> QED BY <1>2, <1>b, <2>1 DEF ReaderOpen, TypeOK, Roles, Return
<1>3. CASE ReaderFnErr
  BY <1>3, <1>b DEF ReaderFnErr, TypeOK, Roles, Return
<1>4. CASE ReaderFnOK
  <2>1. disk[read] \in Seq(Chunk) BY <1>4 DEF ReaderFnOK, TypeOK, Roles
  <2>2. consumed' \subseteq Entry BY <1>4, <2>1, ReadableInRange DEF ReaderFnOK, TypeOK
  <2> QED BY <1>4, <1>b, <2>2 DEF ReaderFnOK, TypeOK, Roles, files
<1>5. CASE ReaderTruncate
  <2>0. read \in File BY <1>5 DEF ReaderTruncate, TypeOK, Roles
  <2>1. faults' \in Nat BY <1>5, FaultType DEF ReaderTruncate, TypeOK
  <2>2. disk' \in [File -> Seq(Chunk)]
      BY <1>5, <2>0, TruncateType DEF ReaderTruncate, TypeOK
  <2> QED BY <1>5, <1>b, <2>1, <2>2 DEF ReaderTruncate, TypeOK, Roles, Return
<1> QED BY <1>1, <1>2, <1>3, <1>4, <1>5 DEF Reader

LEMMA CloseInv ==
    ASSUME Inv, Close
    PROVE  Inv'
<1>1. ret' \in Results BY DEF Close, Results
<1>2. closeOK \/ closeErr BY DEF Close
<1> QED BY <1>1, <1>2, CloseRoles DEF Close, Inv, TypeOK, Roles

LEMMA CrashInv ==
    ASSUME Inv, Crash
    PROVE  Inv'
<1> USE DEF Inv
<1>1. gz # <<>> => write \in File BY DEF TypeOK, Roles
<1>2. call = "merging" => write \in File /\ disk[read] \in Seq(Chunk) BY DEF TypeOK, Roles
<1>3. gz \in Seq(Chunk) BY DEF TypeOK
<1>4. disk' \in [File -> Seq(Chunk)] BY <1>1, <1>2, <1>3, TornType DEF Crash, TypeOK
<1>5. faults' \in Nat BY FaultType DEF Crash
<1> QED BY <1>4, <1>5, EmptySequence
        DEF Crash, NewDirBuffer, TypeOK, Roles, File, NoFile, Calls, Results

LEMMA NextInv == Inv /\ [Next]_vars => Inv'
<1> SUFFICES ASSUME Inv, [Next]_vars PROVE Inv' OBVIOUS
<1>1. CASE UNCHANGED vars
  BY <1>1 DEF vars, files, Inv, TypeOK, Roles
<1>2. CASE Next
  BY <1>2, WriteInv, HasDataInv, ReaderInv, CloseInv, CrashInv DEF Next
<1> QED BY <1>1, <1>2

\* The variables of the buffer always have their types: every file holds
\* entries and garbage only, and the names and open files are files.
THEOREM TypeCorrect == Spec => []TypeOK
<1>1. Inv => TypeOK BY DEF Inv
<1> QED BY <1>1, InitInv, NextInv, PTL DEF Spec

LEMMA Invariance == Spec => []Inv
BY InitInv, NextInv, PTL DEF Spec

\* While a callback has the read file no Write reaches that file: Reader may
\* run its callback and its Truncate without the mutex.  No assumption is made
\* on the number of entries, of failing disk operations or of crashes.
THEOREM ReadFileIsQuiet == Spec => []ReadFileQuiet
<1>1. Inv => ReadFileQuiet
  BY DEF Inv, TypeOK, Roles, ReadFileQuiet, File, NoFile
<1> QED BY <1>1, Invariance, PTL
-----------------------------------------------------------------------------
(* No entry is lost or handed out twice *)

ReadSet == Range(disk[rName])
WriteSet == Range(disk[wName])
StreamSet == Range(gz)

\* NoLoss and NoRedelivery are not inductive: to know that truncating the read
\* file after a callback loses nothing and leaves no accepted entry behind, the
\* three places must be disjoint, except while the merge has its copy and its
\* original, and accepted entries may be only in the file about to be truncated.
Content ==
    faults = 0 =>
        /\ ~gzErr
        /\ Garbage \notin ReadSet \cup WriteSet \cup StreamSet
        /\ written = ReadSet \cup WriteSet \cup StreamSet \cup consumed
        /\ StreamSet \cap (ReadSet \cup WriteSet \cup consumed) = {}
        /\ WriteSet \cap consumed = {}
        /\ IF call = "copied" THEN ReadSet \subseteq WriteSet
                               ELSE ReadSet \cap WriteSet = {}
        /\ IF call = "accepted" THEN ReadSet \subseteq consumed
                                 ELSE ReadSet \cap consumed = {}

\* A flush moves the gzip stream to the write file.
LEMMA FlushSets ==
    ASSUME Inv
    PROVE  /\ Range(Flushed[wName]) = WriteSet \cup StreamSet
           /\ Flushed[rName] = disk[rName]
<1> USE DEF Inv
<1>1. disk[wName] \in Seq(Chunk) /\ gz \in Seq(Chunk) BY DEF TypeOK
<1>2. CASE write = NoFile
  <2>1. gz = <<>> /\ Flushed = disk BY <1>2 DEF Flushed, Roles
  <2> QED BY <2>1, EmptySequence DEF WriteSet, StreamSet
<1>3. CASE write # NoFile
  <2>1. write = wName /\ wName \in File /\ rName # wName BY <1>3 DEF Roles, TypeOK
  <2>2. Flushed = [disk EXCEPT ![wName] = disk[wName] \o gz]
      BY <1>3, <2>1 DEF Flushed, Appended
  <2>3. Flushed[wName] = disk[wName] \o gz BY <2>1, <2>2 DEF TypeOK
  <2>4. Flushed[rName] = disk[rName] BY <2>1, <2>2 DEF TypeOK
  <2>5. Range(disk[wName] \o gz) = Range(disk[wName]) \cup Range(gz) BY <1>1, RangeConcat
  <2> QED BY <2>3, <2>4, <2>5 DEF WriteSet, StreamSet
<1> QED BY <1>2, <1>3

\* A successful close, with the names kept or swapped.
LEMMA CloseContent ==
    ASSUME Inv, Content, faults = 0, closeOK, call = "none",
           call' \in {"none", "merging", "switched"},
           <<rName', wName'>> \in {<<rName, wName>>, <<wName, rName>>},
           UNCHANGED <<consumed, written>>
    PROVE  Content'
<1>1. StreamSet' = {} BY EmptySequence DEF closeOK, StreamSet
<1>2. \/ ReadSet' = ReadSet /\ WriteSet' = WriteSet \cup StreamSet
      \/ ReadSet' = WriteSet \cup StreamSet /\ WriteSet' = ReadSet
    BY FlushSets DEF closeOK, ReadSet, WriteSet
<1>3. gzErr' = gzErr BY DEF closeOK
<1> QED BY <1>1, <1>2, <1>3 DEF Content

\* A fault sets the counter.
LEMMA NoFault ==
    ASSUME Inv, faults' = 0
    PROVE  /\ \A k : ~Fault(k)
           /\ ~closeFlushFails /\ ~closeFileFails /\ ~closeReadFails
<1>1. \A k : ~Fault(k) BY FaultType DEF Inv
<1> QED BY <1>1 DEF closeFlushFails, closeFileFails, closeReadFails

LEMMA InitContent == Init => Content
<1> SUFFICES ASSUME Init PROVE Content OBVIOUS
<1>1. ReadSet = {} /\ WriteSet = {} /\ StreamSet = {}
    BY EmptySequence DEF Init, File, ReadSet, WriteSet, StreamSet
<1> QED BY <1>1 DEF Init, Content

LEMMA WriteContent ==
    ASSUME Inv, Content, NEW e \in Entry, Write(e), faults' = 0
    PROVE  Content'
<1>1. WriteOK(e) /\ written' = written \cup {e} /\ faults = 0
  <2>1. CASE WriteOK(e) /\ written' = written \cup {e} /\ UNCHANGED faults
      BY <2>1
  <2>2. ~WriteOpenFails /\ ~WriteThroughFails(e)
      BY NoFault DEF WriteOpenFails, WriteThroughFails
  <2>3. CASE WriteRefused BY <2>3 DEF WriteRefused, Content
  <2> QED BY <2>1, <2>2, <2>3 DEF Write
<1>2. StreamSet' = StreamSet \cup {e}
  <2>1. e \in Chunk /\ gz \in Seq(Chunk) BY DEF Chunk, Inv, TypeOK
  <2> QED BY <1>1, <2>1, RangeAppend DEF WriteOK, StreamSet
<1>3. ReadSet' = ReadSet /\ WriteSet' = WriteSet BY <1>1 DEF WriteOK, ReadSet, WriteSet
<1>4. e # Garbage BY DirBufferAssumption
<1>5. e \notin written /\ consumed' = consumed BY DEF Write
<1>6. gzErr' = gzErr /\ call' = call BY <1>1 DEF WriteOK
<1> QED BY <1>1, <1>2, <1>3, <1>4, <1>5, <1>6 DEF Content

LEMMA HasDataContent ==
    ASSUME Inv, Content, HasData, faults' = 0, faults = 0
    PROVE  Content'
<1>a. UNCHANGED <<consumed, written>> BY DEF HasData
<1>b. \A k : ~Fault(k) BY NoFault
<1>c. rName \in File /\ wName \in File /\ rName # wName /\ disk \in [File -> Seq(Chunk)]
    BY DEF Inv, TypeOK, Roles
<1>1. CASE HasDataNothing \/ HasDataInWrite \/ HasDataInRead
  BY <1>1, <1>a, CloseContent
  DEF HasDataNothing, HasDataInWrite, HasDataInRead, Return
<1>2. CASE HasDataCloseErr
  BY <1>2, NoFault DEF HasDataCloseErr, closeErr, closeSticky, Content
<1>3. CASE HasDataInBoth
  <2>1. StreamSet' = {} BY <1>3, EmptySequence DEF HasDataInBoth, StreamSet
  <2>2. ReadSet' = ReadSet /\ WriteSet' = WriteSet \cup StreamSet
      BY <1>3, FlushSets DEF HasDataInBoth, ReadSet, WriteSet
  <2>3. gzErr' = gzErr /\ call = "none" /\ call' = "merging" BY <1>3, <1>b DEF HasDataInBoth
  <2> QED BY <1>a, <2>1, <2>2, <2>3 DEF Content
<1>4. CASE HasDataCopy
  <2>1. read = rName /\ write = wName BY <1>4 DEF HasDataCopy, Inv, Roles
  <2>2. disk' = [disk EXCEPT ![wName] = disk[wName] \o disk[rName]]
      BY <1>4, <1>b, <2>1 DEF HasDataCopy, Appended
  <2>3. disk[rName] \in Seq(Chunk) /\ disk[wName] \in Seq(Chunk) BY <1>c
  <2>4. disk'[rName] = disk[rName] /\ disk'[wName] = disk[wName] \o disk[rName]
      BY <1>c, <2>2
  <2>5. Range(disk[wName] \o disk[rName]) = WriteSet \cup ReadSet
      BY <2>3, RangeConcat DEF WriteSet, ReadSet
  <2>6. ReadSet' = ReadSet /\ WriteSet' = WriteSet \cup ReadSet /\ StreamSet' = StreamSet
      BY <1>4, <2>4, <2>5 DEF HasDataCopy, ReadSet, WriteSet, StreamSet
  <2>7. StreamSet = {} BY <1>4, EmptySequence DEF HasDataCopy, Inv, Roles, StreamSet
  <2>8. gzErr' = gzErr /\ call = "merging" /\ call' = "copied" BY <1>4, <1>b DEF HasDataCopy
  <2> QED BY <1>a, <2>6, <2>7, <2>8 DEF Content
<1>5. CASE HasDataTruncate
  <2>1. read = rName /\ write = wName BY <1>5 DEF HasDataTruncate, Inv, Roles
  <2>2. disk' = [disk EXCEPT ![rName] = <<>>] BY <1>5, <1>b, <2>1 DEF HasDataTruncate
  <2>3. disk'[rName] = <<>> /\ disk'[wName] = disk[wName] BY <1>c, <2>2
  <2>4. ReadSet' = {} /\ WriteSet' = WriteSet /\ StreamSet' = StreamSet
      BY <1>5, <2>3, EmptySequence DEF HasDataTruncate, ReadSet, WriteSet, StreamSet
  <2>5. gzErr' = gzErr /\ call = "copied" /\ call' = "none"
      BY <1>5, <1>b DEF HasDataTruncate, Return
  <2> QED BY <1>a, <2>4, <2>5 DEF Content
<1> QED BY <1>1, <1>2, <1>3, <1>4, <1>5 DEF HasData

LEMMA ReaderContent ==
    ASSUME Inv, Content, Reader, faults' = 0, faults = 0
    PROVE  Content'
<1>b. \A k : ~Fault(k) BY NoFault
<1>c. rName \in File /\ wName \in File /\ rName # wName /\ disk \in [File -> Seq(Chunk)]
    BY DEF Inv, TypeOK, Roles
<1>1. CASE ReaderSwitch
  <2>1. closeOK BY <1>1, NoFault DEF ReaderSwitch, closeErr, closeSticky, Content
  <2>2. ~closeErr BY <2>1, NoFault DEF closeErr, closeSticky, closeOK
  <2> QED BY <1>1, <2>1, <2>2, CloseContent DEF ReaderSwitch
<1>2. CASE ReaderOpen \/ ReaderFnErr
  <2>1. /\ UNCHANGED <<rName, wName, gz, gzErr, disk, consumed, written>>
        /\ call \in {"switched", "opened"} /\ call' \in {"none", "opened"}
      BY <1>2, <1>b DEF ReaderOpen, ReaderFnErr, Return
  <2>2. ReadSet' = ReadSet /\ WriteSet' = WriteSet /\ StreamSet' = StreamSet
      BY <2>1 DEF ReadSet, WriteSet, StreamSet
  <2> QED BY <2>1, <2>2 DEF Content
<1>3. CASE ReaderFnOK
  <2>1. /\ UNCHANGED <<rName, wName, gz, gzErr, disk, written>>
        /\ call = "opened" /\ call' = "accepted"
      BY <1>3 DEF ReaderFnOK, files
  <2>2. ReadSet' = ReadSet /\ WriteSet' = WriteSet /\ StreamSet' = StreamSet
      BY <2>1 DEF ReadSet, WriteSet, StreamSet
  <2>3. read = rName BY <2>1 DEF Inv, Roles
  <2>4. Garbage \notin ReadSet BY DEF Content
  <2>5. Readable(disk[rName]) = ReadSet BY <1>c, <2>4, ReadableClean DEF ReadSet
  <2>6. consumed' = consumed \cup ReadSet BY <1>3, <2>3, <2>5 DEF ReaderFnOK
  <2> QED BY <2>1, <2>2, <2>6 DEF Content
<1>4. CASE ReaderTruncate
  <2>1. read = rName BY <1>4 DEF ReaderTruncate, Inv, Roles
  <2>2. disk' = [disk EXCEPT ![rName] = <<>>] BY <1>4, <1>b, <2>1 DEF ReaderTruncate
  <2>3. disk'[rName] = <<>> /\ disk'[wName] = disk[wName] BY <1>c, <2>2
  <2>4. ReadSet' = {} /\ WriteSet' = WriteSet /\ StreamSet' = StreamSet
      BY <1>4, <2>3, EmptySequence DEF ReaderTruncate, ReadSet, WriteSet, StreamSet
  <2>5. /\ UNCHANGED <<gzErr, consumed, written>>
        /\ call = "accepted" /\ call' = "none"
      BY <1>4, <1>b DEF ReaderTruncate, Return
  <2> QED BY <2>4, <2>5 DEF Content
<1> QED BY <1>1, <1>2, <1>3, <1>4 DEF Reader

LEMMA CloseCallContent ==
    ASSUME Inv, Content, Close, faults' = 0, faults = 0
    PROVE  Content'
<1>1. ~closeErr BY NoFault DEF closeErr, closeSticky, Content
<1> QED BY <1>1, CloseContent DEF Close

\* The number of faults never goes down.
LEMMA FaultsGrow ==
    ASSUME Inv, [Next]_vars, faults' = 0
    PROVE  faults = 0
<1>1. \A k : ~Fault(k) BY NoFault
<1>2. closeOK \/ closeErr => faults' = faults
  BY <1>1, NoFault DEF closeOK, closeErr, closeSticky
<1>3. CASE UNCHANGED vars BY <1>3 DEF vars
<1>4. ASSUME NEW e \in Entry, Write(e) PROVE faults' = faults
  BY <1>1, <1>4 DEF Write, WriteOpenFails, WriteThroughFails, WriteRefused
<1>5. CASE HasData
  BY <1>1, <1>2, <1>5 DEF HasData, HasDataNothing, HasDataInWrite, HasDataInRead, HasDataInBoth,
     HasDataCloseErr, HasDataCopy, HasDataTruncate
<1>6. CASE Reader
  BY <1>1, <1>2, <1>6 DEF Reader, ReaderSwitch, ReaderOpen, ReaderFnErr, ReaderFnOK, ReaderTruncate
<1>7. CASE Close BY <1>2, <1>7 DEF Close
<1>8. CASE Crash BY <1>1, <1>8 DEF Crash
<1> QED BY <1>3, <1>4, <1>5, <1>6, <1>7, <1>8 DEF Next

LEMMA NextContent == Inv /\ Content /\ [Next]_vars => Content'
<1> SUFFICES ASSUME Inv, Content, [Next]_vars, faults' = 0 PROVE Content'
    BY DEF Content
<1>0. faults = 0 BY FaultsGrow
<1>1. CASE UNCHANGED vars
  BY <1>1 DEF vars, files, Content, ReadSet, WriteSet, StreamSet
<1>2. ~Crash BY NoFault DEF Crash
<1> QED BY <1>0, <1>1, <1>2, WriteContent, HasDataContent, ReaderContent, CloseCallContent DEF Next

\* What the buffer holds, in terms of the three places.
LEMMA StoredSets ==
    ASSUME Inv, Content, faults = 0
    PROVE  Stored = ReadSet \cup WriteSet \cup StreamSet
<1>1. /\ disk[rName] \in Seq(Chunk) /\ disk[wName] \in Seq(Chunk)
      /\ File = {rName, wName}
    BY DEF Inv, TypeOK, Roles, File
<1>2. Garbage \notin ReadSet \cup WriteSet \cup StreamSet BY DEF Content
<1>3. Readable(disk[rName]) = ReadSet /\ Readable(disk[wName]) = WriteSet
    BY <1>1, <1>2, ReadableClean DEF ReadSet, WriteSet
<1>4. OnDisk = ReadSet \cup WriteSet BY <1>1, <1>3 DEF OnDisk
<1> QED BY <1>2, <1>4 DEF Stored, StreamSet

LEMMA ContentInvariance == Spec => [](Inv /\ Content)
<1>1. Init => Inv /\ Content BY InitInv, InitContent
<1>2. Inv /\ Content /\ [Next]_vars => Inv' /\ Content' BY NextInv, NextContent
<1> QED BY <1>1, <1>2, PTL DEF Spec

\* Whatever the interleaving of Write with HasData and Reader, and however many
\* entries there are, an accepted entry is never lost while nothing fails.
THEOREM NothingLost == Spec => []NoLoss
<1>1. Inv /\ Content => NoLoss BY StoredSets DEF NoLoss, Content
<1> QED BY <1>1, ContentInvariance, PTL

\* Nor is an entry that a callback has accepted still in the buffer when the
\* Reader call has returned.
THEOREM NothingRedelivered == Spec => []NoRedelivery
<1>1. Inv /\ Content => NoRedelivery BY StoredSets DEF NoRedelivery, Content
<1> QED BY <1>1, ContentInvariance, PTL

-----------------------------------------------------------------------------
(* HasData *)

\* A merge begins, and goes on, with something in the write file; HasDataGathers
\* needs it for the end of the merge.
Merging == call \in {"merging", "copied"} => disk[wName] # <<>>

Gathers == Merging /\ HasDataGathers

LEMMA MergingStep ==
    ASSUME Inv, Merging, Next
    PROVE  Merging'
<1>0. disk \in [File -> Seq(Chunk)] /\ rName \in File /\ wName \in File /\ rName # wName
    BY DEF Inv, TypeOK, Roles
<1>1. CASE call' \notin {"merging", "copied"} BY <1>1 DEF Merging
<1>2. CASE HasDataInBoth BY <1>2 DEF HasDataInBoth, Merging
<1>3. CASE HasDataCopy /\ call' = "copied"
  <2>1. read = rName /\ write = wName /\ call = "merging" BY <1>3 DEF HasDataCopy, Inv, Roles
  <2>2. disk' = [disk EXCEPT ![wName] = disk[wName] \o disk[rName]]
      BY <1>3, <2>1 DEF HasDataCopy, Return, Appended
  <2>3. disk'[wName] = disk[wName] \o disk[rName] BY <1>0, <2>2
  <2>4. disk[wName] # <<>> BY <2>1 DEF Merging
  <2>5. disk[wName] \in Seq(Chunk) /\ disk[rName] \in Seq(Chunk) BY <1>0
  <2>6. disk[wName] \o disk[rName] # <<>> BY <2>4, <2>5
  <2> QED BY <1>3, <2>3, <2>6 DEF HasDataCopy, Merging
<1>4. ASSUME NEW e \in Entry, Write(e) PROVE Merging'
  BY <1>4 DEF Write, WriteOK, WriteOpenFails, WriteThroughFails, WriteRefused, MutexFree, files, Merging
<1>5. CASE HasData /\ ~HasDataInBoth /\ ~HasDataCopy
  BY <1>1, <1>5 DEF HasData, HasDataNothing, HasDataInWrite, HasDataInRead, HasDataCloseErr,
     HasDataTruncate, Return
<1>6. CASE Reader
  BY <1>1, <1>6 DEF Reader, ReaderSwitch, ReaderOpen, ReaderFnErr, ReaderFnOK, ReaderTruncate, Return
<1>7. CASE Close \/ Crash
  BY <1>1, <1>7 DEF Close, Crash, NewDirBuffer
<1>8. CASE HasDataCopy
  BY <1>1, <1>3, <1>8 DEF HasDataCopy, Return
<1> QED BY <1>2, <1>4, <1>5, <1>6, <1>7, <1>8 DEF Next, HasData

LEMMA GathersStep ==
    ASSUME Inv, Gathers, Next, faults' = 0, faults = 0, write' = NoFile, call' = "none"
    PROVE  /\ ret' = "true" => disk'[rName'] = <<>> /\ disk'[wName'] # <<>>
           /\ ret' = "false" => Stored' = {}
<1>0. disk \in [File -> Seq(Chunk)] /\ rName \in File /\ wName \in File /\ rName # wName
    BY DEF Inv, TypeOK, Roles
<1>a. \A k : ~Fault(k) BY NoFault
<1>1. CASE HasDataNothing
  <2>1. gz' = <<>> /\ \A f \in File : disk'[f] = <<>> BY <1>1 DEF HasDataNothing, closeOK
  <2>2. Stored' = {} BY <2>1, EmptySequence DEF Stored, OnDisk
  <2> QED BY <1>1, <2>2 DEF HasDataNothing, Return
<1>2. CASE HasDataInWrite \/ HasDataInRead
  BY <1>2 DEF HasDataInWrite, HasDataInRead, Return
<1>3. CASE HasDataCloseErr \/ HasDataInBoth \/ HasDataCopy
  BY <1>3, <1>a DEF HasDataCloseErr, HasDataInBoth, HasDataCopy, Return
<1>4. CASE HasDataTruncate
  <2>1. read = rName /\ write = wName /\ disk[wName] # <<>>
      BY <1>4 DEF HasDataTruncate, Inv, Roles, Gathers, Merging
  <2>2. disk' = [disk EXCEPT ![rName] = <<>>] BY <1>4, <1>a, <2>1 DEF HasDataTruncate
  <2>3. disk'[rName] = <<>> /\ disk'[wName] = disk[wName] BY <1>0, <2>2
  <2> QED BY <1>4, <1>a, <2>1, <2>3 DEF HasDataTruncate, Return
<1>5. CASE Reader
  BY <1>5 DEF Reader, ReaderSwitch, ReaderOpen, ReaderFnErr, ReaderFnOK, ReaderTruncate, Return
<1>6. CASE Close \/ Crash
  BY <1>6 DEF Close, Crash, NewDirBuffer
<1>7. ASSUME NEW e \in Entry, Write(e)
      PROVE  UNCHANGED <<rName, wName, files, call, ret>>
  <2>1. wName # NoFile BY <1>0 DEF File, NoFile
  <2>2. ~WriteOK(e) BY <2>1 DEF WriteOK
  <2> QED BY <1>7, <1>a, <2>2 DEF Write, WriteOpenFails, WriteThroughFails, WriteRefused
<1>8. CASE \E e \in Entry : Write(e)
  <2>1. UNCHANGED <<rName, wName, files, call, ret>> BY <1>7, <1>8
  <2> QED BY <2>1 DEF files, Gathers, HasDataGathers, Stored, OnDisk
<1> QED BY <1>1, <1>2, <1>3, <1>4, <1>5, <1>6, <1>8 DEF Next, HasData

LEMMA NextGathers == Inv /\ Gathers /\ [Next]_vars => Gathers'
<1> SUFFICES ASSUME Inv, Gathers, [Next]_vars PROVE Gathers' OBVIOUS
<1>1. CASE UNCHANGED vars
  BY <1>1 DEF vars, files, Gathers, Merging, HasDataGathers, Stored, OnDisk
<1>2. CASE Next
  <2>1. Merging' BY <1>2, MergingStep DEF Gathers
  <2>2. ASSUME faults' = 0 PROVE HasDataGathers'
    <3>1. faults = 0 BY <2>2, FaultsGrow
    <3> QED BY <1>2, <2>2, <3>1, GathersStep DEF HasDataGathers
  <2> QED BY <2>1, <2>2 DEF Gathers, HasDataGathers
<1> QED BY <1>1, <1>2

\* What HasData reports is so, also when it has swapped the names or merged the
\* two files: all data is in the file that the next Reader hands out.
THEOREM HasDataIsRight == Spec => []HasDataGathers
<1>1. Init => Gathers BY DEF Init, Gathers, Merging, HasDataGathers
<1>2. Gathers => HasDataGathers BY DEF Gathers
<1> QED BY <1>1, <1>2, NextGathers, Invariance, PTL DEF Spec

-----------------------------------------------------------------------------
(* The buffer implements FallbackStore *)

\* An append to one of the files adds at most its own content ...
LEMMA AppendOnDisk ==
    ASSUME Inv, NEW f \in File, NEW t \in Seq(Chunk), disk' = Appended(f, t)
    PROVE  OnDisk' \subseteq OnDisk \cup Readable(t)
<1>1. disk \in [File -> Seq(Chunk)] BY DEF Inv, TypeOK
<1>2. disk' = [disk EXCEPT ![f] = disk[f] \o t] BY DEF Appended
<1>3. ASSUME NEW g \in File PROVE Readable(disk'[g]) \subseteq OnDisk \cup Readable(t)
  <2>1. CASE g = f
    <3>1. disk'[g] = disk[f] \o t BY <1>1, <1>2, <2>1
    <3>2. Readable(disk[f] \o t) \subseteq Readable(disk[f]) \cup Readable(t)
        BY <1>1, ReadableConcat
    <3> QED BY <3>1, <3>2 DEF OnDisk
  <2>2. CASE g # f
    <3>1. disk'[g] = disk[g] BY <1>1, <1>2, <2>2
    <3> QED BY <3>1 DEF OnDisk
  <2> QED BY <2>1, <2>2
<1> QED BY <1>3 DEF OnDisk

\* ... and truncating one adds nothing.
LEMMA TruncateOnDisk ==
    ASSUME Inv, NEW f \in File, disk' = [disk EXCEPT ![f] = <<>>]
    PROVE  OnDisk' \subseteq OnDisk
<1>1. disk \in [File -> Seq(Chunk)] BY DEF Inv, TypeOK
<1>2. ASSUME NEW g \in File PROVE Readable(disk'[g]) \subseteq OnDisk
  <2>1. disk'[g] = <<>> \/ disk'[g] = disk[g] BY <1>1
  <2> QED BY <2>1, EmptySequence DEF OnDisk
<1> QED BY <1>2 DEF OnDisk

\* The gzip stream, or a torn part of it, goes to the write file.
LEMMA FlushOnDisk ==
    ASSUME Inv, gz' = <<>>,
           \/ disk' = disk
           \/ disk' = Flushed
           \/ write # NoFile /\ \E p \in TornPrefixes(gz) : disk' = Appended(write, p)
    PROVE  Stored' \subseteq Stored
<1>0. gz \in Seq(Chunk) BY DEF Inv, TypeOK
<1>1. Readable(gz) \subseteq Range(gz) \ {Garbage} BY <1>0, ReadableInRange
<1>2. OnDisk' \subseteq OnDisk \cup Readable(gz)
  <2>1. CASE disk' = disk BY <2>1 DEF OnDisk
  <2>2. CASE disk' = Flushed
    BY <1>0, <2>1, <2>2, AppendOnDisk DEF Flushed, Inv, TypeOK
  <2>3. CASE write # NoFile /\ \E p \in TornPrefixes(gz) : disk' = Appended(write, p)
    <3>1. write \in File BY <2>3 DEF Inv, TypeOK
    <3>2. PICK p \in TornPrefixes(gz) : disk' = Appended(write, p) BY <2>3
    <3>3. p \in Seq(Chunk) /\ Readable(p) \subseteq Readable(gz) BY <1>0, TornContent
    <3> QED BY <3>1, <3>2, <3>3, AppendOnDisk
  <2> QED BY <2>1, <2>2, <2>3
<1>3. Range(gz') = {} BY EmptySequence
<1> QED BY <1>1, <1>2, <1>3 DEF Stored

LEMMA CloseStored ==
    ASSUME Inv, closeOK \/ closeErr
    PROVE  Stored' \subseteq Stored
<1>1. CASE closeSticky \/ closeReadFails
  BY <1>1 DEF closeSticky, closeReadFails, Stored, OnDisk
<1>2. CASE closeOK \/ closeFlushFails \/ closeFileFails
  BY <1>2, FlushOnDisk DEF closeOK, closeFlushFails, closeFileFails
<1> QED BY <1>1, <1>2 DEF closeErr

LEMMA HasDataStored ==
    ASSUME Inv, HasData
    PROVE  Stored' \subseteq Stored
<1>1. CASE HasDataNothing \/ HasDataInWrite \/ HasDataInRead \/ HasDataCloseErr
  BY <1>1, CloseStored DEF HasDataNothing, HasDataInWrite, HasDataInRead, HasDataCloseErr
<1>2. CASE HasDataInBoth
  BY <1>2, FlushOnDisk DEF HasDataInBoth
<1>3. CASE HasDataCopy
  <2>1. read \in File /\ write \in File /\ disk[read] \in Seq(Chunk)
      BY <1>3 DEF HasDataCopy, Inv, TypeOK, Roles
  <2>2. PICK t \in {disk[read]} \cup TornPrefixes(disk[read]) : disk' = Appended(write, t)
      BY <1>3 DEF HasDataCopy
  <2>3. t \in Seq(Chunk) /\ Readable(t) \subseteq Readable(disk[read]) BY <2>1, <2>2, TornContent
  <2>4. OnDisk' \subseteq OnDisk BY <2>1, <2>2, <2>3, AppendOnDisk DEF OnDisk
  <2> QED BY <1>3, <2>4 DEF HasDataCopy, Stored
<1>4. CASE HasDataTruncate
  <2>1. read \in File /\ write \in File /\ read # write /\ gz' = gz
      BY <1>4 DEF HasDataTruncate, Inv, TypeOK, Roles
  <2>2. CASE disk' = disk BY <2>1, <2>2 DEF Stored, OnDisk
  <2>3. CASE disk' = [disk EXCEPT ![read] = <<>>]
    BY <2>1, <2>3, TruncateOnDisk DEF Stored
  <2>4. CASE disk' = [disk EXCEPT ![read] = <<>>, ![write] = @ \o <<Garbage>>]
    <3>1. disk \in [File -> Seq(Chunk)] BY DEF Inv, TypeOK
    <3>2. <<Garbage>> \in Seq(Chunk) /\ Readable(<<Garbage>>) = {} BY DEF Chunk, Readable
    <3>3. Readable(disk[write] \o <<Garbage>>) \subseteq Readable(disk[write])
        BY <2>1, <3>1, <3>2, ReadableConcat, Zenon
    <3>4. ASSUME NEW g \in File PROVE Readable(disk'[g]) \subseteq OnDisk
      <4>1. \/ disk'[g] = <<>>
            \/ g = write /\ disk'[g] = disk[write] \o <<Garbage>>
            \/ disk'[g] = disk[g]
          BY <2>1, <2>4, <3>1
      <4> QED BY <3>3, <4>1, EmptySequence DEF OnDisk
    <3>5. OnDisk' \subseteq OnDisk BY <3>4 DEF OnDisk
    <3> QED BY <2>1, <3>5 DEF Stored
  <2> QED BY <1>4, <2>2, <2>3, <2>4 DEF HasDataTruncate
<1> QED BY <1>1, <1>2, <1>3, <1>4 DEF HasData

LEMMA ReaderStored ==
    ASSUME Inv, Reader
    PROVE  Stored' \subseteq Stored
<1>1. CASE ReaderSwitch BY <1>1, CloseStored DEF ReaderSwitch
<1>2. CASE ReaderOpen \/ ReaderFnErr \/ ReaderFnOK
  BY <1>2 DEF ReaderOpen, ReaderFnErr, ReaderFnOK, files, Stored, OnDisk
<1>3. CASE ReaderTruncate
  <2>1. read \in File BY <1>3 DEF ReaderTruncate, Inv, TypeOK, Roles
  <2>2. disk' = disk \/ disk' = [disk EXCEPT ![read] = <<>>] BY <1>3 DEF ReaderTruncate
  <2>3. OnDisk' \subseteq OnDisk BY <2>1, <2>2, TruncateOnDisk DEF OnDisk
  <2> QED BY <1>3, <2>3 DEF ReaderTruncate, Stored
<1> QED BY <1>1, <1>2, <1>3 DEF Reader

LEMMA CrashStored ==
    ASSUME Inv, Crash
    PROVE  Stored' \subseteq Stored
<1>0. gz' = <<>> BY DEF Crash, NewDirBuffer
<1>1. CASE disk' = disk \/ (gz # <<>> /\ \E p \in TornPrefixes(gz) : disk' = Appended(write, p))
  BY <1>0, <1>1, FlushOnDisk DEF Inv, Roles
<1>2. CASE call = "merging" /\ \E p \in TornPrefixes(disk[read]) : disk' = Appended(write, p)
  <2>1. read \in File /\ write \in File /\ disk[read] \in Seq(Chunk)
      BY <1>2 DEF Inv, TypeOK, Roles
  <2>2. PICK t \in TornPrefixes(disk[read]) : disk' = Appended(write, t) BY <1>2
  <2>3. t \in Seq(Chunk) /\ Readable(t) \subseteq Readable(disk[read]) BY <2>1, <2>2, TornContent
  <2>4. OnDisk' \subseteq OnDisk BY <2>1, <2>2, <2>3, AppendOnDisk DEF OnDisk
  <2> QED BY <1>0, <2>4, EmptySequence DEF Stored
<1> QED BY <1>1, <1>2 DEF Crash

\* A Write, successful or not, adds at most its entry.
LEMMA WriteStored ==
    ASSUME Inv, NEW e \in Entry, Write(e)
    PROVE  Stored' \subseteq Stored \cup {e}
<1>0. gz \in Seq(Chunk) /\ e \in Chunk BY DEF Inv, TypeOK, Chunk
<1>1. Append(gz, e) \in Seq(Chunk) /\ Range(Append(gz, e)) = Range(gz) \cup {e}
    BY <1>0, RangeAppend
<1>2. CASE WriteOK(e) BY <1>1, <1>2 DEF WriteOK, Stored, OnDisk
<1>3. CASE WriteThroughFails(e)
  <2>1. write' \in File BY <1>3 DEF WriteThroughFails, Inv, TypeOK
  <2>2. PICK p \in TornPrefixes(Append(gz, e)) : disk' = Appended(write', p)
      BY <1>3 DEF WriteThroughFails
  <2>3. p \in Seq(Chunk) /\ Readable(p) \subseteq Readable(Append(gz, e))
      BY <1>1, <2>2, TornContent
  <2>4. Readable(Append(gz, e)) \subseteq Range(Append(gz, e)) \ {Garbage}
      BY <1>1, ReadableInRange
  <2>5. OnDisk' \subseteq OnDisk \cup Readable(p) BY <2>1, <2>2, <2>3, AppendOnDisk
  <2>6. Range(gz') = {} BY <1>3, EmptySequence DEF WriteThroughFails
  <2> QED BY <1>1, <2>3, <2>4, <2>5, <2>6 DEF Stored
<1>4. CASE WriteOpenFails \/ WriteRefused
  BY <1>4 DEF WriteOpenFails, WriteRefused, files, Stored, OnDisk
<1> QED BY <1>2, <1>3, <1>4 DEF Write

\* Without faults the history accounts for what is stored.
Account == faults = 0 => Stored \cup consumed = written

LEMMA StoreStep ==
    ASSUME Inv, Inv', Account, Account', [Next]_vars
    PROVE  [Store!Next]_(Store!vars)
<1>1. CASE UNCHANGED vars
  BY <1>1 DEF vars, files, Store!vars, Stored, OnDisk
<1>2. CASE ReaderFnOK
  <2> DEFINE S == Readable(disk[read]) \ consumed
  <2>1. read \in File BY <1>2 DEF ReaderFnOK, Inv, TypeOK, Roles
  <2>2. Stored' = Stored /\ faults' = faults BY <1>2 DEF ReaderFnOK, files, Stored, OnDisk
  <2>3. consumed' = consumed \cup S BY <1>2 DEF ReaderFnOK
  <2>4. S \subseteq Stored \ consumed BY <2>1 DEF Stored, OnDisk
  <2>5. Store!Take(S) BY <2>2, <2>3, <2>4 DEF Store!Take
  <2> QED BY <2>4, <2>5 DEF Store!Next
<1>3. CASE Next /\ ~ReaderFnOK /\ faults' # 0
  <2>1. consumed' = consumed
      BY <1>3 DEF Next, Write, HasData, Reader, ReaderSwitch, ReaderOpen, ReaderFnErr,
         ReaderTruncate, Close, Crash
  <2>2. faults' > 0 BY <1>3 DEF Inv, TypeOK
  <2>3. Stored' \subseteq Stored \/ \E e \in Entry : Stored' \subseteq Stored \cup {e}
      BY <1>3, WriteStored, HasDataStored, ReaderStored, CloseStored, CrashStored DEF Next, Close
  <2>4. Store!Fail BY <2>1, <2>2, <2>3 DEF Store!Fail
  <2> QED BY <2>4 DEF Store!Next
<1>4. CASE Next /\ ~ReaderFnOK /\ faults' = 0
  <2>0. faults = 0 BY <1>4, FaultsGrow
  <2>1. Stored \cup consumed = written /\ (Stored \cup consumed)' = written'
      BY <1>4, <2>0 DEF Account
  <2>2. consumed' = consumed
      BY <1>4 DEF Next, Write, HasData, Reader, ReaderSwitch, ReaderOpen, ReaderFnErr,
         ReaderTruncate, Close, Crash
  <2>3. CASE written' = written
    BY <1>4, <2>0, <2>1, <2>2, <2>3 DEF Store!vars
  <2>4. ASSUME NEW e \in Entry, e \notin written, written' = written \cup {e}
        PROVE  Store!Next
    <3>1. Store!Put(e) BY <1>4, <2>0, <2>1, <2>2, <2>4 DEF Store!Put
    <3> QED BY <3>1 DEF Store!Next
  <2>5. written' = written \/ \E e \in Entry : e \notin written /\ written' = written \cup {e}
      BY <1>4 DEF Next, Write, HasData, Reader, ReaderSwitch, ReaderOpen, ReaderFnErr,
         ReaderTruncate, Close, Crash
  <2> QED BY <2>3, <2>4, <2>5
<1> QED BY <1>1, <1>2, <1>3, <1>4

\* The two files, their swaps, the merge and the gzip stream implement one set
\* of entries, with faults or without.
THEOREM Refinement == Spec => ImplementsStore
<1>1. Init => Store!Init
  <2> SUFFICES ASSUME Init PROVE Store!Init OBVIOUS
  <2>1. OnDisk = {} /\ Range(gz) = {} BY EmptySequence DEF Init, OnDisk
  <2> QED BY <2>1 DEF Init, Store!Init, Stored
<1>2. Inv /\ Account /\ (Inv /\ Account)' /\ [Next]_vars => [Store!Next]_(Store!vars)
    BY StoreStep
<1>3. Inv /\ Content => Account BY StoredSets DEF Content, Account
<1> QED BY <1>1, <1>2, <1>3, ContentInvariance, PTL DEF Spec, ImplementsStore, Store!Spec

-----------------------------------------------------------------------------
(* What is on disk stays there *)

LEMMA AppendKeepsDisk ==
    ASSUME Inv, NEW f \in File, NEW t \in Seq(Chunk), disk' = Appended(f, t)
    PROVE  OnDisk \subseteq OnDisk'
<1>1. disk \in [File -> Seq(Chunk)] BY DEF Inv, TypeOK
<1>2. ASSUME NEW g \in File PROVE Readable(disk[g]) \subseteq Readable(disk'[g])
  <2>1. disk'[g] = disk[g] \/ (g = f /\ disk'[g] = disk[f] \o t) BY <1>1 DEF Appended
  <2>2. Readable(disk[f]) \subseteq Readable(disk[f] \o t) BY <1>1, AppendKeeps
  <2> QED BY <2>1, <2>2
<1> QED BY <1>2 DEF OnDisk

LEMMA TornKeepsDisk ==
    ASSUME Inv, NEW f \in File, NEW s \in Seq(Chunk), \E p \in TornPrefixes(s) : disk' = Appended(f, p)
    PROVE  OnDisk \subseteq OnDisk'
<1>1. PICK p \in TornPrefixes(s) : disk' = Appended(f, p) OBVIOUS
<1>2. p \in Seq(Chunk) BY TornContent
<1> QED BY <1>1, <1>2, AppendKeepsDisk

LEMMA CloseKeepsDisk ==
    ASSUME Inv, closeOK \/ closeErr
    PROVE  OnDisk \subseteq OnDisk'
<1>0. gz \in Seq(Chunk) /\ write \in File \cup {NoFile} BY DEF Inv, TypeOK
<1>1. CASE disk' = disk BY <1>1 DEF OnDisk
<1>2. CASE disk' = Flushed BY <1>0, <1>1, <1>2, AppendKeepsDisk DEF Flushed
<1>3. CASE write # NoFile /\ \E p \in TornPrefixes(gz) : disk' = Appended(write, p)
  BY <1>0, <1>3, TornKeepsDisk
<1> QED BY <1>1, <1>2, <1>3
    DEF closeOK, closeErr, closeSticky, closeFlushFails, closeFileFails, closeReadFails

\* Every operation but HasData keeps what is on disk until a callback has
\* accepted it, also when it fails half way; the truncation at the end of Reader
\* needs that the callback accepted all of the file.
LEMMA OthersKeepDisk ==
    ASSUME Inv, (\E e \in Entry : Write(e)) \/ Reader \/ Close \/ Crash,
           call = "accepted" => Readable(disk[rName]) \subseteq consumed
    PROVE  OnDisk \subseteq OnDisk' \cup consumed'
<1>0. /\ gz \in Seq(Chunk) /\ disk \in [File -> Seq(Chunk)] /\ File = {rName, wName}
      /\ rName # wName /\ wName \in File /\ wName # NoFile
    BY DEF Inv, TypeOK, Roles, File, NoFile
<1>1. ASSUME NEW e \in Entry, Write(e) PROVE OnDisk \subseteq OnDisk'
  <2>1. CASE WriteThroughFails(e)
    <3>1. Append(gz, e) \in Seq(Chunk) BY <1>0 DEF Chunk
    <3>2. write' \in File BY <1>0, <2>1 DEF WriteThroughFails, Inv, Roles
    <3> QED BY <2>1, <3>1, <3>2, TornKeepsDisk DEF WriteThroughFails
  <2>2. CASE ~WriteThroughFails(e)
    BY <1>1, <2>2 DEF Write, WriteOK, WriteOpenFails, WriteRefused, files, OnDisk
  <2> QED BY <2>1, <2>2
<1>2. CASE Reader
  <2>1. CASE ReaderSwitch BY <2>1, CloseKeepsDisk DEF ReaderSwitch
  <2>2. CASE ReaderOpen \/ ReaderFnErr \/ ReaderFnOK
    BY <2>2 DEF ReaderOpen, ReaderFnErr, ReaderFnOK, files, OnDisk
  <2>3. CASE ReaderTruncate
    <3>1. call = "accepted" /\ read = rName /\ consumed' = consumed
        BY <2>3 DEF ReaderTruncate, Inv, Roles
    <3>2. disk' = disk \/ disk' = [disk EXCEPT ![rName] = <<>>] BY <2>3, <3>1 DEF ReaderTruncate
    <3>3. disk'[wName] = disk[wName] BY <1>0, <3>2
    <3> QED BY <1>0, <3>1, <3>3 DEF OnDisk
  <2> QED BY <1>2, <2>1, <2>2, <2>3 DEF Reader
<1>3. CASE Close BY <1>3, CloseKeepsDisk DEF Close
<1>4. CASE Crash
  <2>1. CASE disk' = disk BY <2>1 DEF OnDisk
  <2>2. CASE gz # <<>> /\ \E p \in TornPrefixes(gz) : disk' = Appended(write, p)
    <3>1. write \in File BY <1>0, <2>2 DEF Inv, Roles
    <3> QED BY <1>0, <2>2, <3>1, TornKeepsDisk
  <2>3. CASE call = "merging" /\ \E p \in TornPrefixes(disk[read]) : disk' = Appended(write, p)
    <3>1. write \in File /\ disk[read] \in Seq(Chunk) BY <1>0, <2>3 DEF Inv, Roles
    <3> QED BY <2>3, <3>1, TornKeepsDisk
  <2> QED BY <1>4, <2>1, <2>2, <2>3 DEF Crash
<1> QED BY <1>1, <1>2, <1>3, <1>4

\* Between the copy and the truncation of a merge the write file ends in what the
\* read file holds; and what a callback has accepted is all of its file.
Copied ==
    /\ call = "copied" => \E old \in Seq(Chunk) : disk[wName] = old \o disk[rName]
    /\ call = "accepted" => Readable(disk[rName]) \subseteq consumed

\* Write leaves the read file alone.
LEMMA WriteKeepsRead ==
    ASSUME Inv, NEW e \in Entry, Write(e)
    PROVE  call' = call /\ rName' = rName /\ disk'[rName] = disk[rName] /\ consumed' = consumed
<1>0. disk \in [File -> Seq(Chunk)] /\ rName # wName /\ rName \in File /\ rName # NoFile
    BY DEF Inv, TypeOK, Roles, File, NoFile
<1>1. CASE WriteThroughFails(e)
  <2>1. write' = wName BY <1>1 DEF WriteThroughFails, Inv, Roles
  <2>2. PICK p : disk' = Appended(write', p) BY <1>1 DEF WriteThroughFails
  <2>3. disk'[rName] = disk[rName] BY <1>0, <2>1, <2>2 DEF Appended
  <2> QED BY <1>1, <2>3 DEF WriteThroughFails, Write
<1>2. CASE ~WriteThroughFails(e)
  BY <1>2 DEF Write, WriteOK, WriteOpenFails, WriteRefused, files
<1> QED BY <1>1, <1>2

LEMMA NextCopied == Inv /\ Copied /\ [Next]_vars => Copied'
<1> SUFFICES ASSUME Inv, Copied, [Next]_vars PROVE Copied' OBVIOUS
<1>1. CASE UNCHANGED vars BY <1>1 DEF vars, files, Copied
<1>2. ASSUME NEW e \in Entry, Write(e) PROVE Copied'
  <2>1. call # "copied" BY <1>2 DEF Write, WriteOK, WriteOpenFails, WriteThroughFails, WriteRefused, MutexFree
  <2> QED BY <1>2, <2>1, WriteKeepsRead DEF Copied
<1>3. CASE HasData
  <2>1. CASE HasDataCopy /\ call' = "copied"
    <3>1. disk \in [File -> Seq(Chunk)] /\ rName \in File /\ wName \in File /\ rName # wName
        BY DEF Inv, TypeOK, Roles
    <3>2. /\ read = rName /\ write = wName /\ rName' = rName /\ wName' = wName
          /\ disk' = Appended(write, disk[read])
        BY <2>1 DEF HasDataCopy, Inv, Roles, Return
    <3>3. disk'[wName] = disk[wName] \o disk[rName] /\ disk'[rName] = disk[rName]
        BY <3>1, <3>2 DEF Appended
    <3> QED BY <2>1, <3>1, <3>2, <3>3 DEF Copied
  <2>2. CASE ~(HasDataCopy /\ call' = "copied")
    BY <1>3, <2>2 DEF HasData, HasDataNothing, HasDataInWrite, HasDataInRead, HasDataInBoth, HasDataCloseErr,
        HasDataCopy, HasDataTruncate, Return, Copied
  <2> QED BY <2>1, <2>2
<1>4. CASE Reader
  BY <1>4 DEF Reader, ReaderSwitch, ReaderOpen, ReaderFnErr, ReaderFnOK, ReaderTruncate, Return, files, Copied,
      Inv, Roles
<1>5. CASE Close BY <1>5 DEF Close, Copied
<1>6. CASE Crash BY <1>6 DEF Crash, NewDirBuffer, Copied
<1> QED BY <1>1, <1>2, <1>3, <1>4, <1>5, <1>6 DEF Next

\* What follows undamaged content can be decoded.
LEMMA BehindClean ==
    ASSUME NEW s \in Seq(Chunk), NEW t \in Seq(Chunk), Garbage \notin Range(s)
    PROVE  Readable(t) \subseteq Readable(s \o t)
<1>1. ASSUME NEW x \in Readable(t) PROVE x \in Readable(s \o t)
  <2>1. PICK i \in 1..Len(t) : x = t[i] /\ \A k \in 1..i : t[k] # Garbage BY <1>1 DEF Readable
  <2>2. Len(s) \in Nat /\ Len(s \o t) = Len(s) + Len(t) OBVIOUS
  <2>3. Len(s) + i \in 1..Len(s \o t) /\ (s \o t)[Len(s) + i] = x BY <2>1, <2>2
  <2>4. ASSUME NEW k \in 1..(Len(s) + i) PROVE (s \o t)[k] # Garbage
    <3>1. CASE k <= Len(s) BY <2>2, <3>1 DEF Range
    <3>2. CASE k > Len(s)
      <4>1. k - Len(s) \in 1..i /\ (s \o t)[k] = t[k - Len(s)] BY <2>1, <2>2, <3>2
      <4> QED BY <2>1, <4>1
    <3> QED BY <2>2, <3>1, <3>2
  <2> QED BY <2>3, <2>4 DEF Readable
<1> QED BY <1>1

LEMMA HasDataKeepsDisk ==
    ASSUME Inv, Copied, HasData, ~TornBefore
    PROVE  OnDisk \subseteq OnDisk'
<1>0. /\ gz \in Seq(Chunk) /\ disk \in [File -> Seq(Chunk)] /\ File = {rName, wName}
      /\ rName # wName /\ wName # NoFile /\ rName \in File /\ wName \in File
    BY DEF Inv, TypeOK, Roles, File, NoFile
<1>1. CASE HasDataNothing \/ HasDataInWrite \/ HasDataInRead \/ HasDataCloseErr
  BY <1>1, CloseKeepsDisk DEF HasDataNothing, HasDataInWrite, HasDataInRead, HasDataCloseErr
<1>2. CASE HasDataInBoth
  <2>1. disk' = Flushed BY <1>2 DEF HasDataInBoth
  <2>2. CASE write = NoFile BY <2>1, <2>2 DEF Flushed, OnDisk
  <2>3. CASE write # NoFile
    BY <1>0, <2>1, <2>3, AppendKeepsDisk DEF Flushed, Inv, TypeOK
  <2> QED BY <2>2, <2>3
<1>3. CASE HasDataCopy
  <2>1. read = rName /\ write = wName /\ disk[rName] \in Seq(Chunk) BY <1>0, <1>3 DEF HasDataCopy, Inv, Roles
  <2>2. \/ disk' = Appended(wName, disk[rName])
        \/ \E p \in TornPrefixes(disk[rName]) : disk' = Appended(wName, p)
      BY <1>3, <2>1 DEF HasDataCopy
  <2> QED BY <1>0, <2>1, <2>2, AppendKeepsDisk, TornKeepsDisk
<1>4. CASE HasDataTruncate
  <2>1. call = "copied" /\ read = rName /\ write = wName BY <1>4 DEF HasDataTruncate, Inv, Roles
  <2>2. PICK old \in Seq(Chunk) : disk[wName] = old \o disk[rName] BY <2>1 DEF Copied
  <2>3. disk[rName] \in Seq(Chunk) /\ disk[wName] \in Seq(Chunk) BY <1>0
  <2>4. SubSeq(disk[wName], 1, Len(disk[wName]) - Len(disk[rName])) = old BY <2>2, <2>3
  <2>5. Garbage \notin Range(old) BY <2>1, <2>4 DEF TornBefore
  <2>6. Readable(disk[rName]) \subseteq Readable(disk[wName]) BY <2>2, <2>3, <2>5, BehindClean
  <2>7. Readable(disk[wName]) \subseteq Readable(disk'[wName])
    <3>1. <<Garbage>> \in Seq(Chunk) BY DEF Chunk
    <3>2. Readable(disk[wName]) \subseteq Readable(disk[wName] \o <<Garbage>>) BY <2>3, <3>1, AppendKeeps
    <3>3. disk'[wName] \in {disk[wName], disk[wName] \o <<Garbage>>} BY <1>0, <1>4, <2>1 DEF HasDataTruncate
    <3> QED BY <3>2, <3>3
  <2> QED BY <1>0, <2>6, <2>7 DEF OnDisk
<1> QED BY <1>1, <1>2, <1>3, <1>4 DEF HasData

\* MergeKeeps: whatever fails, readable entries leave the files only when a callback
\* has accepted them, or in a merge behind a part that was torn before.
THEOREM MergeIsSafe == Spec => MergeKeeps
<1>1. Init => Copied BY DEF Init, Copied
<1>2. Inv /\ Copied /\ [Next]_vars => [TornBefore \/ OnDisk \subseteq OnDisk' \cup consumed']_vars
  <2> SUFFICES ASSUME Inv, Copied, Next, ~TornBefore PROVE OnDisk \subseteq OnDisk' \cup consumed' OBVIOUS
  <2>1. CASE HasData BY <2>1, HasDataKeepsDisk
  <2>2. CASE ~HasData
    <3>1. (\E e \in Entry : Write(e)) \/ Reader \/ Close \/ Crash BY <2>2 DEF Next
    <3> QED BY <3>1, OthersKeepDisk DEF Copied
  <2> QED BY <2>1, <2>2
<1> QED BY <1>1, <1>2, NextCopied, Invariance, PTL DEF Spec, MergeKeeps

=============================================================================
