-------------------------- MODULE FileBufferProofs --------------------------
(***************************************************************************)
(* Proofs about FileBuffer, for any set of entries and any faults: its     *)
(* type invariant, what a Reader that releases the mutex may and may not   *)
(* lose, that HasData tells the truth, and that callers that keep Write    *)
(* and Reader apart get a FallbackStore.                                   *)
(***************************************************************************)
EXTENDS FileBuffer, SequenceLemmas

-----------------------------------------------------------------------------
(* The content of the files *)

LEMMA ReadableIs ==
    \A s : Readable(s) = Until(s, Garbage)
BY DEF Readable, Until

LEMMA EmptySequence ==
    Range(<<>>) = {} /\ Readable(<<>>) = {} /\ \A S : <<>> \in Seq(S)
BY DEF Range, Readable

\* Without garbage everything in a file can be decoded.
LEMMA ReadableClean ==
    ASSUME NEW s \in Seq(Chunk), Garbage \notin Range(s)
    PROVE  Readable(s) = Range(s)
BY ReadableIs, UntilNone, Zenon

LEMMA ReadableInRange ==
    ASSUME NEW s \in Seq(Chunk)
    PROVE  Readable(s) \subseteq Range(s) \ {Garbage} /\ Readable(s) \subseteq Entry
<1>1. Readable(s) \subseteq Range(s) \ {Garbage} /\ Readable(s) \subseteq Chunk \ {Garbage} BY ReadableIs, UntilRange, Zenon
<1> QED BY <1>1 DEF Chunk

\* What can be decoded behind an append could be decoded before, or is what the
\* appended content decodes to by itself.
LEMMA ReadableConcat ==
    ASSUME NEW s \in Seq(Chunk), NEW t \in Seq(Chunk)
    PROVE  Readable(s \o t) \subseteq Readable(s) \cup Readable(t)
BY ReadableIs, UntilConcat, Zenon

\* Content behind an append can be decoded as before.
LEMMA AppendKeeps ==
    ASSUME NEW s \in Seq(Chunk), NEW t \in Seq(Chunk)
    PROVE  Readable(s) \subseteq Readable(s \o t)
BY ReadableIs, UntilKeeps, Zenon

LEMMA PrefixReadable ==
    ASSUME NEW s \in Seq(Chunk), NEW n \in 0..Len(s)
    PROVE  Readable(SubSeq(s, 1, n)) \subseteq Readable(s)
BY ReadableIs, UntilPrefix, Zenon

\* An interrupted write leaves at most what a complete one leaves.
LEMMA TornContent ==
    ASSUME NEW s \in Seq(Chunk), NEW p \in TornPrefixes(s)
    PROVE  p \in Seq(Chunk) /\ Readable(p) \subseteq Readable(s)
<1>1. PICK n \in 0..Len(s) : p = SubSeq(s, 1, n) \o <<Garbage>> BY DEF TornPrefixes
<1>2. SubSeq(s, 1, n) \in Seq(Chunk) /\ <<Garbage>> \in Seq(Chunk) BY DEF Chunk
<1>3. Readable(SubSeq(s, 1, n)) \subseteq Readable(s) BY PrefixReadable
<1>4. Readable(<<Garbage>>) = {} BY DEF Readable
<1>5. SubSeq(s, 1, n) \o <<Garbage>> \in Seq(Chunk) BY <1>2, RangeConcat, Zenon
<1>6. Readable(SubSeq(s, 1, n) \o <<Garbage>>) \subseteq Readable(s)
    BY <1>2, <1>3, <1>4, ReadableConcat, Zenon
<1> QED BY <1>1, <1>5, <1>6, Zenon

-----------------------------------------------------------------------------
(* Types *)

\* Only an open stream has something in it, and its file has been created; so
\* has one with content.
Stream ==
    /\ gz # <<>> => w = "open"
    /\ w = "open" \/ file # <<>> => exists

Inv == TypeOK /\ Stream

LEMMA FaultType ==
    ASSUME TypeOK, NEW k, Fault(k)
    PROVE  faults' \in Nat /\ faults' > 0
BY DEF TypeOK, Fault

\* Closing the stream, successful or not, keeps the types and empties it.
LEMMA CloseType ==
    ASSUME Inv, closeOK \/ closeErr
    PROVE  /\ w' \in {"nil", "open", "failed", "closed"}
           /\ gz' \in Seq(Chunk) /\ file' \in Seq(Chunk) /\ faults' \in Nat
           /\ exists' = exists
           /\ gz' = <<>>
           /\ w' = "open" \/ file' # <<>> => exists'
<1> USE DEF Inv
<1>0. gz \in Seq(Chunk) /\ file \in Seq(Chunk) /\ Flushed \in Seq(Chunk)
    BY DEF TypeOK, Flushed
<1>1. CASE closeOK
  <2>1. w = "nil" => Flushed = file BY <1>0 DEF Flushed, Stream
  <2> QED BY <1>0, <1>1, <2>1, EmptySequence DEF closeOK, TypeOK, Stream
<1>2. CASE w \in {"failed", "closed"} /\ UNCHANGED <<w, gz, exists, file, faults>>
  BY <1>2 DEF TypeOK, Stream
<1>3. CASE closeErr /\ w = "open"
  <2>1. Fault("disk") /\ gz' = <<>> /\ exists' = exists BY <1>3 DEF closeErr
  <2>2. faults' \in Nat BY <2>1, FaultType
  <2>3. CASE w' = "failed" /\ \E p \in TornPrefixes(gz) : file' = file \o p
    <3>1. PICK p \in TornPrefixes(gz) : file' = file \o p BY <2>3
    <3>2. file' \in Seq(Chunk) BY <1>0, <3>1, TornContent
    <3> QED BY <1>3, <2>1, <2>2, <2>3, <3>2, EmptySequence DEF TypeOK, Stream
  <2>4. CASE w' = "closed" /\ file' = Flushed
    BY <1>0, <1>3, <2>1, <2>2, <2>4, EmptySequence DEF TypeOK, Stream
  <2> QED BY <1>3, <2>3, <2>4 DEF closeErr
<1> QED BY <1>1, <1>2, <1>3 DEF closeErr

LEMMA InitInv == Init => Inv
<1> SUFFICES ASSUME Init PROVE Inv OBVIOUS
<1>1. gz \in Seq(Chunk) /\ file \in Seq(Chunk) BY EmptySequence DEF Init
<1> QED BY <1>1 DEF Init, Inv, TypeOK, Stream

LEMMA WriteInv ==
    ASSUME Inv, NEW e \in Entry, Write(e)
    PROVE  Inv'
<1> USE DEF Inv
<1>0. e \in Chunk /\ gz \in Seq(Chunk) /\ file \in Seq(Chunk) BY DEF Chunk, TypeOK
<1>a. overlapped' \in BOOLEAN /\ UNCHANGED <<call, found, consumed>> BY DEF Write, TypeOK
<1>1. CASE WriteOK(e)
  <2>1. gz' \in Seq(Chunk) BY <1>0, <1>1, RangeAppend DEF WriteOK
  <2> QED BY <1>1, <1>a, <2>1 DEF WriteOK, TypeOK, Stream
<1>2. CASE WriteOpenFails
  <2>1. faults' \in Nat BY <1>2, FaultType DEF WriteOpenFails
  <2> QED BY <1>2, <1>a, <2>1 DEF WriteOpenFails, TypeOK, Stream
<1>3. CASE WriteThroughFails(e)
  <2>1. faults' \in Nat BY <1>3, FaultType DEF WriteThroughFails
  <2>2. Append(gz, e) \in Seq(Chunk) BY <1>0, RangeAppend
  <2>3. PICK p \in TornPrefixes(Append(gz, e)) : file' = file \o p
      BY <1>3 DEF WriteThroughFails
  <2>4. p \in Seq(Chunk) BY <2>2, TornContent, Zenon
  <2>5. file' \in Seq(Chunk) BY <1>0, <2>3, <2>4
  <2> QED BY <1>3, <1>a, <2>1, <2>5, EmptySequence DEF WriteThroughFails, TypeOK, Stream
<1>4. CASE WriteRefused
  BY <1>4, <1>a DEF WriteRefused, TypeOK, Stream
<1>5. CASE WriteForgotten(e)
  BY <1>5, <1>a DEF WriteForgotten, TypeOK, Stream
<1> QED BY <1>1, <1>2, <1>3, <1>4, <1>5 DEF Write

LEMMA HasDataInv ==
    ASSUME Inv, HasData
    PROVE  Inv'
<1> USE DEF Inv
<1>1. faults' \in Nat /\ ret' \in {"true", "false", "error"}
    BY FaultType DEF HasData, TypeOK
<1> QED BY <1>1 DEF HasData, history, TypeOK, Stream

LEMMA CloseInv ==
    ASSUME Inv, Close
    PROVE  Inv'
BY CloseType DEF Close, history, Inv, TypeOK, Stream

LEMMA ReaderInv ==
    ASSUME Inv, Reader
    PROVE  Inv'
<1> USE DEF Inv
<1>0. gz \in Seq(Chunk) /\ file \in Seq(Chunk) BY DEF TypeOK
<1>1. CASE ReaderClose
  <2>1. file' \in Seq(Chunk) BY <1>1, CloseType DEF ReaderClose
  <2>2. Readable(file') \subseteq Entry BY <2>1, ReadableInRange
  <2> QED BY <1>1, <2>2, CloseType DEF ReaderClose, Return, TypeOK, Stream
<1>2. CASE ReaderOpen
  <2>1. faults' \in Nat BY <1>2, FaultType DEF ReaderOpen, TypeOK
  <2> QED BY <1>2, <2>1 DEF ReaderOpen, Return, history, TypeOK, Stream
<1>3. CASE ReaderFnOK
  <2>1. PICK n \in 0..Len(gz) : consumed' = consumed \cup Readable(file \o SubSeq(gz, 1, n))
      BY <1>3 DEF ReaderFnOK
  <2>2. SubSeq(gz, 1, n) \in Seq(Chunk) BY <1>0
  <2>3. file \o SubSeq(gz, 1, n) \in Seq(Chunk) BY <1>0, <2>2, RangeConcat
  <2>4. consumed' \subseteq Entry BY <2>1, <2>3, ReadableInRange DEF TypeOK
  <2> QED BY <1>3, <2>4 DEF ReaderFnOK, TypeOK, Stream
<1>4. CASE ReaderFnErr
  BY <1>4 DEF ReaderFnErr, Return, history, TypeOK, Stream
<1>5. CASE ReaderTruncate
  <2>1. faults' \in Nat BY <1>5, FaultType DEF ReaderTruncate, TypeOK
  <2>2. <<>> \in Seq(Chunk) /\ <<Garbage>> \in Seq(Chunk) BY EmptySequence DEF Chunk
  <2>3. gz' \in Seq(Chunk) /\ file' \in Seq(Chunk) BY <1>0, <1>5, <2>2 DEF ReaderTruncate
  <2>4. /\ gz' # <<>> => gz # <<>>
        /\ file' # <<>> => file # <<>>
      BY <1>5 DEF ReaderTruncate
  <2>5. call' = "none" /\ ret' \in {"ok", "error"} /\ UNCHANGED <<w, exists, history>>
      BY <1>5 DEF ReaderTruncate, Return
  <2> QED BY <2>1, <2>3, <2>4, <2>5 DEF history, TypeOK, Stream
<1> QED BY <1>1, <1>2, <1>3, <1>4, <1>5 DEF Reader

LEMMA CrashInv ==
    ASSUME Inv, Crash
    PROVE  Inv'
<1> USE DEF Inv
<1>0. gz \in Seq(Chunk) /\ file \in Seq(Chunk) BY DEF TypeOK
<1>1. faults' \in Nat BY FaultType DEF Crash
<1>2. file' \in Seq(Chunk)
  <2>1. CASE file' = file BY <1>0, <2>1
  <2>2. CASE \E p \in TornPrefixes(gz) : file' = file \o p
    <3>1. PICK p \in TornPrefixes(gz) : file' = file \o p BY <2>2
    <3> QED BY <1>0, <3>1, TornContent
  <2> QED BY <2>1, <2>2 DEF Crash
<1>3. file' # <<>> => exists' BY DEF Crash, Stream
<1> QED BY <1>1, <1>2, <1>3, EmptySequence DEF Crash, Return, history, TypeOK, Stream

LEMMA NextInv == Inv /\ [Next]_vars => Inv'
<1> SUFFICES ASSUME Inv, [Next]_vars PROVE Inv' OBVIOUS
<1>1. CASE UNCHANGED vars
  BY <1>1 DEF vars, history, Inv, TypeOK, Stream
<1>2. CASE Next
  BY <1>2, WriteInv, HasDataInv, ReaderInv, CloseInv, CrashInv DEF Next
<1> QED BY <1>1, <1>2

LEMMA Invariance == Spec => []Inv
BY InitInv, NextInv, PTL DEF Spec

\* The variables of the file buffer keep their types, whatever calls overlap and
\* whatever disk operations fail.
THEOREM TypeCorrect == Spec => []TypeOK
<1>1. Inv => TypeOK BY DEF Inv
<1> QED BY <1>1, Invariance, PTL

-----------------------------------------------------------------------------
(* What is lost, and what is handed out twice *)

\* While nothing has failed the stream works, and what is stored or consumed
\* was written.
Sound ==
    faults = 0 =>
        /\ w \in {"nil", "open"}
        /\ consumed \subseteq written
        /\ Stored \subseteq written

\* NoLoss for the entries a Reader found is not inductive: when it comes to the
\* Truncate, a callback has accepted all of them, or there were none.
Found ==
    faults = 0 =>
        /\ found \subseteq Readable(file) \cup consumed
        /\ call \in {"accepted", "empty"} => found \subseteq consumed

\* Nor is it for what was written: without a Write between its steps there is
\* nothing in the stream while a Reader runs, so its Truncate leaves no garbage
\* and erases only what its callback has seen.
Apart ==
    faults = 0 /\ ~overlapped =>
        /\ Garbage \notin Range(file) \cup Range(gz)
        /\ written \subseteq Stored \cup consumed
        /\ call # "none" => gz = <<>>
        /\ call = "accepted" => Readable(file) \subseteq consumed
        /\ call = "empty" => file = <<>>

Content == Sound /\ Found /\ Apart /\ NoRedelivery

LEMMA ReadableAppend ==
    ASSUME NEW s \in Seq(Chunk), NEW e \in Chunk
    PROVE  Readable(Append(s, e)) \subseteq Readable(s) \cup {e}
<1>1. ASSUME NEW x \in Readable(Append(s, e)), x # e PROVE x \in Readable(s)
  <2>1. PICK i \in 1..Len(Append(s, e)) :
            x = Append(s, e)[i] /\ \A k \in 1..i : Append(s, e)[k] # Garbage
      BY <1>1 DEF Readable
  <2>2. i \in 1..Len(s) /\ \A k \in 1..i : Append(s, e)[k] = s[k] BY <1>1, <2>1
  <2> QED BY <2>1, <2>2 DEF Readable
<1> QED BY <1>1

\* What is stored, if there is no garbage.
LEMMA StoredClean ==
    ASSUME Inv, Garbage \notin Range(file) \cup Range(gz)
    PROVE  /\ Stored = Range(file) \cup Range(gz)
           /\ Readable(file) = Range(file)
<1>1. gz \in Seq(Chunk) /\ file \in Seq(Chunk) BY DEF Inv, TypeOK
<1>2. Readable(file) = Range(file) /\ Readable(gz) = Range(gz) BY <1>1, ReadableClean
<1> QED BY <1>2 DEF Stored

LEMMA NoFault ==
    ASSUME Inv, faults' = 0
    PROVE  \A k : ~Fault(k)
BY FaultType DEF Inv

\* The number of faults never goes down.
LEMMA FaultsGrow ==
    ASSUME Inv, [Next]_vars, faults' = 0
    PROVE  faults = 0
<1>1. \A k : ~Fault(k) BY NoFault
<1>2. closeOK \/ closeErr => faults' = faults BY <1>1 DEF closeOK, closeErr
<1>3. CASE UNCHANGED vars BY <1>3 DEF vars
<1>4. ASSUME NEW e \in Entry, Write(e) PROVE faults' = faults
  BY <1>1, <1>4 DEF Write, WriteOK, WriteOpenFails, WriteThroughFails, WriteRefused, WriteForgotten
<1>5. CASE HasData BY <1>1, <1>5 DEF HasData
<1>6. CASE Reader
  BY <1>1, <1>2, <1>6 DEF Reader, ReaderClose, ReaderOpen, ReaderFnErr, ReaderFnOK, ReaderTruncate
<1>7. CASE Close BY <1>2, <1>7 DEF Close
<1>8. CASE Crash BY <1>1, <1>8 DEF Crash
<1> QED BY <1>3, <1>4, <1>5, <1>6, <1>7, <1>8 DEF Next

\* Closing the stream moves what is in it to the end of the file.
LEMMA CloseStored ==
    ASSUME Inv, closeOK
    PROVE  /\ gz' = <<>> /\ file' \in Seq(Chunk)
           /\ Stored' = Readable(file')
           /\ Stored' \subseteq Stored
           /\ Readable(file) \subseteq Readable(file')
           /\ Range(file') = Range(file) \cup Range(gz)
           /\ gz = <<>> => file' = file
<1>1. gz \in Seq(Chunk) /\ file \in Seq(Chunk) BY DEF Inv, TypeOK
<1>2. gz' = <<>> /\ file' = file \o gz BY DEF closeOK, Flushed
<1>3. file' \in Seq(Chunk) /\ Range(file') = Range(file) \cup Range(gz)
    BY <1>1, <1>2, RangeConcat
<1>4. Readable(file') \subseteq Readable(file) \cup Readable(gz) BY <1>1, <1>2, ReadableConcat
<1>5. Readable(file) \subseteq Readable(file') BY <1>1, <1>2, AppendKeeps
<1>6. Readable(gz') = {} BY <1>2, EmptySequence
<1>7. gz = <<>> => file' = file BY <1>1, <1>2
<1> QED BY <1>2, <1>3, <1>4, <1>5, <1>6, <1>7 DEF Stored

LEMMA CloseOK ==
    ASSUME Inv, Content, faults = 0, faults' = 0, closeOK \/ closeErr
    PROVE  closeOK /\ ~closeErr /\ w' = "nil"
<1>1. \A k : ~Fault(k) BY NoFault
<1> QED BY <1>1 DEF closeErr, closeOK, Content, Sound

LEMMA InitContent == Init => Content
<1> SUFFICES ASSUME Init PROVE Content OBVIOUS
<1>1. Readable(file) = {} /\ Readable(gz) = {} /\ Range(file) = {} /\ Range(gz) = {}
    BY EmptySequence DEF Init
<1> QED BY <1>1 DEF Init, Content, Sound, Found, Apart, NoRedelivery, Stored

LEMMA WriteContent ==
    ASSUME Inv, Content, NEW e \in Entry, Write(e), faults' = 0, faults = 0
    PROVE  Content'
<1>1. WriteOK(e)
  <2>1. ~WriteOpenFails /\ ~WriteThroughFails(e)
      BY NoFault DEF WriteOpenFails, WriteThroughFails
  <2>2. ~WriteRefused /\ ~WriteForgotten(e)
      BY DEF WriteRefused, WriteForgotten, Content, Sound
  <2> QED BY <2>1, <2>2 DEF Write
<1>2. e \in Chunk /\ gz \in Seq(Chunk) /\ e # Garbage
    BY FileBufferAssumption DEF Chunk, Inv, TypeOK
<1>3. /\ gz' = Append(gz, e) /\ file' = file /\ written' = written \cup {e} /\ w' = "open"
      /\ UNCHANGED <<call, found, consumed>> /\ e \notin written
    BY <1>1 DEF Write, WriteOK
<1>4. Stored' \subseteq Stored \cup {e} BY <1>2, <1>3, ReadableAppend DEF Stored
<1>5. Sound' BY <1>3, <1>4 DEF Content, Sound
<1>6. Found' BY <1>3 DEF Content, Found
<1>7. NoRedelivery' BY <1>3, <1>4 DEF Content, NoRedelivery, Sound
<1>8. Apart'
  <2> SUFFICES ASSUME ~overlapped' PROVE Apart' BY DEF Apart
  <2>1. ~overlapped /\ call = "none" BY DEF Write, Inv, TypeOK
  <2>2. Range(gz') = Range(gz) \cup {e} BY <1>2, <1>3, RangeAppend
  <2>3. Garbage \notin Range(file') \cup Range(gz') BY <1>2, <1>3, <2>1, <2>2 DEF Content, Apart
  <2>4. Stored' = Range(file') \cup Range(gz')
    <3>1. gz' \in Seq(Chunk) /\ file' \in Seq(Chunk) BY WriteInv DEF Inv, TypeOK
    <3> QED BY <2>3, <3>1, ReadableClean DEF Stored
  <2>5. Stored = Range(file) \cup Range(gz) BY <2>1, StoredClean DEF Content, Apart
  <2> QED BY <1>3, <2>1, <2>2, <2>3, <2>4, <2>5 DEF Content, Apart
<1> QED BY <1>5, <1>6, <1>7, <1>8 DEF Content

\* Neither the content nor the histories change.
LEMMA SameContent ==
    ASSUME Content, UNCHANGED <<w, gz, file, history, faults>>,
           \/ call' = call
           \/ call' \in {"none", "opened"} /\ call \in {"closed", "opened"}
    PROVE  Content'
<1>1. Stored' = Stored BY DEF Stored
<1>2. UNCHANGED <<found, consumed, written, overlapped>> BY DEF history
<1>3. Sound' /\ Found' BY <1>1, <1>2 DEF Content, Sound, Found
<1>4. Apart' BY <1>1, <1>2 DEF Content, Apart
<1>5. NoRedelivery' BY <1>1, <1>2 DEF Content, NoRedelivery
<1> QED BY <1>3, <1>4, <1>5 DEF Content

LEMMA CloseContent ==
    ASSUME Inv, Content, Close, faults' = 0, faults = 0
    PROVE  Content'
<1>1. closeOK /\ w' = "nil" BY CloseOK DEF Close
<1>2. UNCHANGED <<call, found, consumed, written, overlapped>> BY DEF Close, history
<1>3. Sound' BY <1>1, <1>2, CloseStored DEF Content, Sound
<1>4. Found' BY <1>1, <1>2, CloseStored DEF Content, Found
<1>5. NoRedelivery' BY <1>1, <1>2, CloseStored DEF Content, NoRedelivery
<1>6. Apart'
  <2> SUFFICES ASSUME ~overlapped PROVE Apart' BY <1>2 DEF Apart
  <2>1. Range(gz') = {} /\ gz' = <<>> BY <1>1, CloseStored, EmptySequence
  <2>2. Garbage \notin Range(file') \cup Range(gz')
      BY <1>1, <2>1, CloseStored DEF Content, Apart
  <2>3. Stored' = Range(file') BY <1>1, <2>2, CloseStored, ReadableClean
  <2>4. Stored = Range(file) \cup Range(gz) BY StoredClean DEF Content, Apart
  <2>5. Stored' = Stored BY <1>1, <2>3, <2>4, CloseStored
  <2>6. call # "none" => file' = file BY <1>1, CloseStored DEF Content, Apart
  <2> QED BY <1>2, <2>1, <2>2, <2>5, <2>6 DEF Content, Apart
<1> QED BY <1>3, <1>4, <1>5, <1>6 DEF Content

LEMMA ReaderContent ==
    ASSUME Inv, Content, Reader, faults' = 0, faults = 0
    PROVE  Content'
<1>0. gz \in Seq(Chunk) /\ file \in Seq(Chunk) BY DEF Inv, TypeOK
<1>b. \A k : ~Fault(k) BY NoFault
<1>1. CASE ReaderClose
  <2>1. closeOK /\ ~closeErr /\ w' = "nil" BY <1>1, CloseOK DEF ReaderClose
  <2>2. /\ UNCHANGED <<consumed, written, overlapped>>
        /\ call = "none" /\ call' = "closed" /\ found' = Readable(file')
      BY <1>1, <2>1 DEF ReaderClose
  <2>3. Sound' BY <2>1, <2>2, CloseStored DEF Content, Sound
  <2>4. Found' BY <2>2 DEF Found
  <2>5. NoRedelivery' BY <2>1, <2>2, CloseStored DEF Content, NoRedelivery
  <2>6. Apart'
    <3> SUFFICES ASSUME ~overlapped PROVE Apart' BY <2>2 DEF Apart
    <3>1. Range(gz') = {} /\ gz' = <<>> BY <2>1, CloseStored, EmptySequence
    <3>2. Garbage \notin Range(file') \cup Range(gz')
        BY <2>1, <3>1, CloseStored DEF Content, Apart
    <3>3. Stored' = Range(file') BY <2>1, <3>2, CloseStored, ReadableClean
    <3>4. Stored = Range(file) \cup Range(gz) BY StoredClean DEF Content, Apart
    <3>5. Stored' = Stored BY <2>1, <3>3, <3>4, CloseStored
    <3> QED BY <2>2, <3>1, <3>2, <3>5 DEF Content, Apart
  <2> QED BY <2>3, <2>4, <2>5, <2>6 DEF Content
<1>2. CASE ReaderOpen
  <2>1. UNCHANGED <<w, gz, file, history, faults>> /\ call = "closed"
      BY <1>2, <1>b DEF ReaderOpen
  <2>2. CASE call' \in {"none", "opened"} BY <2>1, <2>2, SameContent
  <2>3. CASE call' = "empty"
    <3>1. 0 \in Sizes
      <4>1. PICK n \in Sizes : call' = IF n > 0 THEN "opened" ELSE "empty"
          BY <1>2, <1>b, <2>3 DEF ReaderOpen, Return
      <4>2. Len(file) \in Nat /\ Sizes \subseteq {Len(file), Len(file) + 1} BY <1>0 DEF Sizes
      <4> QED BY <2>3, <4>1, <4>2
    <3>2. file = <<>> BY <1>0, <3>1 DEF Sizes
    <3>3. found \subseteq consumed BY <3>2, EmptySequence DEF Content, Found
    <3>4. Stored' = Stored /\ UNCHANGED <<found, consumed, written, overlapped>>
        BY <2>1 DEF Stored, history
    <3> QED BY <2>1, <2>3, <3>2, <3>3, <3>4
            DEF Content, Sound, Found, Apart, NoRedelivery
  <2> QED BY <1>2, <1>b, <2>2, <2>3 DEF ReaderOpen, Return
<1>3. CASE ReaderFnErr
  BY <1>3, SameContent DEF ReaderFnErr, Return
<1>4. CASE ReaderFnOK
  <2>1. PICK n \in 0..Len(gz) : consumed' = consumed \cup Readable(file \o SubSeq(gz, 1, n))
      BY <1>4 DEF ReaderFnOK
  <2>2. SubSeq(gz, 1, n) \in Seq(Chunk) BY <1>0
  <2>3. Readable(file) \subseteq consumed' BY <1>0, <2>1, <2>2, AppendKeeps
  <2>4. consumed' \subseteq consumed \cup Stored
    <3>1. Readable(SubSeq(gz, 1, n)) \subseteq Readable(gz) BY <1>0, PrefixReadable
    <3>2. Readable(file \o SubSeq(gz, 1, n)) \subseteq Readable(file) \cup Readable(SubSeq(gz, 1, n))
        BY <1>0, <2>2, ReadableConcat
    <3> QED BY <2>1, <3>1, <3>2 DEF Stored
  <2>5. /\ UNCHANGED <<w, gz, file, found, written, overlapped>>
        /\ call = "opened" /\ call' = "accepted" /\ Stored' = Stored
      BY <1>4 DEF ReaderFnOK, Stored
  <2>6. Sound' /\ Found' /\ NoRedelivery'
      BY <2>1, <2>3, <2>4, <2>5 DEF Content, Sound, Found, NoRedelivery
  <2>7. Apart' BY <2>1, <2>3, <2>5 DEF Content, Apart
  <2> QED BY <2>6, <2>7 DEF Content
<1>5. CASE ReaderTruncate
  <2>1. /\ file' = <<>> /\ gz' = (IF gz = <<>> THEN gz ELSE <<Garbage>>)
        /\ call \in {"accepted", "empty"} /\ call' = "none"
        /\ UNCHANGED <<w, found, consumed, written, overlapped>>
      BY <1>5, <1>b DEF ReaderTruncate, Return, history
  <2>2. Readable(<<Garbage>>) = {} BY DEF Readable
  <2>3. Stored' = {} BY <2>1, <2>2, EmptySequence DEF Stored
  <2>4. Sound' /\ Found' /\ NoRedelivery'
      BY <2>1, <2>3 DEF Content, Sound, Found, NoRedelivery
  <2>5. Apart'
    <3> SUFFICES ASSUME ~overlapped PROVE Apart' BY <2>1 DEF Apart
    <3>1. gz = <<>> BY <2>1 DEF Content, Apart
    <3>2. Stored \subseteq consumed
      BY <2>1, <3>1, EmptySequence DEF Content, Apart, Stored
    <3>3. Range(file') = {} /\ Range(gz') = {} BY <2>1, <3>1, EmptySequence
    <3> QED BY <2>1, <3>1, <3>2, <3>3 DEF Content, Apart
  <2> QED BY <2>4, <2>5 DEF Content
<1> QED BY <1>1, <1>2, <1>3, <1>4, <1>5 DEF Reader

LEMMA NextContent == Inv /\ Content /\ [Next]_vars => Content'
<1> SUFFICES ASSUME Inv, Content, [Next]_vars, faults' = 0 PROVE Content'
    BY DEF Content, Sound, Found, Apart, NoRedelivery
<1>0. faults = 0 BY FaultsGrow
<1>1. CASE UNCHANGED vars BY <1>1, SameContent DEF vars
<1>2. CASE HasData
  <2>1. \A k : ~Fault(k) BY NoFault
  <2> QED BY <1>2, <2>1, SameContent DEF HasData
<1>3. ~Crash BY NoFault DEF Crash
<1> QED BY <1>0, <1>1, <1>2, <1>3, WriteContent, ReaderContent, CloseContent DEF Next

LEMMA ContentInvariance == Spec => [](Inv /\ Content)
<1>1. Init => Inv /\ Content BY InitInv, InitContent
<1>2. Inv /\ Content /\ [Next]_vars => Inv' /\ Content' BY NextInv, NextContent
<1> QED BY <1>1, <1>2, PTL DEF Spec

\* Reader releases the mutex before it opens the file.  Whatever comes between
\* its steps, what it found in the file is not lost; and unless a Write does,
\* nothing that was ever written is.
THEOREM NothingLost == Spec => []NoLoss
<1>1. Content => NoLoss BY DEF Content, Found, Apart, NoLoss
<1> QED BY <1>1, ContentInvariance, PTL

\* What a callback has accepted is gone from the buffer when Reader has returned,
\* also what was written while it ran.
THEOREM NothingRedelivered == Spec => []NoRedelivery
<1>1. Content => NoRedelivery BY DEF Content
<1> QED BY <1>1, ContentInvariance, PTL

-----------------------------------------------------------------------------
(* HasData *)

\* The size of the file, with the header of an open stream in it, tells whether
\* anything is stored.
LEMMA SizesTell ==
    ASSUME Inv, Content, faults = 0, ~overlapped, NEW n \in Sizes
    PROVE  exists /\ n > 0 <=> Stored # {}
<1>0. gz \in Seq(Chunk) /\ file \in Seq(Chunk) BY DEF Inv, TypeOK
<1>1. Garbage \notin Range(file) \cup Range(gz) BY DEF Content, Apart
<1>2. Stored = Range(file) \cup Range(gz) BY <1>1, StoredClean
<1>3. file # <<>> => 1 \in 1..Len(file) /\ file[1] \in Range(file) BY <1>0 DEF Range
<1>4. gz # <<>> => 1 \in 1..Len(gz) /\ gz[1] \in Range(gz) BY <1>0 DEF Range
<1>5. CASE gz = <<>>
  <2>1. n = Len(file) BY <1>5 DEF Sizes
  <2>2. n > 0 <=> file # <<>> BY <1>0, <2>1
  <2>3. Stored # {} <=> file # <<>> BY <1>2, <1>3, <1>5, EmptySequence
  <2> QED BY <2>2, <2>3 DEF Inv, Stream
<1>6. CASE gz # <<>>
  <2>1. Head(gz) # Garbage BY <1>0, <1>1, <1>4, <1>6
  <2>2. n = Len(file) + 1 BY <1>6, <2>1 DEF Sizes
  <2>3. n > 0 BY <1>0, <2>2
  <2>4. Stored # {} BY <1>2, <1>4, <1>6
  <2> QED BY <1>6, <2>3, <2>4 DEF Inv, Stream
<1> QED BY <1>5, <1>6

LEMMA NextTells == Inv /\ Content /\ HasDataTells /\ [Next]_vars => HasDataTells'
<1> SUFFICES ASSUME Inv, Content, HasDataTells, [Next]_vars, faults' = 0, ~overlapped',
                    call' = "none", ret' \in {"true", "false"}
             PROVE  (ret = "true")' <=> (Stored # {})'
    BY DEF HasDataTells
<1>0. faults = 0 BY FaultsGrow
<1>1. CASE UNCHANGED vars
  BY <1>0, <1>1 DEF vars, history, HasDataTells, Stored
<1>2. CASE HasData
  <2>1. \A k : ~Fault(k) BY NoFault
  <2>2. PICK n \in Sizes : ret' = IF exists /\ n > 0 THEN "true" ELSE "false"
      BY <1>2, <2>1 DEF HasData
  <2>3. Stored' = Stored /\ ~overlapped BY <1>2 DEF HasData, history, Stored
  <2>4. exists /\ n > 0 <=> Stored # {} BY <1>0, <2>3, SizesTell
  <2> QED BY <2>2, <2>3, <2>4
<1>3. ASSUME NEW e \in Entry, Write(e) PROVE FALSE
  BY <1>3 DEF Write, WriteOK, WriteOpenFails, WriteThroughFails, WriteRefused, WriteForgotten
<1>4. ~Reader
  BY DEF Reader, ReaderClose, ReaderOpen, ReaderFnOK, ReaderFnErr, ReaderTruncate, Return
<1>5. ~Close /\ ~Crash BY DEF Close, Crash, Return
<1> QED BY <1>1, <1>2, <1>3, <1>4, <1>5 DEF Next

\* HasData is right about whether there is something to read, although it sees
\* only the size of the file and does not flush the stream.
THEOREM HasDataIsRight == Spec => []HasDataTells
<1>1. Init => HasDataTells BY DEF Init, HasDataTells
<1> QED BY <1>1, NextTells, ContentInvariance, PTL DEF Spec

-----------------------------------------------------------------------------
(* Kept apart, Write and Reader use a FallbackStore *)

\* Content appended to the file adds at most its own entries.
LEMMA AppendStored ==
    ASSUME Inv, NEW t \in Seq(Chunk), NEW p \in TornPrefixes(t) \cup {t},
           file' = file \o p, gz' = <<>>
    PROVE  Stored' \subseteq Readable(file) \cup Readable(t)
<1>1. file \in Seq(Chunk) BY DEF Inv, TypeOK
<1>2. p \in Seq(Chunk) /\ Readable(p) \subseteq Readable(t) BY TornContent
<1>3. Readable(file \o p) \subseteq Readable(file) \cup Readable(p) BY <1>1, <1>2, ReadableConcat
<1> QED BY <1>2, <1>3, EmptySequence DEF Stored

LEMMA CloseErrStored ==
    ASSUME Inv, closeErr
    PROVE  Stored' \subseteq Stored
<1>1. gz \in Seq(Chunk) BY DEF Inv, TypeOK
<1>2. CASE UNCHANGED <<gz, file>> BY <1>2 DEF Stored
<1>3. CASE gz' = <<>> /\ \E p \in TornPrefixes(gz) : file' = file \o p
  <2>1. PICK p \in TornPrefixes(gz) \cup {gz} : file' = file \o p BY <1>3
  <2> QED BY <1>1, <1>3, <2>1, AppendStored DEF Stored
<1>4. CASE gz' = <<>> /\ file' = Flushed
  <2>1. PICK p \in TornPrefixes(gz) \cup {gz} : file' = file \o p BY <1>4 DEF Flushed
  <2> QED BY <1>1, <1>4, <2>1, AppendStored DEF Stored
<1> QED BY <1>2, <1>3, <1>4 DEF closeErr

\* No step but a Write adds to what is stored, and a Write at most its entry.
LEMMA StepStored ==
    ASSUME Inv, Next
    PROVE  Stored' \subseteq Stored \/ \E e \in Entry : Stored' \subseteq Stored \cup {e}
<1>0. gz \in Seq(Chunk) /\ file \in Seq(Chunk) BY DEF Inv, TypeOK
<1>1. ASSUME NEW e \in Entry, Write(e) PROVE Stored' \subseteq Stored \cup {e}
  <2>0. e \in Chunk BY DEF Chunk
  <2>1. Readable(Append(gz, e)) \subseteq Readable(gz) \cup {e} BY <1>0, <2>0, ReadableAppend
  <2>2. CASE WriteOK(e) BY <2>1, <2>2 DEF WriteOK, Stored
  <2>3. CASE WriteThroughFails(e)
    <3>1. Append(gz, e) \in Seq(Chunk) BY <1>0, <2>0, RangeAppend
    <3>2. PICK p \in TornPrefixes(Append(gz, e)) \cup {Append(gz, e)} : file' = file \o p
        BY <2>3 DEF WriteThroughFails
    <3>3. gz' = <<>> BY <2>3 DEF WriteThroughFails
    <3>4. Stored' \subseteq Readable(file) \cup Readable(Append(gz, e))
        BY <3>1, <3>2, <3>3, AppendStored
    <3> QED BY <2>1, <3>4 DEF Stored
  <2>4. CASE WriteOpenFails \/ WriteRefused \/ WriteForgotten(e)
    BY <2>4 DEF WriteOpenFails, WriteRefused, WriteForgotten, Stored
  <2> QED BY <1>1, <2>2, <2>3, <2>4 DEF Write
<1>2. CASE HasData BY <1>2 DEF HasData, Stored
<1>3. CASE Close BY <1>3, CloseStored, CloseErrStored DEF Close
<1>4. CASE ReaderClose BY <1>4, CloseStored, CloseErrStored DEF ReaderClose
<1>5. CASE ReaderOpen \/ ReaderFnOK \/ ReaderFnErr
  BY <1>5 DEF ReaderOpen, ReaderFnOK, ReaderFnErr, Stored
<1>6. CASE ReaderTruncate
  <2>1. Readable(<<Garbage>>) = {} BY DEF Readable
  <2> QED BY <1>6, <2>1, EmptySequence DEF ReaderTruncate, Stored
<1>7. CASE Crash
  <2>1. CASE UNCHANGED <<gz, file>> BY <2>1 DEF Stored
  <2>2. CASE \E p \in TornPrefixes(gz) : file' = file \o p
    <3>1. PICK p \in TornPrefixes(gz) \cup {gz} : file' = file \o p BY <2>2
    <3>2. gz' = <<>> BY <1>7 DEF Crash
    <3> QED BY <1>0, <3>1, <3>2, AppendStored DEF Stored
  <2> QED BY <1>7, <2>1, <2>2 DEF Crash
<1> QED BY <1>1, <1>2, <1>3, <1>4, <1>5, <1>6, <1>7 DEF Next, Reader

\* While nothing fails and Write and Reader are kept apart, the histories account
\* for what is stored.
Account == faults = 0 /\ ~overlapped => Stored \cup consumed = written

LEMMA StoreStep ==
    ASSUME Inv, Inv', Account, Account', [Next]_vars
    PROVE  [Store!Next]_(Store!vars)
<1>0. gz \in Seq(Chunk) /\ file \in Seq(Chunk) BY DEF Inv, TypeOK
<1>1. CASE UNCHANGED vars
  BY <1>1 DEF vars, history, Store!vars, Stored
<1>2. CASE ReaderFnOK
  <2>1. PICK n \in 0..Len(gz) : consumed' = consumed \cup Readable(file \o SubSeq(gz, 1, n))
      BY <1>2 DEF ReaderFnOK
  <2> DEFINE S == Readable(file \o SubSeq(gz, 1, n)) \ consumed
  <2>2. Stored' = Stored /\ faults' = faults /\ overlapped' = overlapped
      BY <1>2 DEF ReaderFnOK, Stored
  <2>3. S \subseteq Stored \ consumed
    <3>1. SubSeq(gz, 1, n) \in Seq(Chunk) BY <1>0
    <3>2. Readable(SubSeq(gz, 1, n)) \subseteq Readable(gz) BY <1>0, PrefixReadable
    <3>3. Readable(file \o SubSeq(gz, 1, n)) \subseteq Readable(file) \cup Readable(SubSeq(gz, 1, n))
        BY <1>0, <3>1, ReadableConcat
    <3> QED BY <3>2, <3>3 DEF Stored
  <2>4. consumed' = consumed \cup S BY <2>1
  <2> HIDE DEF S
  <2>5. Store!Take(S) BY <2>2, <2>3, <2>4 DEF Store!Take
  <2> QED BY <2>3, <2>5 DEF Store!Next
<1>3. CASE Next /\ ~ReaderFnOK
  <2>1. consumed' = consumed
      BY <1>3 DEF Next, Write, HasData, Reader, ReaderClose, ReaderOpen, ReaderFnErr,
         ReaderTruncate, Close, Crash, history
  <2>2. CASE faults' # 0 \/ overlapped'
    <3>1. (faults > 0 \/ overlapped)' BY <2>2 DEF Inv, TypeOK
    <3>2. Store!Fail BY <1>3, <2>1, <3>1, StepStored DEF Store!Fail
    <3> QED BY <3>2 DEF Store!Next
  <2>3. CASE faults' = 0 /\ ~overlapped'
    <3>0. faults = 0 BY <1>3, <2>3, FaultsGrow
    <3>1. ~overlapped
        BY <1>3, <2>3 DEF Next, Write, HasData, Reader, ReaderClose, ReaderOpen, ReaderFnErr,
           ReaderTruncate, Close, Crash, history
    <3>2. Stored \cup consumed = written /\ (Stored \cup consumed)' = written'
        BY <2>3, <3>0, <3>1 DEF Account
    <3>3. CASE written' = written
      BY <2>1, <2>3, <3>0, <3>1, <3>2, <3>3 DEF Store!vars
    <3>4. ASSUME NEW e \in Entry, e \notin written, written' = written \cup {e}
          PROVE  Store!Next
      <4>1. Store!Put(e) BY <2>1, <2>3, <3>0, <3>1, <3>2, <3>4 DEF Store!Put
      <4> QED BY <4>1 DEF Store!Next
    <3>5. written' = written \/ \E e \in Entry : e \notin written /\ written' = written \cup {e}
        BY <1>3 DEF Next, Write, WriteOK, WriteOpenFails, WriteThroughFails, WriteRefused,
           WriteForgotten, HasData, Reader, ReaderClose, ReaderOpen, ReaderFnErr,
           ReaderTruncate, Close, Crash, history
    <3> QED BY <3>3, <3>4, <3>5
  <2> QED BY <2>2, <2>3
<1> QED BY <1>1, <1>2, <1>3

\* For callers that do not let a Write overlap with a Reader, the file, its gzip
\* stream and the Truncate implement one set of entries, with faults or without.
THEOREM Refinement == Spec => ImplementsStore
<1>1. Init => Store!Init
  <2> SUFFICES ASSUME Init PROVE Store!Init OBVIOUS
  <2>1. Stored = {} BY EmptySequence DEF Init, Stored
  <2> QED BY <2>1 DEF Init, Store!Init
<1>2. Inv /\ Account /\ (Inv /\ Account)' /\ [Next]_vars => [Store!Next]_(Store!vars)
    BY StoreStep
<1>3. Content => Account BY DEF Content, Sound, Apart, Account
<1> QED BY <1>1, <1>2, <1>3, ContentInvariance, PTL DEF Spec, ImplementsStore, Store!Spec

=============================================================================
