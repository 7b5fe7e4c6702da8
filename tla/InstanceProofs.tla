--------------------------- MODULE InstanceProofs ---------------------------
(***************************************************************************)
(* Proofs about Instance, for any number of callers, messages and buffers, *)
(* any queue size, and any outages, restarts and faults.                   *)
(*                                                                         *)
(* What the fallback buffer does is taken from DirBufferProofs.            *)
(***************************************************************************)
EXTENDS Instance, SequenceLemmas

DP == INSTANCE DirBufferProofs WITH Entry <- Msg

-----------------------------------------------------------------------------
(* The inductive invariant *)

\* A caller has a buffer as long as its call runs; those in sendq are blocked,
\* and each of them is there once.
Callers ==
    /\ \A p \in Proc : hold[p] = NoBuf <=> pc[p] = "idle"
    /\ \A i \in 1..Len(sendq) : pc[sendq[i]] = "blocked"
    /\ \A i, j \in 1..Len(sendq) : sendq[i] = sendq[j] => i = j

\* What the worker's position says: whether it has a buffer, that it uses the
\* fallback buffer only if there is one, and how far Close has come.
Worker ==
    /\ wbuf = NoBuf <=> wpc \notin {"send", "fallback", "put"}
    /\ wpc \in {"fallback", "reconnect", "reread"} => fb
    /\ fb => WriteBehavior = "Fallback"
    /\ wpc \in {"drain", "exited"} => draining
    /\ draining => closing
    /\ closing <=> cpc # "open"
    /\ cpc = "done" => wpc = "exited"
    /\ call # "none" => wpc \in {"boot", "flush", "reread"} /\ WriteBehavior = "Fallback"
    /\ call # "none" /\ wpc = "flush" => fb

\* OneOwner, place by place: every buffer is somewhere ...
Somewhere ==
    \A b \in Buf : \/ b \in pool
                   \/ \E p \in Proc : hold[p] = b
                   \/ \E i \in 1..Len(queue) : queue[i] = b
                   \/ wbuf = b

\* ... and nowhere else.
Once ==
    /\ \A p \in Proc : hold[p] \notin pool
    /\ \A i \in 1..Len(queue) : queue[i] \notin pool
    /\ wbuf \notin pool
    /\ \A p, q \in Proc : hold[p] = hold[q] /\ p # q => hold[p] = NoBuf
    /\ \A p \in Proc, i \in 1..Len(queue) : hold[p] # queue[i]
    /\ \A p \in Proc : hold[p] = wbuf => wbuf = NoBuf
    /\ \A i, j \in 1..Len(queue) : queue[i] = queue[j] => i = j
    /\ \A i \in 1..Len(queue) : queue[i] # wbuf

\* The messages in the buffers have been logged, and no two are the same; one
\* that is not yet in the queue has not been promised.
Messages ==
    /\ \A b \in Buf : buf[b] = NoMsg \/ buf[b] \in used
    /\ \A b, c \in Buf : buf[b] = buf[c] /\ b # c => buf[b] = NoMsg
    /\ \A p \in Proc : pc[p] # "idle" => buf[hold[p]] \in Msg /\ buf[hold[p]] \notin promised
    /\ \A i \in 1..Len(queue) : buf[queue[i]] \in Msg
    /\ wpc \in {"send", "fallback"} => buf[wbuf] \in Msg
    /\ promised \subseteq used

\* What has left the instance, for the client or the fallback buffer, was logged,
\* and went to one of them only; what is still here has not left.
Left == sent \cup consumed \cup DB!Stored \cup written

NotLeft ==
    /\ Left \subseteq used
    /\ sent \cap (consumed \cup DB!Stored \cup written) = {}
    /\ \A p \in Proc : pc[p] # "idle" => buf[hold[p]] \notin Left
    /\ \A i \in 1..Len(queue) : buf[queue[i]] \notin Left
    /\ wpc \in {"send", "fallback"} => buf[wbuf] \notin Left

\* Nothing is lost, in terms of what the fallback buffer has accepted; and when
\* Close has returned, nothing waits in the gzip stream.
Kept ==
    /\ outages = 0 => up /\ conn # "broken"
    /\ WriteBehavior # "Fallback" => gz = <<>>
    /\ Lossless => promised \subseteq sent \cup written \cup Pending
    /\ wpc = "exited" => promised \cap Pending = {}
    /\ cpc = "done" /\ faults = 0 => gz = <<>>

Core ==
    TypeOK /\ Callers /\ Worker /\ Somewhere /\ Once /\ Messages /\ NotLeft /\ FifoOnce
        /\ Kept

\* ... together with the invariant of the fallback buffer.
Inv == Core /\ DP!Inv /\ DP!Content

\* In the first life of the process there is nothing on disk when the worker
\* starts; and whatever the life, when a callback has accepted the read file, it
\* has accepted all of it.
FirstLife ==
    /\ restarts = 0 /\ wpc = "boot" =>
          disk = [f \in DB!File |-> <<>>] /\ gz = <<>> /\ call = "none"
    /\ call = "accepted" => DB!Readable(disk[rName]) \subseteq consumed

-----------------------------------------------------------------------------
(* The fallback buffer: Instance and DirBufferProofs mean the same *)

LEMMA SameState ==
    /\ DB!TypeOK <=> DP!TypeOK
    /\ DB!Stored = DP!Stored /\ DB!OnDisk = DP!OnDisk
    /\ DB!Init <=> DP!Init
    /\ DB!File = DP!File /\ DB!NoFile = DP!NoFile
    /\ \A s : DB!Readable(s) = DP!Readable(s)
    /\ DP!DirBufferAssumption
<1>1. DB!File = DP!File /\ DB!NoFile = DP!NoFile /\ \A s : DB!Readable(s) = DP!Readable(s)
    BY DEF DB!File, DP!File, DB!NoFile, DP!NoFile, DB!Readable, DP!Readable
<1>2. DB!OnDisk = DP!OnDisk BY DEF DB!OnDisk, DP!OnDisk, DB!File, DP!File, DB!Readable, DP!Readable
<1>3. DB!Stored = DP!Stored BY <1>2 DEF DB!Stored, DP!Stored, DB!Range, DP!Range
<1>4. DB!TypeOK <=> DP!TypeOK
    BY DEF DB!TypeOK, DP!TypeOK, DB!File, DP!File, DB!NoFile, DP!NoFile, DB!Chunk, DP!Chunk,
       DB!Calls, DP!Calls, DB!Results, DP!Results
<1>5. DB!Init <=> DP!Init
    BY DEF DB!Init, DP!Init, DB!File, DP!File, DB!NoFile, DP!NoFile
<1>6. DP!DirBufferAssumption BY InstanceAssumption DEF DP!DirBufferAssumption
<1> QED BY <1>1, <1>2, <1>3, <1>4, <1>5, <1>6

LEMMA SameActions ==
    /\ \A m : /\ DB!WriteOK(m) <=> DP!WriteOK(m)
              /\ DB!WriteThroughFails(m) <=> DP!WriteThroughFails(m)
              /\ DB!Fault(m) <=> DP!Fault(m)
    /\ DB!WriteOpenFails <=> DP!WriteOpenFails
    /\ DB!WriteRefused <=> DP!WriteRefused
    /\ DB!HasData <=> DP!HasData
    /\ DB!ReaderSwitch <=> DP!ReaderSwitch
    /\ DB!ReaderOpen <=> DP!ReaderOpen
    /\ DB!ReaderFnOK <=> DP!ReaderFnOK
    /\ DB!ReaderFnErr <=> DP!ReaderFnErr
    /\ DB!ReaderTruncate <=> DP!ReaderTruncate
    /\ DB!Close <=> DP!Close
    /\ DB!Crash <=> DP!Crash
    /\ DB!NewDirBuffer <=> DP!NewDirBuffer
<1> USE DEF DB!File, DP!File, DB!NoFile, DP!NoFile, DB!Fault, DP!Fault, DB!Return, DP!Return,
            DB!Appended, DP!Appended, DB!TornPrefixes, DP!TornPrefixes, DB!MutexFree, DP!MutexFree,
            DB!files, DP!files, DB!Flushed, DP!Flushed
<1>1. ASSUME NEW m
      PROVE  /\ DB!WriteOK(m) <=> DP!WriteOK(m)
             /\ DB!WriteThroughFails(m) <=> DP!WriteThroughFails(m)
             /\ DB!Fault(m) <=> DP!Fault(m)
    BY DEF DB!WriteOK, DP!WriteOK, DB!WriteThroughFails, DP!WriteThroughFails
<1>2. DB!WriteOpenFails <=> DP!WriteOpenFails BY DEF DB!WriteOpenFails, DP!WriteOpenFails
<1>3. DB!WriteRefused <=> DP!WriteRefused BY DEF DB!WriteRefused, DP!WriteRefused
<1>4. (DB!closeOK <=> DP!closeOK) /\ (DB!closeErr <=> DP!closeErr)
    BY DEF DB!closeOK, DP!closeOK, DB!closeErr, DP!closeErr, DB!closeSticky, DP!closeSticky,
       DB!closeFlushFails, DP!closeFlushFails, DB!closeFileFails, DP!closeFileFails,
       DB!closeReadFails, DP!closeReadFails
<1>5. DB!HasData <=> DP!HasData
    BY <1>4 DEF DB!HasData, DP!HasData, DB!HasDataNothing, DP!HasDataNothing,
       DB!HasDataInWrite, DP!HasDataInWrite, DB!HasDataInRead, DP!HasDataInRead,
       DB!HasDataInBoth, DP!HasDataInBoth, DB!HasDataCloseErr, DP!HasDataCloseErr,
       DB!HasDataCopy, DP!HasDataCopy, DB!HasDataTruncate, DP!HasDataTruncate
<1>6. DB!ReaderSwitch <=> DP!ReaderSwitch BY <1>4 DEF DB!ReaderSwitch, DP!ReaderSwitch
<1>7. DB!ReaderOpen <=> DP!ReaderOpen BY DEF DB!ReaderOpen, DP!ReaderOpen
<1>8. DB!ReaderFnOK <=> DP!ReaderFnOK
    BY DEF DB!ReaderFnOK, DP!ReaderFnOK, DB!Readable, DP!Readable
<1>9. DB!ReaderFnErr <=> DP!ReaderFnErr BY DEF DB!ReaderFnErr, DP!ReaderFnErr
<1>10. DB!ReaderTruncate <=> DP!ReaderTruncate BY DEF DB!ReaderTruncate, DP!ReaderTruncate
<1>11. DB!Close <=> DP!Close BY <1>4 DEF DB!Close, DP!Close
<1>12. DB!NewDirBuffer <=> DP!NewDirBuffer BY DEF DB!NewDirBuffer, DP!NewDirBuffer
<1>13. DB!Crash <=> DP!Crash BY <1>12 DEF DB!Crash, DP!Crash
<1> QED BY <1>1, <1>2, <1>3, <1>5, <1>6, <1>7, <1>8, <1>9, <1>10, <1>11, <1>12, <1>13

LEMMA SameNextState ==
    /\ DB!TypeOK' <=> DP!TypeOK'
    /\ DB!Stored' = DP!Stored' /\ DB!OnDisk' = DP!OnDisk'
<1>1. (DB!TypeOK <=> DP!TypeOK) /\ DB!Stored = DP!Stored /\ DB!OnDisk = DP!OnDisk BY SameState
<1>2. ((DB!TypeOK <=> DP!TypeOK) /\ DB!Stored = DP!Stored /\ DB!OnDisk = DP!OnDisk)' BY <1>1, PTL
<1> QED BY <1>2

\* The body of a message without its header.
GarbageWrite ==
    /\ write = DB!NoFile /\ DB!Fault("disk") /\ DB!WriteOK(Garbage)
    /\ UNCHANGED <<consumed, written>>

\* A new process.
NewBuffer ==
    /\ DB!NewDirBuffer
    /\ UNCHANGED <<exists, disk, consumed, written, faults>>

\* What a step may do to the fallback buffer.
LEMMA DirStep ==
    ASSUME Worker, NotLeft, Next
    PROVE  \/ UNCHANGED dirbuf
           \/ wpc = "fallback" /\ DP!Write(buf[wbuf])
           \/ wpc = "fallback" /\ GarbageWrite
           \/ wpc = "boot" /\ DP!HasData
           \/ wpc \in {"flush", "reread"} /\ fb /\ DP!Reader
           \/ cpc = "waiting" /\ wpc = "exited" /\ WriteBehavior = "Fallback" /\ DP!Close
           \/ DP!Crash
           \/ cpc = "done" /\ NewBuffer
<1>1. ASSUME NEW p \in Proc, LogBuild(p) \/ LogStep(p) PROVE UNCHANGED dirbuf
  BY <1>1 DEF LogBuild, LogStep, QueueMessage, QueueDrop, QueueFull, SendRoom, SendBlocks, Enqueue
<1>2. CASE FallbackWrite
  <2>1. wpc = "fallback" /\ consumed' = consumed BY <1>2 DEF FallbackWrite
  <2>2. buf[wbuf] \notin written BY <2>1 DEF NotLeft, Left
  <2> QED BY <1>2, <2>1, <2>2, SameActions DEF FallbackWrite, GarbageWrite, DP!Write
<1>3. CASE MaybeSetFb BY <1>3, SameActions DEF MaybeSetFb
<1>4. CASE FlushRead \/ FlushReread
  <2>1. wpc \in {"flush", "reread"} /\ fb BY <1>4 DEF FlushRead, FlushReread, Worker
  <2>2. DP!Reader BY <1>4, SameActions DEF FlushRead, FlushReread, ReaderStep, DP!Reader
  <2> QED BY <2>1, <2>2
<1>5. CASE WorkerStep /\ ~FallbackWrite /\ ~MaybeSetFb /\ ~FlushRead /\ ~FlushReread
  BY <1>5 DEF WorkerStep, FlushNothing, FlushReconnect, TopReceive, TopEmpty, SelectReceive,
     SelectTick, SelectClose, DrainReceive, DrainDone, SendFallback, SendOK, SendErr, PutBuffer,
     Receive
<1>6. CASE CloseEnd BY <1>6, SameActions DEF CloseEnd
<1>7. CASE CloseBegin \/ ServerDown \/ ServerUp BY <1>7 DEF CloseBegin, ServerDown, ServerUp
<1>8. CASE Restart BY <1>8 DEF Restart, NewBuffer
<1>9. CASE Crash BY <1>9, SameActions DEF Crash
<1> QED BY <1>1, <1>2, <1>3, <1>4, <1>5, <1>6, <1>7, <1>8, <1>9 DEF Next

\* The types and the roles of the files do not depend on what the chunk written
\* is, and a new process begins with fresh roles.
LEMMA GarbageDir ==
    ASSUME DP!Inv, GarbageWrite
    PROVE  DP!Inv' /\ faults' # 0 /\ DB!Stored' \subseteq DB!Stored
<1>1. Garbage \in DP!Chunk /\ gz \in Seq(DP!Chunk) /\ gz = <<>> /\ wName \in DP!File
    BY SameState DEF GarbageWrite, DP!Inv, DP!TypeOK, DP!Roles, DP!Chunk
<1>2. /\ write' = wName /\ gz' = Append(gz, Garbage) /\ exists' = exists \cup {wName}
      /\ faults' = faults + 1 /\ call \notin {"merging", "copied"}
      /\ UNCHANGED <<rName, wName, read, gzErr, disk, call, ret, consumed, written>>
    BY DEF GarbageWrite, DB!WriteOK, DB!Fault, DB!MutexFree
<1>3. gz' \in Seq(DP!Chunk) BY <1>1, <1>2, RangeAppend
<1>4. Range(gz') = {Garbage}
  <2>1. gz' = <<Garbage>> BY <1>1, <1>2
  <2> QED BY <2>1 DEF Range
<1>5. wName # DP!NoFile /\ faults \in Nat BY <1>1 DEF DP!NoFile, DP!File, DP!Inv, DP!TypeOK
<1>6. DP!TypeOK' BY <1>1, <1>2, <1>3, <1>5 DEF DP!Inv, DP!TypeOK
<1>7. DP!Roles' BY <1>2, <1>5 DEF DP!Inv, DP!Roles
<1>8. DB!Stored' \subseteq DB!Stored
    BY <1>2, <1>4 DEF DB!Stored, DB!OnDisk, DB!Range, Range
<1> QED BY <1>2, <1>5, <1>6, <1>7, <1>8 DEF DP!Inv

LEMMA NewBufferDir ==
    ASSUME DP!Inv, DP!Content, NewBuffer, call = "none", faults = 0 => gz = <<>>
    PROVE  DP!Inv' /\ DP!Content' /\ DB!Stored' \subseteq DB!Stored
<1>1. /\ rName' = "ping" /\ wName' = "pong" /\ read' = DP!NoFile /\ write' = DP!NoFile
      /\ gz' = <<>> /\ gzErr' = FALSE /\ call' = "none" /\ ret' = "none"
      /\ UNCHANGED <<exists, disk, consumed, written, faults>>
    BY SameActions DEF NewBuffer, DP!NewDirBuffer
<1>2. gz' \in Seq(DP!Chunk) BY <1>1
<1>3. DP!TypeOK'
    BY <1>1, <1>2 DEF DP!Inv, DP!TypeOK, DP!File, DP!NoFile, DP!Calls, DP!Results
<1>4. DP!Roles' BY <1>1 DEF DP!Roles
<1>5. Range(gz') = {} BY <1>1 DEF Range
<1>6. DB!Stored' \subseteq DB!Stored BY <1>1, <1>5 DEF DB!Stored, DB!OnDisk, DB!Range, Range
<1>7. DP!Content'
  <2> SUFFICES ASSUME faults = 0 PROVE DP!Content' BY <1>1 DEF DP!Content
  <2>1. gz = <<>> OBVIOUS
  <2>2. {rName, wName} = {"ping", "pong"} /\ rName # wName
      BY DEF DP!Inv, DP!TypeOK, DP!Roles, DP!File
  <2>3. DP!StreamSet' = {} /\ DP!StreamSet = {} BY <1>1, <2>1 DEF DP!StreamSet, DP!Range
  <2>4. \/ DP!ReadSet' = DP!ReadSet /\ DP!WriteSet' = DP!WriteSet
        \/ DP!ReadSet' = DP!WriteSet /\ DP!WriteSet' = DP!ReadSet
    <3>1. \/ rName = "ping" /\ wName = "pong"
          \/ rName = "pong" /\ wName = "ping"
        BY <2>2
    <3> QED BY <1>1, <3>1 DEF DP!ReadSet, DP!WriteSet
  <2> QED BY <1>1, <2>3, <2>4 DEF DP!Content
<1> QED BY <1>3, <1>4, <1>6, <1>7 DEF DP!Inv

\* What any step does to the fallback buffer, seen from the instance.
DirMoves ==
    /\ DP!Inv' /\ DP!Content' /\ DB!TypeOK'
    /\ consumed \subseteq consumed' /\ consumed' \subseteq consumed \cup DB!Stored
    /\ written \subseteq written'
    /\ faults' = 0 => faults = 0
    /\ IF wpc = "fallback"
          THEN /\ DB!Stored' \subseteq DB!Stored \cup {buf[wbuf]}
               /\ written' \subseteq written \cup {buf[wbuf]}
          ELSE /\ DB!Stored' \subseteq DB!Stored
               /\ written' = written

LEMMA DirInv ==
    ASSUME Inv, Next
    PROVE  DirMoves
<1> USE DEF Inv, Core, DirMoves
<1>a. DP!DirBufferAssumption BY SameState
<1>b. /\ Garbage \notin Msg /\ FaultKinds \subseteq {"disk", "crash"} /\ MaxFaults \in Nat
    BY InstanceAssumption
<1>0. [DP!Next]_(DP!vars) => DP!Inv' /\ DP!Content' BY <1>b, DP!NextInv, DP!NextContent
<1>f. [DP!Next]_(DP!vars) => (faults' = 0 => faults = 0) BY <1>b, DP!FaultsGrow
<1>1. CASE UNCHANGED dirbuf
  <2>1. UNCHANGED DP!vars BY <1>1 DEF dirbuf, DP!vars, DP!files
  <2>2. DB!Stored' = DB!Stored BY <1>1 DEF dirbuf, DB!Stored, DB!OnDisk, DB!Range
  <2> QED BY <1>0, <1>f, <1>1, <2>1, <2>2, SameNextState DEF dirbuf, DP!Inv
<1>2. CASE wpc = "fallback" /\ DP!Write(buf[wbuf])
  <2>1. buf[wbuf] \in Msg BY <1>2 DEF Messages
  <2>2. DP!Next BY <1>2, <2>1 DEF DP!Next
  <2>3. DP!Stored' \subseteq DP!Stored \cup {buf[wbuf]} BY <1>2, <1>b, <2>1, DP!WriteStored
  <2> QED BY <1>0, <1>f, <1>2, <2>2, <2>3, SameState, SameNextState DEF DP!Write, DP!Inv
<1>3. CASE wpc = "fallback" /\ GarbageWrite
  <2>1. DP!Inv' /\ faults' # 0 /\ DB!Stored' \subseteq DB!Stored BY <1>3, GarbageDir
  <2> QED BY <1>3, <2>1, SameNextState DEF GarbageWrite, DP!Inv, DP!Content
<1>4. CASE wpc = "boot" /\ DP!HasData
  <2>1. DP!Stored' \subseteq DP!Stored BY <1>4, <1>b, DP!HasDataStored
  <2> QED BY <1>0, <1>f, <1>4, <2>1, SameState, SameNextState DEF DP!Next, DP!HasData, DP!Inv
<1>5. CASE wpc \in {"flush", "reread"} /\ DP!Reader
  <2>1. DP!Stored' \subseteq DP!Stored BY <1>5, <1>b, DP!ReaderStored
  <2>2. consumed \subseteq consumed' /\ consumed' \subseteq consumed \cup DP!Stored
    <3>1. CASE DP!ReaderFnOK
      <4>1. consumed' = consumed \cup DP!Readable(disk[read]) BY <3>1 DEF DP!ReaderFnOK
      <4>2. read \in DP!File BY <3>1 DEF DP!ReaderFnOK, DP!Inv, DP!TypeOK, DP!Roles
      <4> QED BY <4>1, <4>2 DEF DP!Stored, DP!OnDisk
    <3>2. CASE ~DP!ReaderFnOK
      BY <1>5, <3>2 DEF DP!Reader, DP!ReaderSwitch, DP!ReaderOpen, DP!ReaderFnErr, DP!ReaderTruncate
    <3> QED BY <3>1, <3>2
  <2>3. written' = written
      BY <1>5 DEF DP!Reader, DP!ReaderSwitch, DP!ReaderOpen, DP!ReaderFnErr, DP!ReaderFnOK,
         DP!ReaderTruncate
  <2> QED BY <1>0, <1>f, <1>5, <2>1, <2>2, <2>3, SameState, SameNextState DEF DP!Next, DP!Inv
<1>6. CASE wpc = "exited" /\ DP!Close
  <2>1. DP!Stored' \subseteq DP!Stored BY <1>6, <1>b, DP!CloseStored DEF DP!Close
  <2> QED BY <1>0, <1>f, <1>6, <2>1, SameState, SameNextState DEF DP!Next, DP!Close, DP!Inv
<1>7. CASE DP!Crash
  <2>1. DP!Stored' \subseteq DP!Stored BY <1>7, <1>b, DP!CrashStored
  <2> QED BY <1>0, <1>f, <1>7, <2>1, SameState, SameNextState DEF DP!Next, DP!Crash, DP!Inv
<1>8. CASE cpc = "done" /\ NewBuffer
  <2>1. call = "none" /\ wpc = "exited" /\ (faults = 0 => gz = <<>>) BY <1>8 DEF Worker, Kept
  <2> QED BY <1>8, <2>1, NewBufferDir, SameNextState DEF NewBuffer, DP!Inv
<1> QED BY <1>1, <1>2, <1>3, <1>4, <1>5, <1>6, <1>7, <1>8, DirStep

-----------------------------------------------------------------------------
(* The queue and its messages *)

\* The messages in the buffers of a sequence; Content is this for the present
\* buffers.
Msgs(b, q) == [i \in 1..Len(q) |-> b[q[i]]]

LEMMA MsgsType ==
    ASSUME NEW q \in Seq(Buf), NEW b, \A i \in 1..Len(q) : b[q[i]] \in Msg
    PROVE  /\ Msgs(b, q) \in Seq(Msg) /\ Len(Msgs(b, q)) = Len(q)
           /\ \A i \in 1..Len(q) : Msgs(b, q)[i] = b[q[i]]
BY DEF Msgs

LEMMA MsgsAppend ==
    ASSUME NEW q \in Seq(Buf), NEW b, \A i \in 1..Len(q) : b[q[i]] \in Msg,
           NEW x \in Buf, b[x] \in Msg
    PROVE  Msgs(b, Append(q, x)) = Append(Msgs(b, q), b[x])
<1>1. Append(q, x) \in Seq(Buf) /\ Len(Append(q, x)) = Len(q) + 1 OBVIOUS
<1>2. \A i \in 1..Len(Append(q, x)) : Append(q, x)[i] = IF i = Len(q) + 1 THEN x ELSE q[i] OBVIOUS
<1>3. Msgs(b, Append(q, x)) \in Seq(Msg) /\ Len(Msgs(b, Append(q, x))) = Len(q) + 1
    BY <1>1, <1>2 DEF Msgs
<1>4. Msgs(b, q) \in Seq(Msg) /\ Len(Msgs(b, q)) = Len(q) BY MsgsType
<1>5. ASSUME NEW i \in 1..(Len(q) + 1)
      PROVE  Msgs(b, Append(q, x))[i] = Append(Msgs(b, q), b[x])[i]
    BY <1>1, <1>2, <1>4 DEF Msgs
<1> QED BY <1>3, <1>4, <1>5

LEMMA MsgsHead ==
    ASSUME NEW q \in Seq(Buf), NEW b, \A i \in 1..Len(q) : b[q[i]] \in Msg, q # <<>>
    PROVE  /\ Msgs(b, q) = <<b[Head(q)]>> \o Msgs(b, Tail(q))
           /\ b[Head(q)] \in Msg /\ \A i \in 1..Len(Tail(q)) : b[Tail(q)[i]] \in Msg
<1>1. /\ Head(q) \in Buf /\ Head(q) = q[1] /\ Tail(q) \in Seq(Buf) /\ Len(q) = Len(Tail(q)) + 1
      /\ \A i \in 1..Len(Tail(q)) : Tail(q)[i] = q[i + 1]
    BY HeadTail
<1>2. b[Head(q)] \in Msg /\ \A i \in 1..Len(Tail(q)) : b[Tail(q)[i]] \in Msg BY <1>1
<1>3. Msgs(b, Tail(q)) \in Seq(Msg) /\ Len(Msgs(b, Tail(q))) = Len(Tail(q))
      /\ \A i \in 1..Len(Tail(q)) : Msgs(b, Tail(q))[i] = b[Tail(q)[i]]
    BY <1>1, <1>2, MsgsType
<1>4. Msgs(b, q) \in Seq(Msg) /\ Len(Msgs(b, q)) = Len(q)
      /\ \A i \in 1..Len(q) : Msgs(b, q)[i] = b[q[i]]
    BY MsgsType
<1> DEFINE r == <<b[Head(q)]>> \o Msgs(b, Tail(q))
<1>5. r \in Seq(Msg) /\ Len(r) = Len(q)
  <2>1. <<b[Head(q)]>> \in Seq(Msg) /\ Len(<<b[Head(q)]>>) = 1 BY <1>2
  <2>2. Len(r) = Len(<<b[Head(q)]>>) + Len(Msgs(b, Tail(q))) BY <1>3, <2>1
  <2>3. r \in Seq(Msg) BY <1>3, <2>1
  <2>4. Len(Tail(q)) \in Nat BY <1>1
  <2>5. Len(q) = 1 + Len(Tail(q)) BY <1>1, <2>4
  <2> HIDE DEF r
  <2> QED BY <1>3, <2>1, <2>2, <2>3, <2>5
<1>6. ASSUME NEW i \in 1..Len(q) PROVE r[i] = b[q[i]]
  <2>1. CASE i = 1 BY <1>1, <1>2, <1>3, <2>1
  <2>2. CASE i # 1
    <3>1. i - 1 \in 1..Len(Tail(q)) BY <1>1, <2>2
    <3>2. r[i] = Msgs(b, Tail(q))[i - 1] BY <1>2, <1>3, <3>1
    <3> QED BY <1>1, <1>3, <3>1, <3>2
  <2> QED BY <2>1, <2>2
<1> QED BY <1>2, <1>4, <1>5, <1>6, SMTT(30)

\* The messages on their way: those in the queue, and the one in the worker's hand.
InQueue == {buf[queue[i]] : i \in 1..Len(queue)}

LEMMA PendingIs ==
    Pending = InQueue \cup (IF wpc \in {"send", "fallback"} THEN {buf[wbuf]} ELSE {})
<1>1. Range(Content(queue)) = InQueue BY DEF Content, Range, InQueue
<1>2. Range(InHand) = IF wpc \in {"send", "fallback"} THEN {buf[wbuf]} ELSE {}
    BY DEF InHand, Range
<1> QED BY <1>1, <1>2 DEF Pending

LEMMA PendingIsNext ==
    Pending' = InQueue' \cup (IF wpc' \in {"send", "fallback"} THEN {buf'[wbuf']} ELSE {})
<1>1. (Pending = InQueue \cup (IF wpc \in {"send", "fallback"} THEN {buf[wbuf]} ELSE {}))'
    BY PendingIs, PTL
<1> QED BY <1>1

LEMMA DirStill ==
    ASSUME UNCHANGED dirbuf
    PROVE  /\ DB!Stored' = DB!Stored
           /\ UNCHANGED <<gz, gzErr, disk, call, ret, consumed, written, faults>>
           /\ DB!TypeOK => DB!TypeOK'
BY DEF dirbuf, DB!Stored, DB!OnDisk, DB!Range, DB!TypeOK

-----------------------------------------------------------------------------
(* The callers *)

LEMMA LogBuildInv ==
    ASSUME Inv, NEW p \in Proc, LogBuild(p)
    PROVE  Core'
<1> USE DEF Inv, Core
<1>1. PICK b \in pool, m \in Msg \ used :
        /\ pool' = pool \ {b} /\ buf' = [buf EXCEPT ![b] = m]
        /\ hold' = [hold EXCEPT ![p] = b] /\ used' = used \cup {m}
  <2>1. GetBuffer \in pool BY DEF LogBuild, GetBuffer
  <2>2. NewMsg \in Msg \ used BY DEF LogBuild, NewMsg, TypeOK
  <2> QED BY <2>1, <2>2 DEF LogBuild
<1>2. /\ pc[p] = "idle" /\ pc' = [pc EXCEPT ![p] = "queue"]
      /\ UNCHANGED <<queue, sendq, closing, wpc, wbuf, draining, fb, cpc, conn, up, outages,
                     restarts, setup, accepted, handled, promised, sent>>
      /\ UNCHANGED dirbuf
    BY DEF LogBuild, channel, worker, network, lives
<1>3. /\ DB!Stored' = DB!Stored /\ DB!TypeOK'
      /\ UNCHANGED <<gz, gzErr, disk, call, ret, consumed, written, faults>>
    BY <1>2, DirStill DEF TypeOK
<1>t. /\ b \in Buf /\ b # NoBuf /\ m \in Msg /\ m # NoMsg
      /\ buf \in [Buf -> Msg \cup {NoMsg}] /\ hold \in [Proc -> Buf \cup {NoBuf}]
      /\ pc \in [Proc -> {"idle", "queue", "full", "blocked"}] /\ used \subseteq Msg
      /\ queue \in Seq(Buf) /\ hold[p] = NoBuf /\ wbuf \in Buf \cup {NoBuf}
    BY <1>1, <1>2, InstanceAssumption DEF TypeOK, Callers
<1>4. /\ \A i \in 1..Len(queue) : queue[i] \in Buf /\ queue[i] # b /\ buf'[queue[i]] = buf[queue[i]]
      /\ wpc \in {"send", "fallback"} => wbuf \in Buf /\ wbuf # b /\ buf'[wbuf] = buf[wbuf]
      /\ \A q \in Proc : pc[q] # "idle" => /\ q # p /\ hold'[q] = hold[q] /\ hold[q] \in Buf
                                           /\ hold[q] # b /\ buf'[hold[q]] = buf[hold[q]]
    BY <1>1, <1>2, <1>t DEF Once, Worker, Callers
<1>5. TypeOK' BY <1>1, <1>2, <1>3, <1>t DEF TypeOK
<1>6. Callers' BY <1>1, <1>2, <1>t DEF Callers, TypeOK
<1>7. Worker' BY <1>2, <1>3 DEF Worker, WriteBehavior
<1>8. Somewhere'
  <2> SUFFICES ASSUME NEW c \in Buf
               PROVE  \/ c \in pool'
                      \/ \E q \in Proc : hold'[q] = c
                      \/ \E i \in 1..Len(queue') : queue'[i] = c
                      \/ wbuf' = c
      BY DEF Somewhere
  <2>1. hold'[p] = b /\ \A q \in Proc : hold[q] = c => hold'[q] = c
      BY <1>1, <1>t, InstanceAssumption
  <2> QED BY <1>1, <1>2, <2>1 DEF Somewhere
<1>8a. Once' BY <1>1, <1>2, <1>t, InstanceAssumption DEF Once
<1>9. Messages' BY <1>1, <1>2, <1>4, <1>t DEF Messages
<1>10. NotLeft'
  <2>1. Left' = Left BY <1>2, <1>3 DEF Left
  <2>2. m \notin Left BY <1>1 DEF NotLeft
  <2> QED BY <1>1, <1>2, <1>3, <1>4, <1>t, <2>1, <2>2 DEF NotLeft
<1>11. FifoOnce'
  <2>1. Content(queue)' = Content(queue) BY <1>2, <1>4 DEF Content
  <2>2. InHand' = InHand BY <1>2, <1>4 DEF InHand
  <2> QED BY <1>2, <2>1, <2>2 DEF FifoOnce
<1>12. Kept'
  <2>1. InQueue' = InQueue BY <1>2, <1>4 DEF InQueue
  <2>2. Pending' = Pending BY <1>2, <1>4, <2>1, PendingIs, PendingIsNext
  <2> QED BY <1>2, <1>3, <2>2 DEF Kept, Lossless, WriteBehavior
<1> QED BY <1>5, <1>6, <1>7, <1>8, <1>8a, <1>9, <1>10, <1>11, <1>12

\* The sequences of FifoOnce.
LEMMA FifoTypes ==
    ASSUME TypeOK, Messages
    PROVE  /\ handled \in Seq(Msg) /\ InHand \in Seq(Msg) /\ handled \o InHand \in Seq(Msg)
           /\ Content(queue) = Msgs(buf, queue) /\ Content(queue) \in Seq(Msg)
<1>1. handled \in Seq(Msg) /\ InHand \in Seq(Msg) BY DEF TypeOK, Messages, InHand
<1>2. Content(queue) = Msgs(buf, queue) BY DEF Content, Msgs
<1>3. Msgs(buf, queue) \in Seq(Msg) BY MsgsType DEF TypeOK, Messages
<1> QED BY <1>1, <1>2, <1>3

LEMMA EnqueueInv ==
    ASSUME Inv, NEW p \in Proc, pc[p] \in {"queue", "full"}, Enqueue(p)
    PROVE  Core'
<1> USE DEF Inv, Core
<1>1. /\ Len(queue) < BufferSize /\ queue' = Append(queue, hold[p])
      /\ accepted' = Append(accepted, buf[hold[p]])
      /\ promised' = IF closing THEN promised ELSE promised \cup {buf[hold[p]]}
      /\ pc' = [pc EXCEPT ![p] = "idle"] /\ hold' = [hold EXCEPT ![p] = NoBuf]
      /\ UNCHANGED <<pool, buf, sendq, closing, wpc, wbuf, draining, fb, cpc, conn, up, outages,
                     restarts, setup, handled, used, sent>>
      /\ UNCHANGED dirbuf
    BY DEF Enqueue, worker, network, lives
<1>2. /\ DB!Stored' = DB!Stored /\ DB!TypeOK'
      /\ UNCHANGED <<gz, gzErr, disk, call, ret, consumed, written, faults>>
    BY <1>1, DirStill DEF TypeOK
<1>t. /\ buf \in [Buf -> Msg \cup {NoMsg}] /\ hold \in [Proc -> Buf \cup {NoBuf}]
      /\ pc \in [Proc -> {"idle", "queue", "full", "blocked"}]
      /\ queue \in Seq(Buf) /\ sendq \in Seq(Proc) /\ wbuf \in Buf \cup {NoBuf}
      /\ hold[p] \in Buf /\ hold[p] # NoBuf /\ buf[hold[p]] \in Msg /\ buf[hold[p]] \in used
      /\ BufferSize \in Nat /\ accepted \in Seq(Msg)
    BY InstanceAssumption DEF TypeOK, Callers, Messages
<1>q. /\ queue' \in Seq(Buf) /\ Len(queue') = Len(queue) + 1
      /\ \A i \in 1..Len(queue') : queue'[i] = IF i = Len(queue) + 1 THEN hold[p] ELSE queue[i]
      /\ \A i \in 1..Len(queue) : i \in 1..Len(queue') /\ queue'[i] = queue[i]
      /\ queue'[Len(queue')] = hold[p] /\ Len(queue') \in 1..Len(queue')
    BY <1>1, <1>t
<1>3. TypeOK'
  <2>1. Len(queue') <= BufferSize BY <1>1, <1>t, <1>q
  <2>2. accepted' \in Seq(Msg) BY <1>1, <1>t
  <2> QED BY <1>1, <1>2, <1>t, <1>q, <2>1, <2>2 DEF TypeOK
<1>4. Callers' BY <1>1, <1>t DEF Callers
<1>5. Worker' BY <1>1, <1>2 DEF Worker, WriteBehavior
<1>6. Somewhere'
  <2> SUFFICES ASSUME NEW c \in Buf
               PROVE  \/ c \in pool'
                      \/ \E q \in Proc : hold'[q] = c
                      \/ \E i \in 1..Len(queue') : queue'[i] = c
                      \/ wbuf' = c
      BY DEF Somewhere
  <2>1. \A q \in Proc : q # p => hold'[q] = hold[q] BY <1>1, <1>t
  <2> QED BY <1>1, <1>q, <2>1 DEF Somewhere
<1>7. Once'
  <2>1. \A q \in Proc : hold'[q] = IF q = p THEN NoBuf ELSE hold[q] BY <1>1, <1>t
  <2>2. \A i, j \in 1..Len(queue') : queue'[i] = queue'[j] => i = j BY <1>q DEF Once
  <2>3. \A i \in 1..Len(queue') : queue'[i] # NoBuf /\ queue'[i] \notin pool'
      BY <1>1, <1>q, <1>t, InstanceAssumption DEF Once
  <2>4. ASSUME NEW q \in Proc, NEW i \in 1..Len(queue') PROVE hold'[q] # queue'[i]
    <3>1. CASE q = p BY <2>1, <2>3, <3>1
    <3>2. CASE q # p /\ i = Len(queue) + 1 BY <1>q, <1>t, <2>1, <3>2 DEF Once
    <3>3. CASE q # p /\ i # Len(queue) + 1
      <4>1. i \in 1..Len(queue) BY <1>q, <1>t, <3>3
      <4> QED BY <1>q, <2>1, <3>3, <4>1 DEF Once
    <3> QED BY <3>1, <3>2, <3>3
  <2>5. NoBuf \notin pool' BY <1>1, InstanceAssumption DEF TypeOK
  <2>6. \A i \in 1..Len(queue') : queue'[i] # wbuf' BY <1>1, <1>q, <1>t DEF Once
  <2> QED BY <1>1, <1>t, <2>1, <2>2, <2>3, <2>4, <2>5, <2>6 DEF Once
<1>8. Messages'
  <2>1. \A q \in Proc : pc'[q] # "idle" =>
            q # p /\ pc[q] # "idle" /\ hold'[q] = hold[q] /\ hold[q] \in Buf /\ hold[q] # hold[p]
      BY <1>1, <1>t DEF Callers, Once
  <2>2. \A q \in Proc : pc'[q] # "idle" => buf'[hold'[q]] \in Msg /\ buf'[hold'[q]] \notin promised'
      BY <1>1, <1>t, <2>1, InstanceAssumption DEF Messages
  <2>3. \A i \in 1..Len(queue') : buf'[queue'[i]] \in Msg BY <1>1, <1>q, <1>t DEF Messages
  <2> QED BY <1>1, <1>t, <2>2, <2>3 DEF Messages
<1>9. NotLeft'
  <2>1. Left' = Left BY <1>1, <1>2 DEF Left
  <2>2. \A q \in Proc : pc'[q] # "idle" => pc[q] # "idle" /\ hold'[q] = hold[q] BY <1>1, <1>t
  <2>3. \A i \in 1..Len(queue') : buf'[queue'[i]] \notin Left BY <1>1, <1>q DEF NotLeft
  <2> QED BY <1>1, <1>2, <2>1, <2>2, <2>3 DEF NotLeft
<1>10. FifoOnce'
  <2>1. /\ handled \o InHand \in Seq(Msg) /\ Msgs(buf, queue) \in Seq(Msg)
        /\ accepted = (handled \o InHand) \o Msgs(buf, queue)
      BY FifoTypes DEF FifoOnce
  <2>2. Content(queue)' = Append(Msgs(buf, queue), buf[hold[p]])
    <3>1. Content(queue)' = Msgs(buf, queue') BY <1>1 DEF Content, Msgs
    <3> QED BY <1>1, <1>t, <3>1, MsgsAppend DEF Messages
  <2>3. InHand' = InHand BY <1>1 DEF InHand
  <2>4. accepted' = (handled \o InHand) \o Append(Msgs(buf, queue), buf[hold[p]])
    <3>1. (handled \o InHand) \o Append(Msgs(buf, queue), buf[hold[p]])
              = Append((handled \o InHand) \o Msgs(buf, queue), buf[hold[p]])
        BY <1>t, <2>1, ConcatAppend
    <3> QED BY <1>1, <2>1, <3>1
  <2> QED BY <1>1, <2>2, <2>3, <2>4 DEF FifoOnce
<1>11. Kept'
  <2>1. InQueue' = InQueue \cup {buf[hold[p]]} BY <1>1, <1>q DEF InQueue
  <2>2. Pending' = Pending \cup {buf[hold[p]]} BY <1>1, <2>1, PendingIs, PendingIsNext
  <2>3. Lossless' = Lossless BY <1>1, <1>2 DEF Lossless, WriteBehavior
  <2>4. buf[hold[p]] \notin promised BY DEF Messages
  <2>5. wpc = "exited" => closing BY DEF Worker
  <2> QED BY <1>1, <1>2, <2>2, <2>3, <2>4, <2>5 DEF Kept, WriteBehavior
<1> QED BY <1>3, <1>4, <1>5, <1>6, <1>7, <1>8, <1>9, <1>10, <1>11

LEMMA QueueDropInv ==
    ASSUME Inv, NEW p \in Proc, QueueDrop(p)
    PROVE  Core'
<1> USE DEF Inv, Core
<1>1. /\ pc[p] = "queue" /\ pool' = pool \cup {hold[p]}
      /\ buf' = [buf EXCEPT ![hold[p]] = NoMsg]
      /\ pc' = [pc EXCEPT ![p] = "idle"] /\ hold' = [hold EXCEPT ![p] = NoBuf]
      /\ UNCHANGED <<queue, sendq, closing, wpc, wbuf, draining, fb, cpc, conn, up, outages,
                     restarts, setup, accepted, handled, used, promised, sent>>
      /\ UNCHANGED dirbuf
    BY DEF QueueDrop, channel, worker, network, lives, history
<1>2. /\ DB!Stored' = DB!Stored /\ DB!TypeOK'
      /\ UNCHANGED <<gz, gzErr, disk, call, ret, consumed, written, faults>>
    BY <1>1, DirStill DEF TypeOK
<1>t. /\ buf \in [Buf -> Msg \cup {NoMsg}] /\ hold \in [Proc -> Buf \cup {NoBuf}]
      /\ pc \in [Proc -> {"idle", "queue", "full", "blocked"}]
      /\ queue \in Seq(Buf) /\ wbuf \in Buf \cup {NoBuf}
      /\ hold[p] \in Buf /\ hold[p] # NoBuf
    BY <1>1 DEF TypeOK, Callers
<1>3. /\ \A i \in 1..Len(queue) : queue[i] \in Buf /\ queue[i] # hold[p]
                                   /\ buf'[queue[i]] = buf[queue[i]]
      /\ wpc \in {"send", "fallback"} => wbuf \in Buf /\ wbuf # hold[p] /\ buf'[wbuf] = buf[wbuf]
      /\ \A q \in Proc : pc'[q] # "idle" => /\ q # p /\ pc'[q] = pc[q] /\ hold'[q] = hold[q]
                                            /\ hold[q] \in Buf /\ hold[q] # hold[p]
                                            /\ buf'[hold[q]] = buf[hold[q]]
    BY <1>1, <1>t DEF Once, Worker, Callers
<1>4. TypeOK' BY <1>1, <1>2, <1>t DEF TypeOK
<1>5. Callers' BY <1>1, <1>t DEF Callers, TypeOK
<1>6. Worker' BY <1>1, <1>2 DEF Worker, WriteBehavior
<1>7. Somewhere'
  <2> SUFFICES ASSUME NEW c \in Buf
               PROVE  \/ c \in pool'
                      \/ \E q \in Proc : hold'[q] = c
                      \/ \E i \in 1..Len(queue') : queue'[i] = c
                      \/ wbuf' = c
      BY DEF Somewhere
  <2>1. \A q \in Proc : q # p => hold'[q] = hold[q] BY <1>1, <1>t
  <2> QED BY <1>1, <2>1 DEF Somewhere
<1>8. Once'
  <2>1. \A q \in Proc : hold'[q] = IF q = p THEN NoBuf ELSE hold[q] BY <1>1, <1>t
  <2>2. NoBuf \notin pool' BY <1>1, <1>t, InstanceAssumption DEF TypeOK
  <2>3. \A i \in 1..Len(queue) : queue[i] # NoBuf BY <1>3, InstanceAssumption
  <2>4. wbuf # hold[p] BY <1>t DEF Once
  <2>5. \A q \in Proc : hold'[q] \notin pool' BY <1>1, <1>t, <2>1, <2>2 DEF Once
  <2> QED BY <1>1, <1>3, <1>t, <2>1, <2>2, <2>3, <2>4, <2>5 DEF Once
<1>9. Messages' BY <1>1, <1>3, <1>t DEF Messages
<1>10. NotLeft'
  <2>1. Left' = Left BY <1>1, <1>2 DEF Left
  <2> QED BY <1>1, <1>2, <1>3, <2>1 DEF NotLeft
<1>11. FifoOnce'
  <2>1. Content(queue)' = Content(queue) BY <1>1, <1>3 DEF Content
  <2>2. InHand' = InHand BY <1>1, <1>3 DEF InHand
  <2> QED BY <1>1, <2>1, <2>2 DEF FifoOnce
<1>12. Kept'
  <2>1. InQueue' = InQueue BY <1>1, <1>3 DEF InQueue
  <2>2. Pending' = Pending BY <1>1, <1>3, <2>1, PendingIs, PendingIsNext
  <2> QED BY <1>1, <1>2, <2>2 DEF Kept, Lossless, WriteBehavior
<1> QED BY <1>4, <1>5, <1>6, <1>7, <1>8, <1>9, <1>10, <1>11, <1>12

\* A step that leaves the buffers, the messages and the fallback buffer alone.
LEMMA QuietInv ==
    ASSUME Inv, UNCHANGED <<hold, pool, buf, queue, wpc, wbuf, accepted, handled, used, promised,
                            sent, setup, dirbuf>>
    PROVE  /\ Somewhere' /\ Once' /\ FifoOnce' /\ DB!TypeOK'
           /\ (\A q \in Proc : pc'[q] = "idle" <=> pc[q] = "idle") => Messages' /\ NotLeft'
           /\ Pending' = Pending
           /\ UNCHANGED <<gz, gzErr, disk, call, ret, consumed, written, faults>>
<1> USE DEF Inv, Core
<1>1. /\ DB!Stored' = DB!Stored /\ DB!TypeOK'
      /\ UNCHANGED <<gz, gzErr, disk, call, ret, consumed, written, faults>>
    BY DirStill DEF TypeOK
<1>2. Somewhere' BY DEF Somewhere
<1>3. Once' BY DEF Once
<1>4. FifoOnce' BY DEF FifoOnce, Content, InHand
<1>5. Pending' = Pending
  <2>1. InQueue' = InQueue BY DEF InQueue
  <2> QED BY <2>1, PendingIs, PendingIsNext
<1>6. ASSUME \A q \in Proc : pc'[q] = "idle" <=> pc[q] = "idle" PROVE Messages' /\ NotLeft'
  <2>1. Left' = Left BY <1>1 DEF Left
  <2>2. Messages' BY <1>6 DEF Messages
  <2>3. NotLeft' BY <1>1, <1>6, <2>1 DEF NotLeft
  <2> QED BY <2>2, <2>3
<1> QED BY <1>1, <1>2, <1>3, <1>4, <1>5, <1>6

LEMMA WaitInv ==
    ASSUME Inv, NEW p \in Proc, QueueFull(p) \/ SendBlocks(p)
    PROVE  Core'
<1> USE DEF Inv, Core
<1>1. /\ UNCHANGED <<hold, pool, buf, queue, wpc, wbuf, accepted, handled, used, promised, sent,
                     setup, dirbuf>>
      /\ UNCHANGED <<closing, draining, fb, cpc, conn, up, outages, restarts>>
      /\ pc[p] \in {"queue", "full"}
      /\ \/ pc' = [pc EXCEPT ![p] = "full"] /\ sendq' = sendq
         \/ pc' = [pc EXCEPT ![p] = "blocked"] /\ sendq' = Append(sendq, p)
    BY DEF QueueFull, SendBlocks, channel, worker, network, lives, history
<1>t. /\ pc \in [Proc -> {"idle", "queue", "full", "blocked"}] /\ sendq \in Seq(Proc)
    BY DEF TypeOK
<1>2. \A q \in Proc : pc'[q] = "idle" <=> pc[q] = "idle" BY <1>1, <1>t
<1>3. /\ Somewhere' /\ Once' /\ FifoOnce' /\ DB!TypeOK' /\ Messages' /\ NotLeft'
      /\ Pending' = Pending
      /\ UNCHANGED <<gz, gzErr, disk, call, ret, consumed, written, faults>>
    BY <1>1, <1>2, QuietInv
<1>4. TypeOK'
  <2>1. pc' \in [Proc -> {"idle", "queue", "full", "blocked"}] BY <1>1, <1>t
  <2>2. sendq' \in Seq(Proc) BY <1>1, <1>t
  <2> QED BY <1>1, <1>3, <2>1, <2>2 DEF TypeOK
<1>5. Callers'
  <2>1. \A i \in 1..Len(sendq) : sendq[i] # p BY <1>1 DEF Callers
  <2>2. CASE sendq' = sendq BY <1>1, <1>2, <1>t, <2>1, <2>2 DEF Callers
  <2>3. CASE pc' = [pc EXCEPT ![p] = "blocked"] /\ sendq' = Append(sendq, p)
    <3>1. /\ Len(sendq') = Len(sendq) + 1
          /\ \A i \in 1..Len(sendq') : sendq'[i] = IF i = Len(sendq) + 1 THEN p ELSE sendq[i]
        BY <1>t, <2>3
    <3>2. \A i \in 1..Len(sendq') : pc'[sendq'[i]] = "blocked" BY <1>t, <2>3, <3>1 DEF Callers
    <3>3. \A i, j \in 1..Len(sendq') : sendq'[i] = sendq'[j] => i = j
        BY <1>t, <2>1, <3>1 DEF Callers
    <3> QED BY <1>1, <1>2, <3>2, <3>3 DEF Callers
  <2> QED BY <1>1, <2>2, <2>3
<1>6. Worker' BY <1>1, <1>3 DEF Worker, WriteBehavior
<1>7. Kept' BY <1>1, <1>3 DEF Kept, Lossless, WriteBehavior
<1> QED BY <1>3, <1>4, <1>5, <1>6, <1>7

LEMMA CallerInv ==
    ASSUME Inv, NEW p \in Proc, LogStep(p)
    PROVE  Core'
BY EnqueueInv, QueueDropInv, WaitInv DEF LogStep, QueueMessage, SendRoom

-----------------------------------------------------------------------------
(* The worker receives *)

LEMMA ReceiveInv ==
    ASSUME Inv, wpc \in {"top", "select", "drain"}, Receive
    PROVE  Core'
<1> USE DEF Inv, Core
<1> DEFINE p == Head(sendq)
           Moved == sendq # <<>>
<1>1. /\ queue # <<>> /\ wbuf' = Head(queue) /\ wpc' = "send"
      /\ UNCHANGED <<pool, buf, closing, draining, fb, cpc, conn, up, outages, restarts, setup,
                     handled, used, sent>>
      /\ UNCHANGED dirbuf
      /\ IF Moved
            THEN /\ queue' = Append(Tail(queue), hold[p])
                 /\ accepted' = Append(accepted, buf[hold[p]])
                 /\ promised' = IF closing THEN promised ELSE promised \cup {buf[hold[p]]}
                 /\ pc' = [pc EXCEPT ![p] = "idle"] /\ hold' = [hold EXCEPT ![p] = NoBuf]
                 /\ sendq' = Tail(sendq)
            ELSE /\ queue' = Tail(queue)
                 /\ UNCHANGED <<pc, hold, sendq, accepted, promised>>
    BY DEF Receive, network, lives, callers
<1>2. /\ DB!Stored' = DB!Stored /\ DB!TypeOK'
      /\ UNCHANGED <<gz, gzErr, disk, call, ret, consumed, written, faults>>
    BY <1>1, DirStill DEF TypeOK
<1>t. /\ buf \in [Buf -> Msg \cup {NoMsg}] /\ hold \in [Proc -> Buf \cup {NoBuf}]
      /\ pc \in [Proc -> {"idle", "queue", "full", "blocked"}]
      /\ queue \in Seq(Buf) /\ sendq \in Seq(Proc) /\ wbuf = NoBuf
      /\ BufferSize \in Nat /\ Len(queue) <= BufferSize
      /\ accepted \in Seq(Msg) /\ promised \subseteq Msg
    BY InstanceAssumption DEF TypeOK, Worker
<1>h. /\ Head(queue) = queue[1] /\ Head(queue) \in Buf /\ 1 \in 1..Len(queue)
      /\ Tail(queue) \in Seq(Buf) /\ Len(queue) = Len(Tail(queue)) + 1
      /\ \A i \in 1..Len(Tail(queue)) : Tail(queue)[i] = queue[i + 1] /\ i + 1 \in 1..Len(queue)
      /\ \A k \in 1..Len(queue) : k = 1 \/ k - 1 \in 1..Len(Tail(queue))
  <2>1. /\ Head(queue) = queue[1] /\ Head(queue) \in Buf
        /\ Tail(queue) \in Seq(Buf) /\ Len(queue) = Len(Tail(queue)) + 1
        /\ \A i \in 1..Len(Tail(queue)) : Tail(queue)[i] = queue[i + 1]
      BY <1>1, <1>t, HeadTail
  <2>2. Len(Tail(queue)) \in Nat BY <2>1
  <2> QED BY <2>1, <2>2
<1>m. ASSUME Moved
      PROVE  /\ p \in Proc /\ p = sendq[1] /\ 1 \in 1..Len(sendq) /\ pc[p] = "blocked"
             /\ hold[p] \in Buf /\ hold[p] # NoBuf
             /\ buf[hold[p]] \in Msg /\ buf[hold[p]] \in used /\ buf[hold[p]] \notin promised
  <2>1. p \in Proc /\ p = sendq[1] /\ 1 \in 1..Len(sendq) BY <1>m, <1>t, HeadTail
  <2>2. pc[p] = "blocked" BY <2>1 DEF Callers
  <2>3. hold[p] \in Buf /\ hold[p] # NoBuf BY <1>t, <2>1, <2>2 DEF Callers
  <2> QED BY <2>1, <2>2, <2>3, InstanceAssumption DEF Messages
<1> HIDE DEF p, Moved
<1>q. /\ queue' \in Seq(Buf) /\ Len(queue') <= BufferSize
      /\ \A i \in 1..Len(queue') :
            \/ i \in 1..Len(Tail(queue)) /\ queue'[i] = queue[i + 1]
            \/ Moved /\ i = Len(queue) /\ queue'[i] = hold[p]
      /\ \A i \in 1..Len(Tail(queue)) : i \in 1..Len(queue') /\ queue'[i] = queue[i + 1]
      /\ Moved => Len(queue) \in 1..Len(queue') /\ queue'[Len(queue)] = hold[p]
  <2> DEFINE t == Tail(queue)
  <2>0. t \in Seq(Buf) /\ Len(t) \in Nat /\ Len(queue) = Len(t) + 1 BY <1>h
  <2>e. Tail(queue) = t OBVIOUS
  <2>t. \A i \in 1..Len(t) : t[i] = queue[i + 1] BY <1>h
  <2> HIDE DEF t
  <2>1. CASE Moved
    <3>0. hold[p] \in Buf /\ queue' = Append(t, hold[p]) BY <1>1, <1>m, <2>1 DEF t
    <3>1. queue' \in Seq(Buf) /\ Len(queue') = Len(t) + 1 BY <2>0, <3>0
    <3>2. \A i \in 1..(Len(t) + 1) : queue'[i] = IF i = Len(t) + 1 THEN hold[p] ELSE t[i]
        BY <2>0, <3>0
    <3>3. Len(queue') <= BufferSize BY <1>t, <2>0, <3>1
    <3>4. \A i \in 1..Len(t) : i \in 1..Len(queue') /\ queue'[i] = queue[i + 1]
        BY <2>0, <2>t, <3>1, <3>2
    <3>5. Len(queue) \in 1..Len(queue') /\ queue'[Len(queue)] = hold[p] BY <2>0, <3>1, <3>2
    <3>6. \A i \in 1..Len(queue') : i \in 1..Len(t) \/ i = Len(queue) BY <2>0, <3>1
    <3> QED BY <2>1, <2>e, <3>1, <3>3, <3>4, <3>5, <3>6
  <2>2. CASE ~Moved
    <3>1. queue' = t BY <1>1, <2>2 DEF t
    <3>2. Len(queue') <= BufferSize BY <1>t, <2>0, <3>1
    <3>3. \A i \in 1..Len(Tail(queue)) : i \in 1..Len(queue') /\ queue'[i] = queue[i + 1]
        BY <2>t, <2>e, <3>1
    <3>4. \A i \in 1..Len(queue') : i \in 1..Len(Tail(queue)) /\ queue'[i] = queue[i + 1]
        BY <2>t, <2>e, <3>1
    <3> QED BY <2>0, <2>2, <3>1, <3>2, <3>3, <3>4
  <2> QED BY <2>1, <2>2
<1>p. /\ \A q \in Proc : (Moved /\ q = p) \/ (pc'[q] = pc[q] /\ hold'[q] = hold[q])
      /\ Moved => pc'[p] = "idle" /\ hold'[p] = NoBuf
    BY <1>1, <1>m, <1>t
<1>a. /\ promised' = promised \/ (Moved /\ ~closing /\ promised' = promised \cup {buf[hold[p]]})
      /\ promised \subseteq promised'
    BY <1>1
<1>3. TypeOK'
  <2>1. pc' \in [Proc -> {"idle", "queue", "full", "blocked"}] /\ hold' \in [Proc -> Buf \cup {NoBuf}]
      BY <1>1, <1>t
  <2>2. sendq' \in Seq(Proc)
    <3>1. CASE Moved
      <4>1. sendq' = Tail(sendq) /\ sendq # <<>> BY <1>1, <3>1 DEF Moved
      <4> QED BY <1>t, <4>1, HeadTail
    <3> QED BY <1>1, <1>t, <3>1
  <2>3. accepted' \in Seq(Msg)
    <3>1. CASE Moved
      <4>1. accepted' = Append(accepted, buf[hold[p]]) /\ buf[hold[p]] \in Msg BY <1>1, <1>m, <3>1
      <4> QED BY <1>t, <4>1
    <3> QED BY <1>1, <1>t, <3>1
  <2>4. promised' \subseteq Msg BY <1>a, <1>m, <1>t
  <2> QED BY <1>1, <1>2, <1>h, <1>q, <2>1, <2>2, <2>3, <2>4 DEF TypeOK
<1>4. Callers'
  <2>1. CASE Moved
    <3>0. sendq' = Tail(sendq) /\ sendq # <<>> BY <1>1, <2>1 DEF Moved
    <3>1. /\ Len(sendq) = Len(sendq') + 1
          /\ \A i \in 1..Len(sendq') : sendq'[i] = sendq[i + 1]
      <4>1. /\ Len(sendq) = Len(Tail(sendq)) + 1
            /\ \A i \in 1..Len(Tail(sendq)) : Tail(sendq)[i] = sendq[i + 1]
          BY <1>t, <3>0, HeadTail
      <4> QED BY <3>0, <4>1
    <3>2. sendq \in Seq(Proc) /\ sendq' \in Seq(Proc) BY <1>t, <3>0, HeadTail
    <3>3. \A i \in 1..Len(sendq') : i + 1 \in 1..Len(sendq) /\ i + 1 # 1 BY <3>1, <3>2
    <3>4. \A i \in 1..Len(sendq') : sendq'[i] \in Proc /\ sendq'[i] # p
        BY <1>m, <2>1, <3>1, <3>2, <3>3 DEF Callers
    <3>5. \A i \in 1..Len(sendq') : pc'[sendq'[i]] = "blocked"
        BY <1>p, <3>1, <3>3, <3>4 DEF Callers
    <3>6. \A i, j \in 1..Len(sendq') : sendq'[i] = sendq'[j] => i = j
        BY <3>1, <3>2, <3>3 DEF Callers
    <3> QED BY <1>m, <1>p, <2>1, <3>5, <3>6 DEF Callers
  <2>2. CASE ~Moved BY <1>1, <2>2 DEF Callers
  <2> QED BY <2>1, <2>2
<1>5. Worker' BY <1>1, <1>2, <1>h, InstanceAssumption DEF Worker, WriteBehavior
<1>6. Somewhere'
  <2> SUFFICES ASSUME NEW c \in Buf
               PROVE  \/ c \in pool'
                      \/ \E q \in Proc : hold'[q] = c
                      \/ \E i \in 1..Len(queue') : queue'[i] = c
                      \/ wbuf' = c
      BY DEF Somewhere
  <2>1. CASE c \in pool BY <1>1, <2>1
  <2>2. CASE \E q \in Proc : hold[q] = c BY <1>p, <1>q, <2>2
  <2>3. CASE \E i \in 1..Len(queue) : queue[i] = c
    <3>1. PICK j \in 1..Len(queue) : queue[j] = c BY <2>3
    <3>2. CASE j = 1 BY <1>1, <1>h, <3>1, <3>2
    <3>3. CASE j # 1
      <4>1. j - 1 \in 1..Len(Tail(queue)) BY <1>h, <3>3
      <4>2. queue'[j - 1] = queue[(j - 1) + 1] /\ j - 1 \in 1..Len(queue') BY <1>q, <4>1
      <4>3. (j - 1) + 1 = j OBVIOUS
      <4> QED BY <3>1, <4>2, <4>3
    <3> QED BY <3>2, <3>3
  <2>4. c # wbuf BY <1>t, InstanceAssumption
  <2> QED BY <2>1, <2>2, <2>3, <2>4 DEF Somewhere
<1>7. Once'
  <2>1. NoBuf \notin pool /\ NoBuf \notin Buf BY InstanceAssumption DEF TypeOK
  <2>2. \A q \in Proc : hold'[q] = NoBuf \/ (hold'[q] = hold[q] /\ (Moved => q # p)) BY <1>m, <1>p
  <2>3. \A q \in Proc : hold'[q] \notin pool' BY <1>1, <2>1, <2>2 DEF Once
  <2>4. \A i \in 1..Len(queue') : queue'[i] \notin pool' BY <1>1, <1>h, <1>m, <1>q DEF Once
  <2>5. wbuf' \notin pool' BY <1>1, <1>h DEF Once
  <2>6. \A q, r \in Proc : hold'[q] = hold'[r] /\ q # r => hold'[q] = NoBuf BY <2>2 DEF Once
  <2>7. ASSUME NEW q \in Proc, NEW i \in 1..Len(queue') PROVE hold'[q] # queue'[i]
    <3>1. queue'[i] \in Buf BY <1>q
    <3>2. CASE hold'[q] = NoBuf BY <2>1, <3>1, <3>2
    <3>3. CASE hold'[q] # NoBuf
      <4>1. hold'[q] = hold[q] /\ (Moved => q # p) BY <2>2, <3>3
      <4>2. CASE i \in 1..Len(Tail(queue)) /\ queue'[i] = queue[i + 1] BY <1>h, <4>1, <4>2 DEF Once
      <4>3. CASE Moved /\ queue'[i] = hold[p] BY <1>m, <3>3, <4>1, <4>3 DEF Once
      <4> QED BY <1>q, <4>2, <4>3
    <3> QED BY <3>2, <3>3
  <2>8. \A q \in Proc : hold'[q] = wbuf' => wbuf' = NoBuf BY <1>1, <1>h, <2>2 DEF Once
  <2>9. ASSUME NEW i \in 1..Len(queue'), NEW j \in 1..Len(queue'), queue'[i] = queue'[j] PROVE i = j
    <3>1. CASE i \in 1..Len(Tail(queue)) /\ j \in 1..Len(Tail(queue))
      <4>1. queue'[i] = queue[i + 1] /\ queue'[j] = queue[j + 1] BY <1>q, <3>1
      <4>2. i + 1 \in 1..Len(queue) /\ j + 1 \in 1..Len(queue) BY <1>h, <3>1
      <4>3. i + 1 = j + 1 BY <2>9, <4>1, <4>2 DEF Once
      <4> QED BY <4>3
    <3>2. ASSUME NEW k \in 1..Len(queue'), NEW l \in 1..Len(queue'),
                 k \notin 1..Len(Tail(queue)), l \in 1..Len(Tail(queue))
          PROVE  queue'[k] # queue'[l]
      <4>1. Moved /\ queue'[k] = hold[p] BY <1>q, <3>2
      <4>2. queue'[l] = queue[l + 1] /\ l + 1 \in 1..Len(queue) BY <1>h, <1>q, <3>2
      <4> QED BY <1>m, <4>1, <4>2 DEF Once
    <3>3. CASE i \notin 1..Len(Tail(queue)) /\ j \in 1..Len(Tail(queue)) BY <2>9, <3>2, <3>3
    <3>5. CASE i \in 1..Len(Tail(queue)) /\ j \notin 1..Len(Tail(queue)) BY <2>9, <3>2, <3>5
    <3>4. CASE i \notin 1..Len(Tail(queue)) /\ j \notin 1..Len(Tail(queue)) BY <1>q, <3>4
    <3> QED BY <3>1, <3>3, <3>4, <3>5
  <2>10. ASSUME NEW i \in 1..Len(queue') PROVE queue'[i] # wbuf'
    <3>1. CASE i \in 1..Len(Tail(queue)) /\ queue'[i] = queue[i + 1]
      <4>1. i + 1 \in 1..Len(queue) /\ i + 1 # 1 BY <1>h, <3>1
      <4> QED BY <1>1, <1>h, <3>1, <4>1 DEF Once
    <3>2. CASE Moved /\ queue'[i] = hold[p] BY <1>1, <1>h, <1>m, <3>2 DEF Once
    <3> QED BY <1>q, <3>1, <3>2
  <2> QED BY <2>3, <2>4, <2>5, <2>6, <2>7, <2>8, <2>9, <2>10 DEF Once
<1>8. Messages'
  <2>1. \A q \in Proc : pc'[q] # "idle" =>
            (Moved => q # p) /\ pc[q] # "idle" /\ hold'[q] = hold[q] /\ hold[q] \in Buf
      BY <1>m, <1>p, <1>t DEF Callers
  <2>2. ASSUME NEW q \in Proc, pc'[q] # "idle"
        PROVE  buf'[hold'[q]] \in Msg /\ buf'[hold'[q]] \notin promised'
    <3>1. buf[hold[q]] \in Msg /\ buf[hold[q]] \notin promised BY <2>1, <2>2 DEF Messages
    <3>2. Moved => buf[hold[q]] # buf[hold[p]]
      <4>1. Moved => hold[q] # hold[p] BY <1>m, <2>1, <2>2 DEF Once
      <4> QED BY <1>m, <2>1, <2>2, <3>1, <4>1, InstanceAssumption DEF Messages
    <3> QED BY <1>1, <1>a, <2>1, <2>2, <3>1, <3>2
  <2>3. \A i \in 1..Len(queue') : buf'[queue'[i]] \in Msg BY <1>1, <1>h, <1>m, <1>q DEF Messages
  <2>4. buf'[wbuf'] \in Msg BY <1>1, <1>h DEF Messages
  <2>5. promised' \subseteq used' BY <1>1, <1>a, <1>m DEF Messages
  <2> QED BY <1>1, <2>2, <2>3, <2>4, <2>5 DEF Messages
<1>9. NotLeft'
  <2>1. Left' = Left BY <1>1, <1>2 DEF Left
  <2>2. \A q \in Proc : pc'[q] # "idle" => pc[q] # "idle" /\ hold'[q] = hold[q] BY <1>m, <1>p
  <2>3. ASSUME NEW i \in 1..Len(queue') PROVE buf'[queue'[i]] \notin Left
    <3>1. CASE i \in 1..Len(Tail(queue)) /\ queue'[i] = queue[i + 1] BY <1>1, <1>h, <3>1 DEF NotLeft
    <3>2. CASE Moved /\ queue'[i] = hold[p] BY <1>1, <1>m, <3>2 DEF NotLeft
    <3> QED BY <1>q, <3>1, <3>2
  <2>4. buf'[wbuf'] \notin Left BY <1>1, <1>h DEF NotLeft
  <2> QED BY <1>1, <1>2, <2>1, <2>2, <2>3, <2>4 DEF NotLeft
<1>10. FifoOnce'
  <2>1. handled \in Seq(Msg) /\ InHand = <<>> /\ accepted = (handled \o <<>>) \o Msgs(buf, queue)
      BY FifoTypes DEF FifoOnce, InHand
  <2>2. /\ Msgs(buf, queue) = <<buf[Head(queue)]>> \o Msgs(buf, Tail(queue))
        /\ buf[Head(queue)] \in Msg /\ \A i \in 1..Len(Tail(queue)) : buf[Tail(queue)[i]] \in Msg
      BY <1>1, <1>t, MsgsHead DEF Messages
  <2>3. Msgs(buf, Tail(queue)) \in Seq(Msg) BY <1>h, <2>2, MsgsType
  <2> DEFINE h == handled \o <<buf[Head(queue)]>>
             r == Msgs(buf, Tail(queue))
  <2>4. h \in Seq(Msg) /\ accepted = h \o r BY <2>1, <2>2, <2>3
  <2>5. handled' \o InHand' = h BY <1>1 DEF InHand
  <2>6. Content(queue)' = Msgs(buf, queue') BY <1>1 DEF Content, Msgs
  <2>7. CASE Moved
    <3>0. /\ hold[p] \in Buf /\ buf[hold[p]] \in Msg /\ queue' = Append(Tail(queue), hold[p])
          /\ accepted' = Append(accepted, buf[hold[p]])
        BY <1>1, <1>m, <2>7
    <3>1. Msgs(buf, queue') = Append(r, buf[hold[p]])
      <4>1. Msgs(buf, Append(Tail(queue), hold[p])) = Append(Msgs(buf, Tail(queue)), buf[hold[p]])
          BY <1>h, <2>2, <3>0, MsgsAppend, ZenonT(30)
      <4> QED BY <3>0, <4>1
    <3>2. h \o Append(r, buf[hold[p]]) = Append(h \o r, buf[hold[p]])
        BY <2>3, <2>4, <3>0, ConcatAppend
    <3> HIDE DEF h, r
    <3> QED BY <2>4, <2>5, <2>6, <3>0, <3>1, <3>2 DEF FifoOnce
  <2>8. CASE ~Moved
    <3> HIDE DEF h
    <3> QED BY <1>1, <2>4, <2>5, <2>6, <2>8 DEF FifoOnce
  <2> QED BY <2>7, <2>8
<1>11. Kept'
  <2>1. InQueue \subseteq InQueue' \cup {buf'[wbuf']}
    <3> SUFFICES ASSUME NEW j \in 1..Len(queue) PROVE buf[queue[j]] \in InQueue' \cup {buf'[wbuf']}
        BY DEF InQueue
    <3>1. CASE j = 1 BY <1>1, <1>h, <3>1
    <3>2. CASE j # 1
      <4>1. j - 1 \in 1..Len(Tail(queue)) BY <1>h, <3>2
      <4>2. queue'[j - 1] = queue[(j - 1) + 1] /\ j - 1 \in 1..Len(queue') BY <1>q, <4>1
      <4>3. (j - 1) + 1 = j OBVIOUS
      <4> QED BY <1>1, <4>2, <4>3 DEF InQueue
    <3> QED BY <3>1, <3>2
  <2>2. Pending \subseteq Pending' BY <1>1, <2>1, PendingIs, PendingIsNext
  <2>3. Moved => buf[hold[p]] \in Pending'
    <3>1. Moved => buf[hold[p]] \in InQueue' BY <1>1, <1>q DEF InQueue
    <3> QED BY <3>1, PendingIsNext
  <2>4. Lossless' = Lossless BY <1>1, <1>2 DEF Lossless, WriteBehavior
  <2>5. wpc' # "exited" /\ cpc' # "done" BY <1>1 DEF Worker
  <2> QED BY <1>1, <1>2, <1>a, <2>2, <2>3, <2>4, <2>5 DEF Kept, WriteBehavior
<1> QED BY <1>3, <1>4, <1>5, <1>6, <1>7, <1>8, <1>9, <1>10, <1>11

-----------------------------------------------------------------------------
(* The worker between two messages, and Close *)

\* A step that may touch the fallback buffer, but none of the buffers and
\* messages, while the worker has none.
LEMMA BetweenInv ==
    ASSUME Inv, DirMoves,
           UNCHANGED <<pc, hold, pool, buf, queue, sendq, wbuf, accepted, handled, used, promised,
                       sent>>,
           {wpc, wpc'} \cap {"send", "fallback", "put"} = {}
    PROVE  Callers' /\ Somewhere' /\ Once' /\ Messages' /\ NotLeft' /\ FifoOnce' /\ Pending' = Pending
<1> USE DEF Inv, Core
<1>1. Callers' BY DEF Callers
<1>2. Somewhere' BY DEF Somewhere
<1>3. Once' BY DEF Once
<1>4. Messages' BY DEF Messages
<1>5. NotLeft'
  <2>1. /\ consumed' \subseteq consumed \cup DB!Stored /\ DB!Stored' \subseteq DB!Stored
        /\ written' = written
      BY DEF DirMoves
  <2>2. Left' \subseteq Left BY <2>1 DEF Left
  <2> QED BY <2>1, <2>2 DEF NotLeft
<1>6. FifoOnce' BY DEF FifoOnce, Content, InHand
<1>7. Pending' = Pending
  <2>1. InQueue' = InQueue BY DEF InQueue
  <2> QED BY <2>1, PendingIs, PendingIsNext
<1> QED BY <1>1, <1>2, <1>3, <1>4, <1>5, <1>6, <1>7

\* The worker looks at the queue and the close channel.
LEMMA LookInv ==
    ASSUME Inv, DirMoves, TopEmpty \/ SelectTick \/ SelectClose \/ DrainDone \/ FlushNothing
    PROVE  Core'
<1> USE DEF Inv, Core
<1>1. /\ UNCHANGED <<pc, hold, pool, buf, queue, sendq, wbuf, accepted, handled, used, promised,
                     sent, closing, fb, cpc, conn, up, outages, restarts, setup>>
      /\ UNCHANGED dirbuf
      /\ \/ wpc = "top" /\ wpc' = "select" /\ draining' = draining
         \/ wpc = "select" /\ wpc' = "flush" /\ draining' = draining
         \/ wpc = "select" /\ wpc' = "drain" /\ closing /\ draining' = TRUE
         \/ wpc = "drain" /\ wpc' = "exited" /\ queue = <<>> /\ draining' = draining
         \/ wpc = "flush" /\ wpc' = "top" /\ ~fb /\ draining' = draining
    BY DEF TopEmpty, SelectTick, SelectClose, DrainDone, FlushNothing, Goto, WorkerOnly, callers,
       channel, lives, history, network
<1>2. Callers' /\ Somewhere' /\ Once' /\ Messages' /\ NotLeft' /\ FifoOnce' /\ Pending' = Pending
    BY <1>1, BetweenInv
<1>3. UNCHANGED <<gz, gzErr, disk, call, ret, consumed, written, faults>> BY <1>1, DirStill
<1>4. TypeOK' BY <1>1, ZenonT(30) DEF TypeOK, DirMoves
<1>5. Worker' BY <1>1, <1>3 DEF Worker, WriteBehavior
<1>6. Kept'
  <2>1. wpc' = "exited" => Pending = {}
    <3>1. wpc' = "exited" => InQueue = {} BY <1>1 DEF InQueue
    <3> QED BY <1>1, <3>1, PendingIs
  <2> QED BY <1>1, <1>2, <1>3, <2>1 DEF Kept, Lossless, WriteBehavior, Worker
<1> QED BY <1>2, <1>4, <1>5, <1>6

\* What the client's operations do to the connection.
Connects ==
    /\ up' = up
    /\ \/ outages' = outages /\ (conn' = conn \/ conn' \in {"good", "nil"})
       \/ outages' = outages + 1 /\ conn' \in {"broken", "good"}

\* The worker at the fallback buffer: HasData when it starts, Reader with the
\* client's WriteBatch as its callback, and Reconnect between two Readers.
LEMMA FlushInv ==
    ASSUME Inv, DirMoves, MaybeSetFb \/ FlushRead \/ FlushReconnect \/ FlushReread
    PROVE  Core'
<1> USE DEF Inv, Core
<1>1. /\ UNCHANGED <<pc, hold, pool, buf, queue, sendq, wbuf, accepted, handled, used, promised,
                     sent, closing, cpc, restarts, setup, draining>>
    BY DEF MaybeSetFb, FlushRead, FlushReconnect, FlushReread, WorkerOnly, callers, channel, lives, history
<1>2. /\ wpc \in {"boot", "flush", "reconnect", "reread"}
      /\ wpc' \in {"boot", "flush", "reconnect", "reread", "top"}
    BY DEF MaybeSetFb, FlushRead, FlushReconnect, FlushReread, Goto
<1>b. fb \in BOOLEAN /\ fb' \in BOOLEAN
  <2>1. fb \in BOOLEAN BY DEF TypeOK
  <2>2. fb' = fb \/ fb' = FALSE \/ fb' = (ret' \in {"true", "true_error"})
      BY DEF MaybeSetFb, FlushRead, FlushReconnect, FlushReread
  <2>3. CASE fb' = fb BY <2>1, <2>3
  <2>4. CASE fb' = FALSE BY <2>1, <2>4
  <2>5. CASE fb' = (ret' \in {"true", "true_error"})
    <3>1. (ret' \in {"true", "true_error"}) \in BOOLEAN OBVIOUS
    <3> QED BY <2>1, <2>5, <3>1
  <2> QED BY <2>2, <2>3, <2>4, <2>5
<1>3. Callers' /\ Somewhere' /\ Once' /\ Messages' /\ NotLeft' /\ FifoOnce' /\ Pending' = Pending
    BY <1>1, <1>2, BetweenInv
<1>4. Connects
    BY DEF MaybeSetFb, FlushRead, FlushReconnect, FlushReread, ReaderStep, CliOK, CliErr, HandshakeFails,
       network, Connects
<1>5. TypeOK' BY <1>1, <1>2, <1>b, <1>4 DEF TypeOK, DirMoves, Connects
<1>6. Worker'
  <2>1. CASE MaybeSetFb
    BY <1>1, <1>2, <2>1 DEF MaybeSetFb, Worker, WriteBehavior, Goto, dirbuf
  <2>2. CASE FlushRead
    <3>1. /\ wpc = "flush" /\ fb /\ WriteBehavior = "Fallback" /\ ~(wpc \in {"drain", "exited"})
          /\ \/ wpc' = "flush" /\ fb'
             \/ wpc' = "reconnect" /\ fb' /\ call' = "none"
             \/ wpc' = "top" /\ ~fb' /\ call' = "none"
        BY <2>2 DEF FlushRead, Goto, Worker
    <3> QED BY <1>1, <3>1 DEF Worker, WriteBehavior
  <2>3. CASE FlushReconnect BY <1>1, <1>2, <2>3 DEF FlushReconnect, Worker, WriteBehavior, Goto, dirbuf
  <2>4. CASE FlushReread
    <3>1. wpc = "reread" /\ fb /\ WriteBehavior = "Fallback" BY <2>4 DEF FlushReread, Worker
    <3>2. \/ wpc' = wpc /\ fb' = fb
          \/ wpc' = "top" /\ call' = "none"
        BY <2>4 DEF FlushReread, Goto
    <3> QED BY <1>1, <3>1, <3>2 DEF Worker, WriteBehavior
  <2> QED BY <2>1, <2>2, <2>3, <2>4
<1>7. Kept'
  <2>1. WriteBehavior # "Fallback" => gz' = gz
    BY DEF MaybeSetFb, FlushRead, FlushReconnect, FlushReread, Worker, dirbuf
  <2>2. wpc' # "exited" /\ cpc' # "done" BY <1>1, <1>2 DEF Worker
  <2>3. outages' = 0 => outages = 0 /\ (up' = up) /\ (conn' # "broken" \/ conn' = conn)
    BY <1>4 DEF Connects, TypeOK
  <2>4. Lossless' => Lossless BY <1>1, <2>3 DEF Lossless, DirMoves, WriteBehavior
  <2> QED BY <1>1, <1>3, <2>1, <2>2, <2>3, <2>4 DEF Kept, DirMoves, WriteBehavior
<1> QED BY <1>3, <1>5, <1>6, <1>7

LEMMA CloseInv ==
    ASSUME Inv, DirMoves, CloseBegin \/ CloseEnd \/ ServerDown \/ ServerUp
    PROVE  Core'
<1> USE DEF Inv, Core
<1>1. CASE CloseBegin \/ ServerDown \/ ServerUp
  <2>1. UNCHANGED <<pc, hold, pool, buf, queue, sendq, wpc, wbuf, accepted, handled, used, promised,
                    sent, setup, dirbuf, draining, fb, restarts>>
      BY <1>1 DEF CloseBegin, ServerDown, ServerUp, callers, channel, worker, lives, history
  <2>2. /\ Somewhere' /\ Once' /\ FifoOnce' /\ DB!TypeOK' /\ Messages' /\ NotLeft'
        /\ Pending' = Pending /\ Callers'
        /\ UNCHANGED <<gz, gzErr, disk, call, ret, consumed, written, faults>>
      BY <2>1, QuietInv DEF Callers
  <2>3. CASE CloseBegin
    <3>1. /\ cpc = "open" /\ cpc' = "waiting" /\ closing' = TRUE /\ UNCHANGED <<conn, up, outages>>
        BY <2>3 DEF CloseBegin, network
    <3>2. TypeOK' BY <2>1, <2>2, <3>1 DEF TypeOK
    <3>3. Worker' BY <2>1, <2>2, <3>1 DEF Worker, WriteBehavior
    <3>4. Kept' BY <2>1, <2>2, <3>1 DEF Kept, Lossless, WriteBehavior
    <3> QED BY <2>2, <3>2, <3>3, <3>4
  <2>4. CASE ServerDown \/ ServerUp
    <3>1. /\ UNCHANGED <<cpc, closing>> /\ up' \in BOOLEAN /\ conn' \in {"nil", "good", "broken"}
          /\ outages' \in Nat /\ (outages' = 0 => outages = 0 /\ up' /\ conn' # "broken")
      <4>1. /\ conn \in {"nil", "good", "broken"} /\ outages \in Nat
            /\ outages = 0 => up /\ conn # "broken"
          BY DEF TypeOK, Kept
      <4>2. UNCHANGED <<cpc, closing>> /\ (up' = TRUE \/ up' = FALSE)
          BY <2>4 DEF ServerDown, ServerUp
      <4>3. conn' \in {"nil", "good", "broken"} /\ outages' \in Nat
          BY <2>4, <4>1 DEF ServerDown, ServerUp
      <4>4. outages' = 0 => outages = 0 /\ up' = TRUE /\ conn' # "broken"
          BY <2>4, <4>1 DEF ServerDown, ServerUp
      <4> QED BY <4>2, <4>3, <4>4
    <3>2. TypeOK' BY <2>1, <2>2, <3>1 DEF TypeOK
    <3>3. Worker' BY <2>1, <2>2, <3>1 DEF Worker, WriteBehavior
    <3>4. Kept' BY <2>1, <2>2, <3>1 DEF Kept, Lossless, WriteBehavior
    <3> QED BY <2>2, <3>2, <3>3, <3>4
  <2> QED BY <1>1, <2>3, <2>4
<1>2. CASE CloseEnd
  <2>1. /\ UNCHANGED <<pc, hold, pool, buf, queue, sendq, wpc, wbuf, accepted, handled, used,
                       promised, sent, setup, draining, fb, restarts, closing, up, outages>>
        /\ wpc = "exited" /\ cpc = "waiting" /\ cpc' = "done"
        /\ conn' = "nil" \/ conn' = conn
      BY <1>2 DEF CloseEnd, callers, channel, worker, lives, history
  <2>2. Callers' /\ Somewhere' /\ Once' /\ Messages' /\ NotLeft' /\ FifoOnce' /\ Pending' = Pending
      BY <2>1, BetweenInv
  <2>3. \/ WriteBehavior = "Fallback" /\ DP!Close
        \/ WriteBehavior # "Fallback" /\ UNCHANGED <<gz, call>>
      BY <1>2, SameActions DEF CloseEnd, dirbuf
  <2>4. call' = call /\ (WriteBehavior # "Fallback" => gz' = gz) BY <2>3 DEF DP!Close
  <2>5. TypeOK' BY <2>1 DEF TypeOK, DirMoves
  <2>6. Worker' BY <2>1, <2>4 DEF Worker, WriteBehavior
  <2>7. faults' = 0 => gz' = <<>>
    <3> SUFFICES ASSUME faults' = 0, WriteBehavior = "Fallback" PROVE gz' = <<>>
        BY <2>3 DEF Kept
    <3>1. faults = 0 /\ ~gzErr BY DEF DirMoves, DP!Content
    <3>2. CASE DP!closeOK BY <3>2 DEF DP!closeOK
    <3>3. CASE DP!closeErr
      BY <3>1, <3>3 DEF DP!closeErr, DP!closeSticky, DP!closeFlushFails, DP!closeFileFails,
         DP!closeReadFails, DP!Fault
    <3> QED BY <2>3, <3>2, <3>3 DEF DP!Close
  <2>8. Kept'
    <3>1. Lossless' => Lossless BY <2>1 DEF Lossless, DirMoves, WriteBehavior
    <3> QED BY <2>1, <2>2, <2>4, <2>7, <3>1 DEF Kept, DirMoves, WriteBehavior
  <2> QED BY <2>2, <2>5, <2>6, <2>8
<1> QED BY <1>1, <1>2

-----------------------------------------------------------------------------
(* The worker with a message *)

\* A step of sendToCli or sendToFallbackCli, whatever the client and the disk
\* do: the message is passed on to the fallback buffer, or done with.
PassedOn ==
    /\ wpc = "send" /\ wpc' = "fallback"
    /\ UNCHANGED <<handled, sent, dirbuf>>

DoneWith ==
    /\ wpc \in {"send", "fallback"} /\ wpc' = "put" /\ Handled
    /\ IF wpc = "send" THEN sent' \in {sent, sent \cup {buf[wbuf]}} /\ UNCHANGED dirbuf
                       ELSE sent' = sent

LEMMA InHandInv ==
    ASSUME Inv, DirMoves, SendFrame, PassedOn \/ DoneWith
    PROVE  /\ Callers' /\ Somewhere' /\ Once' /\ Messages' /\ NotLeft' /\ FifoOnce'
           /\ handled' \in Seq(Msg) /\ sent' \subseteq Msg
           /\ Pending \subseteq Pending' \cup {buf[wbuf]}
<1> USE DEF Inv, Core
<1> DEFINE m == buf[wbuf]
<1>1. UNCHANGED <<pc, hold, pool, buf, queue, sendq, closing, wbuf, draining, cpc, restarts, setup,
                  accepted, used, promised>>
    BY DEF SendFrame, callers, channel, lives
<1>2. wpc \in {"send", "fallback"} /\ wpc' \in {"fallback", "put"} BY DEF PassedOn, DoneWith
<1>3. wbuf \in Buf /\ m \in Msg /\ m \in used /\ m \notin Left
  <2>1. wbuf \in Buf BY <1>2 DEF Worker, TypeOK
  <2>2. m \in Msg /\ m \notin Left BY <1>2 DEF Messages, NotLeft
  <2> QED BY <2>1, <2>2, InstanceAssumption DEF Messages
<1>4. Callers' BY <1>1 DEF Callers
<1>5. Somewhere' BY <1>1 DEF Somewhere
<1>6. Once' BY <1>1 DEF Once
<1>7. Messages' BY <1>1, <1>2 DEF Messages
<1>8. sent \subseteq sent' /\ sent' \subseteq sent \cup {m} /\ (wpc = "fallback" => sent' = sent)
    BY DEF PassedOn, DoneWith
<1>9. NotLeft'
  <2>1. wpc = "send" => DB!Stored' = DB!Stored /\ UNCHANGED <<consumed, written>>
      BY DirStill DEF PassedOn, DoneWith
  <2>2. /\ consumed' \subseteq consumed \cup DB!Stored
        /\ DB!Stored' \subseteq DB!Stored \cup {m} /\ written' \subseteq written \cup {m}
      BY DEF DirMoves
  <2>3. Left' \subseteq Left \cup {m} BY <1>8, <2>2 DEF Left
  <2>4. wpc' = "fallback" => Left' = Left BY <2>1 DEF Left, PassedOn, DoneWith
  <2>5. sent' \cap (consumed' \cup DB!Stored' \cup written') = {}
    <3>1. CASE wpc = "send" BY <1>3, <1>8, <2>1, <3>1 DEF NotLeft, Left
    <3>2. CASE wpc = "fallback" BY <1>3, <1>8, <2>2, <3>2 DEF NotLeft, Left
    <3> QED BY <1>2, <3>1, <3>2
  <2>6. ASSUME NEW q \in Proc, pc'[q] # "idle" PROVE buf'[hold'[q]] \notin Left'
    <3>1. pc[q] # "idle" /\ hold[q] \in Buf /\ hold[q] # NoBuf BY <1>1, <2>6 DEF TypeOK, Callers
    <3>2. hold[q] # wbuf BY <3>1 DEF Once
    <3>3. buf[hold[q]] \in Msg /\ buf[hold[q]] \notin Left BY <3>1 DEF Messages, NotLeft
    <3>4. buf[hold[q]] # m BY <1>3, <3>1, <3>2, <3>3, InstanceAssumption DEF Messages
    <3> QED BY <1>1, <2>3, <3>3, <3>4
  <2>7. ASSUME NEW i \in 1..Len(queue') PROVE buf'[queue'[i]] \notin Left'
    <3>1. i \in 1..Len(queue) /\ queue[i] \in Buf /\ queue[i] # wbuf BY <1>1 DEF TypeOK, Once
    <3>2. buf[queue[i]] \in Msg /\ buf[queue[i]] \notin Left BY <3>1 DEF Messages, NotLeft
    <3>3. buf[queue[i]] # m BY <1>3, <3>1, <3>2, InstanceAssumption DEF Messages
    <3> QED BY <1>1, <2>3, <3>2, <3>3
  <2>8. wpc' \in {"send", "fallback"} => buf'[wbuf'] \notin Left' BY <1>1, <1>2, <1>3, <2>4
  <2>9. Left' \subseteq used' BY <1>1, <1>3, <2>3 DEF NotLeft
  <2> QED BY <2>5, <2>6, <2>7, <2>8, <2>9 DEF NotLeft
<1>10. handled' \in Seq(Msg) /\ FifoOnce'
  <2>1. /\ handled \in Seq(Msg) /\ Content(queue) \in Seq(Msg) /\ InHand = <<m>>
        /\ accepted = (handled \o <<m>>) \o Content(queue)
      BY <1>2, FifoTypes DEF FifoOnce, InHand
  <2>2. Content(queue)' = Content(queue) BY <1>1 DEF Content
  <2>3. CASE PassedOn
    <3>1. InHand' = <<m>> /\ handled' = handled BY <1>1, <2>3 DEF InHand, PassedOn
    <3> QED BY <1>1, <2>1, <2>2, <3>1 DEF FifoOnce
  <2>4. CASE DoneWith
    <3>1. InHand' = <<>> /\ handled' = Append(handled, m) BY <2>4 DEF InHand, DoneWith, Handled
    <3>2. handled' \in Seq(Msg) /\ handled' \o <<>> = handled' BY <1>3, <2>1, <3>1
    <3>3. Append(handled, m) \o Content(queue) = (handled \o <<m>>) \o Content(queue)
        BY <1>3, <2>1, AppendConcat
    <3> QED BY <1>1, <2>1, <2>2, <3>1, <3>2, <3>3 DEF FifoOnce
  <2> QED BY <2>3, <2>4
<1>11. Pending \subseteq Pending' \cup {m}
  <2>1. InQueue' = InQueue BY <1>1 DEF InQueue
  <2> QED BY <2>1, PendingIs, PendingIsNext
<1>12. sent' \subseteq Msg BY <1>3, <1>8 DEF TypeOK
<1> QED BY <1>4, <1>5, <1>6, <1>7, <1>9, <1>10, <1>11, <1>12

LEMMA SendInv ==
    ASSUME Inv, DirMoves, SendFallback \/ SendOK \/ SendErr \/ FallbackWrite
    PROVE  Core'
<1> USE DEF Inv, Core
<1>1. SendFrame BY DEF SendFallback, SendOK, SendErr, FallbackWrite
<1>2. UNCHANGED <<pc, hold, pool, buf, queue, sendq, closing, wbuf, draining, cpc, restarts, setup,
                  accepted, used, promised>>
    BY <1>1 DEF SendFrame, callers, channel, lives
<1>3. PassedOn \/ DoneWith
  <2>1. CASE SendFallback BY <2>1 DEF SendFallback, PassedOn, Goto
  <2>2. CASE SendOK BY <2>2 DEF SendOK, DoneWith, Goto
  <2>3. CASE SendErr BY <2>3 DEF SendErr, PassedOn, DoneWith, Goto
  <2>4. CASE FallbackWrite BY <2>4 DEF FallbackWrite, DoneWith, Goto
  <2> QED BY <2>1, <2>2, <2>3, <2>4
<1>4. /\ Callers' /\ Somewhere' /\ Once' /\ Messages' /\ NotLeft' /\ FifoOnce'
      /\ handled' \in Seq(Msg) /\ sent' \subseteq Msg
      /\ Pending \subseteq Pending' \cup {buf[wbuf]}
    BY <1>1, <1>3, InHandInv
<1>5. /\ wpc \in {"send", "fallback"} /\ wpc' \in {"fallback", "put"}
      /\ fb' = fb \/ fb' = TRUE
      /\ wpc' = "fallback" => fb'
      /\ fb' => WriteBehavior = "Fallback"
      /\ call' = call
      /\ sent \subseteq sent'
  <2>1. CASE SendFallback BY <2>1 DEF SendFallback, Goto, dirbuf, Worker
  <2>2. CASE SendOK BY <2>2 DEF SendOK, Goto, dirbuf, Worker
  <2>3. CASE SendErr BY <2>3 DEF SendErr, Goto, dirbuf, Worker
  <2>4. CASE FallbackWrite
    BY <2>4 DEF FallbackWrite, Goto, Worker, DB!WriteOK, DB!WriteOpenFails, DB!WriteThroughFails,
       DB!WriteRefused
  <2> QED BY <2>1, <2>2, <2>3, <2>4
<1>6. Connects BY DEF SendFallback, SendOK, SendErr, FallbackWrite, CliOK, CliErr, HandshakeFails, network, Connects
<1>a. outages' = 0 => outages = 0 /\ (up' = up) /\ (conn' # "broken" \/ conn' = conn)
    BY <1>6 DEF Connects, TypeOK
<1>7. TypeOK'
  <2>1. fb' \in BOOLEAN BY <1>5 DEF TypeOK
  <2> QED BY <1>2, <1>4, <1>5, <1>6, <2>1 DEF TypeOK, DirMoves, Connects
<1>8. Worker' BY <1>2, <1>5 DEF Worker, WriteBehavior
<1>9. Lossless' => Lossless /\ (buf[wbuf] \in sent' \cup written' \cup Pending')
  <2>1. Lossless' => Lossless BY <1>2, <1>a DEF Lossless, WriteBehavior, DirMoves
  <2>2. CASE SendFallback \/ (SendErr /\ wpc' = "fallback")
    <3>1. wpc' = "fallback" BY <2>2 DEF SendFallback, Goto
    <3> QED BY <1>2, <2>1, <3>1, PendingIsNext
  <2>3. CASE SendOK BY <2>1, <2>3 DEF SendOK
  <2>4. CASE SendErr /\ wpc' # "fallback"
    <3>1. WriteBehavior # "Fallback" BY <2>4 DEF SendErr, Goto
    <3>2. \/ conn = "broken" \/ (conn = "nil" /\ ~up)
          \/ outages' = outages + 1
        BY <2>4 DEF SendErr, CliErr, HandshakeFails
    <3>3. outages' # 0 BY <1>6, <3>2 DEF Kept, TypeOK, Connects
    <3>4. WriteBehavior' # "Fallback" BY <1>2, <3>1 DEF WriteBehavior
    <3> QED BY <3>3, <3>4 DEF Lossless
  <2>5. CASE FallbackWrite
    <3> SUFFICES ASSUME faults' = 0 PROVE buf[wbuf] \in written'
        BY <2>1 DEF Lossless
    <3>1. faults = 0 /\ ~gzErr /\ faults \in Nat BY DEF DirMoves, DP!Content, DP!Inv, DP!TypeOK
    <3>2. \A k : ~DB!Fault(k) BY <3>1 DEF DB!Fault
    <3> QED BY <2>5, <3>1, <3>2 DEF FallbackWrite, DB!WriteOpenFails, DB!WriteThroughFails,
               DB!WriteRefused
  <2> QED BY <2>2, <2>3, <2>4, <2>5
<1>10. Kept'
  <2>1. WriteBehavior # "Fallback" => gz' = gz
      BY DEF SendFallback, SendOK, SendErr, FallbackWrite, dirbuf, Worker
  <2>2. wpc' # "exited" /\ cpc' # "done" BY <1>2, <1>5 DEF Worker
  <2> QED BY <1>2, <1>4, <1>5, <1>a, <1>9, <2>1, <2>2 DEF Kept, DirMoves, WriteBehavior
<1> QED BY <1>4, <1>7, <1>8, <1>10

LEMMA PutBufferInv ==
    ASSUME Inv, DirMoves, PutBuffer
    PROVE  Core'
<1> USE DEF Inv, Core
<1>1. /\ wpc = "put" /\ pool' = pool \cup {wbuf}
      /\ buf' = [buf EXCEPT ![wbuf] = NoMsg] /\ wbuf' = NoBuf
      /\ wpc' = IF draining THEN "drain" ELSE "top"
      /\ UNCHANGED <<pc, hold, queue, sendq, closing, draining, fb, cpc, conn, up, outages,
                     restarts, setup, accepted, handled, used, promised, sent>>
      /\ UNCHANGED dirbuf
    BY DEF PutBuffer, Goto, callers, channel, network, lives, history
<1>2. /\ DB!Stored' = DB!Stored /\ DB!TypeOK'
      /\ UNCHANGED <<gz, gzErr, disk, call, ret, consumed, written, faults>>
    BY <1>1, DirStill DEF TypeOK
<1>t. /\ buf \in [Buf -> Msg \cup {NoMsg}] /\ hold \in [Proc -> Buf \cup {NoBuf}]
      /\ queue \in Seq(Buf) /\ wbuf \in Buf /\ wbuf # NoBuf /\ NoBuf \notin pool'
    BY <1>1, InstanceAssumption DEF TypeOK, Worker
<1>3. /\ \A i \in 1..Len(queue) : queue[i] \in Buf /\ queue[i] # wbuf
                                   /\ buf'[queue[i]] = buf[queue[i]]
      /\ \A q \in Proc : pc[q] # "idle" => /\ hold[q] \in Buf /\ hold[q] # wbuf
                                           /\ buf'[hold[q]] = buf[hold[q]]
    BY <1>1, <1>t DEF Once, Callers
<1>4. TypeOK' BY <1>1, <1>2, <1>t DEF TypeOK
<1>5. Callers' BY <1>1 DEF Callers
<1>6. Worker' BY <1>1, <1>2 DEF Worker, WriteBehavior
<1>7. Somewhere' BY <1>1 DEF Somewhere
<1>8. Once'
  <2>1. \A q \in Proc : hold[q] # wbuf BY <1>t DEF Once
  <2>2. \A i \in 1..Len(queue) : queue[i] # NoBuf BY <1>3, InstanceAssumption
  <2> QED BY <1>1, <1>3, <1>t, <2>1, <2>2 DEF Once
<1>9. Messages' BY <1>1, <1>3, <1>t DEF Messages
<1>10. NotLeft'
  <2>1. Left' = Left BY <1>1, <1>2 DEF Left
  <2> QED BY <1>1, <1>2, <1>3, <2>1 DEF NotLeft
<1>11. FifoOnce'
  <2>1. Content(queue)' = Content(queue) BY <1>1, <1>3 DEF Content
  <2>2. InHand' = InHand BY <1>1 DEF InHand
  <2> QED BY <1>1, <2>1, <2>2 DEF FifoOnce
<1>12. Kept'
  <2>1. InQueue' = InQueue BY <1>1, <1>3 DEF InQueue
  <2>2. Pending' = Pending BY <1>1, <2>1, PendingIs, PendingIsNext
  <2> QED BY <1>1, <1>2, <2>2 DEF Kept, Lossless, WriteBehavior
<1> QED BY <1>4, <1>5, <1>6, <1>7, <1>8, <1>9, <1>10, <1>11, <1>12

LEMMA WorkerInv ==
    ASSUME Inv, DirMoves, WorkerStep
    PROVE  Core'
<1>1. CASE TopReceive \/ SelectReceive \/ DrainReceive
  BY <1>1, ReceiveInv DEF TopReceive, SelectReceive, DrainReceive
<1>2. CASE TopEmpty \/ SelectTick \/ SelectClose \/ DrainDone \/ FlushNothing BY <1>2, LookInv
<1>3. CASE MaybeSetFb \/ FlushRead \/ FlushReconnect \/ FlushReread BY <1>3, FlushInv
<1>4. CASE SendFallback \/ SendOK \/ SendErr \/ FallbackWrite BY <1>4, SendInv
<1>5. CASE PutBuffer BY <1>5, PutBufferInv
<1> QED BY <1>1, <1>2, <1>3, <1>4, <1>5 DEF WorkerStep

-----------------------------------------------------------------------------
(* A new process, and the first one *)

LEMMA NewProcessInv ==
    ASSUME Inv, DirMoves, Restart \/ Crash
    PROVE  Core'
<1> USE DEF Inv, Core
<1>1. /\ pc' = [p \in Proc |-> "idle"] /\ hold' = [p \in Proc |-> NoBuf]
      /\ pool' = Buf /\ buf' = [b \in Buf |-> NoMsg]
      /\ queue' = <<>> /\ sendq' = <<>>
      /\ closing' = FALSE /\ cpc' = "open"
      /\ wpc' = "boot" /\ wbuf' = NoBuf /\ draining' = FALSE /\ fb' = FALSE
      /\ conn' = "nil" /\ accepted' = <<>> /\ handled' = <<>>
      /\ UNCHANGED <<up, outages, used, promised, sent, setup>>
      /\ restarts' = restarts + 1
    BY DEF Restart, Crash, NewProcess
<1>2. gz' = <<>> /\ call' = "none" BY DEF Restart, Crash, DB!Crash, DB!NewDirBuffer
<1>4. TypeOK'
  <2>1. accepted' \in Seq(Msg) /\ handled' \in Seq(Msg) /\ queue' \in Seq(Buf) /\ sendq' \in Seq(Proc)
      BY <1>1
  <2>2. Len(queue') <= BufferSize BY <1>1, InstanceAssumption
  <2>3. restarts' \in Nat BY <1>1 DEF TypeOK
  <2> QED BY <1>1, <2>1, <2>2, <2>3 DEF TypeOK, DirMoves
<1>5. Callers' BY <1>1 DEF Callers
<1>6. Worker' BY <1>1, <1>2 DEF Worker
<1>7. Somewhere' BY <1>1 DEF Somewhere
<1>8. Once' BY <1>1, InstanceAssumption DEF Once
<1>9. Messages' BY <1>1, InstanceAssumption DEF Messages
<1>10. NotLeft'
  <2>1. /\ DB!Stored' \subseteq DB!Stored /\ consumed' \subseteq consumed \cup DB!Stored
        /\ written' = written
    <3>1. CASE Restart BY <3>1 DEF Restart, Worker, DirMoves
    <3>2. CASE Crash
      <4>1. DP!Crash BY <3>2, SameActions DEF Crash
      <4>2. /\ Garbage \notin Msg /\ FaultKinds \subseteq {"disk", "crash"} /\ MaxFaults \in Nat
          BY InstanceAssumption
      <4>3. DP!Stored' \subseteq DP!Stored BY <4>1, <4>2, DP!CrashStored
      <4> QED BY <4>1, <4>3, SameState, SameNextState DEF DP!Crash
    <3> QED BY <3>1, <3>2
  <2>2. Left' \subseteq Left BY <1>1, <2>1 DEF Left
  <2> QED BY <1>1, <2>1, <2>2 DEF NotLeft
<1>11. FifoOnce'
  <2>1. Content(queue)' = <<>> BY <1>1 DEF Content
  <2>2. InHand' = <<>> BY <1>1 DEF InHand
  <2>3. (<<>> \o <<>>) \o <<>> = <<>> OBVIOUS
  <2> QED BY <1>1, <2>1, <2>2, <2>3 DEF FifoOnce
<1>12. Kept'
  <2>1. Lossless' => promised' \subseteq sent' \cup written' \cup Pending'
    <3>1. CASE Restart
      <4>1. promised \cap Pending = {} BY <3>1 DEF Restart, Worker, Kept
      <4>2. Lossless' => Lossless BY <1>1 DEF Lossless, DirMoves, WriteBehavior
      <4> QED BY <1>1, <4>1, <4>2 DEF Kept, DirMoves
    <3>2. CASE Crash BY <3>2 DEF Crash, DB!Crash, DB!Fault, TypeOK, DB!TypeOK, Lossless
    <3> QED BY <3>1, <3>2
  <2> QED BY <1>1, <1>2, <2>1 DEF Kept, WriteBehavior
<1> QED BY <1>4, <1>5, <1>6, <1>7, <1>8, <1>9, <1>10, <1>11, <1>12

LEMMA InitInv == Init => Inv
<1> SUFFICES ASSUME Init PROVE Inv OBVIOUS
<1>a. /\ Garbage \notin Msg /\ FaultKinds \subseteq {"disk", "crash"} /\ MaxFaults \in Nat
    BY InstanceAssumption
<1>1. DP!Inv /\ DP!Content BY <1>a, SameState, DP!InitInv, DP!InitContent DEF Init
<1>2. /\ pc = [p \in Proc |-> "idle"] /\ hold = [p \in Proc |-> NoBuf]
      /\ pool = Buf /\ buf = [b \in Buf |-> NoMsg]
      /\ queue = <<>> /\ sendq = <<>>
      /\ closing = FALSE /\ cpc = "open"
      /\ wpc = "boot" /\ wbuf = NoBuf /\ draining = FALSE /\ fb = FALSE
      /\ conn = "nil" /\ accepted = <<>> /\ handled = <<>>
      /\ up = TRUE /\ outages = 0 /\ restarts = 0 /\ setup \in Setups
      /\ used = {} /\ promised = {} /\ sent = {}
    BY DEF Init, Fresh
<1>3. /\ gz = <<>> /\ call = "none" /\ consumed = {} /\ written = {}
      /\ disk = [f \in DB!File |-> <<>>]
    BY DEF Init, DB!Init
<1>4. TypeOK
  <2>1. accepted \in Seq(Msg) /\ handled \in Seq(Msg) /\ queue \in Seq(Buf) /\ sendq \in Seq(Proc)
      BY <1>2
  <2>2. Len(queue) <= BufferSize BY <1>2, InstanceAssumption
  <2>3. DB!TypeOK BY <1>1, SameState DEF DP!Inv
  <2> QED BY <1>2, <2>1, <2>2, <2>3 DEF TypeOK
<1>5. Callers BY <1>2 DEF Callers
<1>6. Worker BY <1>2, <1>3 DEF Worker
<1>7. Somewhere BY <1>2 DEF Somewhere
<1>8. Once BY <1>2, InstanceAssumption DEF Once
<1>9. Messages BY <1>2 DEF Messages
<1>10. DB!Stored = {}
  <2>1. \A f \in DB!File : DB!Readable(disk[f]) = {} BY <1>3 DEF DB!Readable
  <2> QED BY <1>3, <2>1 DEF DB!Stored, DB!OnDisk, DB!Range
<1>11. NotLeft BY <1>2, <1>3, <1>10 DEF NotLeft, Left
<1>12. FifoOnce
  <2>1. Content(queue) = <<>> /\ InHand = <<>> BY <1>2 DEF Content, InHand
  <2>2. (<<>> \o <<>>) \o <<>> = <<>> OBVIOUS
  <2> QED BY <1>2, <2>1, <2>2 DEF FifoOnce
<1>13. Kept BY <1>2, <1>3 DEF Kept
<1> QED BY <1>1, <1>4, <1>5, <1>6, <1>7, <1>8, <1>9, <1>11, <1>12, <1>13 DEF Inv, Core

LEMMA NextInv == Inv /\ [Next]_vars => Inv'
<1> SUFFICES ASSUME Inv, [Next]_vars PROVE Inv' OBVIOUS
<1>1. CASE UNCHANGED vars
  <2>1. UNCHANGED <<callers, pool, buf, channel, closing, worker, cpc, network, lives, history, dirbuf>>
      BY <1>1 DEF vars
  <2>2. UNCHANGED <<pc, hold, pool, buf, queue, sendq, closing, wpc, wbuf, draining, fb, cpc, conn,
                    up, outages, restarts, setup, accepted, handled, used, promised, sent, dirbuf>>
      BY <2>1 DEF callers, channel, worker, network, lives, history
  <2>3. UNCHANGED DP!vars BY <2>2 DEF dirbuf, DP!vars, DP!files
  <2>4. DP!Inv' /\ DP!Content'
    <3>1. /\ Garbage \notin Msg /\ FaultKinds \subseteq {"disk", "crash"} /\ MaxFaults \in Nat
        BY InstanceAssumption
    <3> QED BY <2>3, <3>1, DP!NextInv, DP!NextContent DEF Inv
  <2>5. /\ Somewhere' /\ Once' /\ FifoOnce' /\ DB!TypeOK' /\ Messages' /\ NotLeft'
        /\ Pending' = Pending
        /\ UNCHANGED <<gz, gzErr, disk, call, ret, consumed, written, faults>>
      BY <2>2, QuietInv
  <2>6. TypeOK' BY <2>2, <2>5 DEF TypeOK, Inv, Core
  <2>7. Callers' /\ Worker' BY <2>2, <2>5 DEF Inv, Core, Callers, Worker, WriteBehavior
  <2>8. Kept' BY <2>2, <2>5 DEF Inv, Core, Kept, Lossless, WriteBehavior
  <2> QED BY <2>4, <2>5, <2>6, <2>7, <2>8 DEF Inv, Core
<1>2. CASE Next
  <2>1. DirMoves BY <1>2, DirInv
  <2>2. Core'
    BY <1>2, <2>1, LogBuildInv, CallerInv, WorkerInv, CloseInv, NewProcessInv DEF Next
  <2> QED BY <2>1, <2>2 DEF Inv, DirMoves
<1> QED BY <1>1, <1>2

LEMMA Invariance == Spec => []Inv
BY InitInv, NextInv, PTL DEF Spec

-----------------------------------------------------------------------------
(* The theorems *)

\* Every variable has its type in every reachable state, whatever the numbers of
\* callers, buffers and messages; the channel never exceeds its capacity, also
\* when the worker refills it from the blocked senders.
THEOREM TypeCorrect == Spec => []TypeOK
<1>1. Inv => TypeOK BY DEF Inv, Core
<1> QED BY <1>1, Invariance, PTL

\* The pool, the callers, the queue and the worker share the buffers without
\* ever sharing one: a buffer is put back only by the one that has it.
THEOREM BuffersHaveOneOwner == Spec => []OneOwner
<1>1. ASSUME Inv PROVE OneOwner
  <2> USE <1>1 DEF Inv, Core
  <2> DEFINE Held == {hold[p] : p \in Proc} \ {NoBuf}
             Hand == {wbuf} \ {NoBuf}
  <2>1. /\ queue \in Seq(Buf) /\ pool \subseteq Buf /\ wbuf \in Buf \cup {NoBuf}
        /\ hold \in [Proc -> Buf \cup {NoBuf}] /\ NoBuf \notin Buf
      BY InstanceAssumption DEF TypeOK
  <2>2. Range(queue) = {queue[i] : i \in 1..Len(queue)} BY <2>1 DEF Range
  <2>3. pool \cup Held \cup Range(queue) \cup Hand = Buf
    <3>1. pool \cup Held \cup Range(queue) \cup Hand \subseteq Buf BY <2>1, <2>2
    <3>2. ASSUME NEW b \in Buf PROVE b \in pool \cup Held \cup Range(queue) \cup Hand
        BY <2>1, <2>2 DEF Somewhere
    <3> QED BY <3>1, <3>2
  <2>4. pool \cap Held = {} /\ pool \cap Range(queue) = {} /\ pool \cap Hand = {} BY <2>2 DEF Once
  <2>5. Held \cap Range(queue) = {} /\ Held \cap Hand = {} /\ Range(queue) \cap Hand = {}
      BY <2>2 DEF Once
  <2> QED BY <2>3, <2>4, <2>5 DEF OneOwner, Once
<1> QED BY <1>1, Invariance, PTL

\* The worker handles what entered the queue in that order, each message once,
\* with the content it was logged with: no caller can overwrite a buffer on its
\* way through the queue.
THEOREM QueueIsFifo == Spec => []FifoOnce
<1>1. Inv => FifoOnce BY DEF Inv, Core
<1> QED BY <1>1, Invariance, PTL

\* What the fallback buffer has accepted is in it or was delivered.
LEMMA WrittenIs ==
    ASSUME Inv, faults = 0
    PROVE  written = DB!Stored \cup consumed
<1>1. /\ Garbage \notin Msg /\ FaultKinds \subseteq {"disk", "crash"} /\ MaxFaults \in Nat
    BY InstanceAssumption
<1>2. DP!Stored = DP!ReadSet \cup DP!WriteSet \cup DP!StreamSet BY <1>1, DP!StoredSets DEF Inv
<1> QED BY <1>2, SameState DEF Inv, DP!Content

\* A message that was in the queue before Close began is in the queue, in the
\* worker's hand, written, or in the fallback buffer, through any number of
\* outages, flushes, Closes and restarts.
THEOREM NothingLost == Spec => []NoLoss
<1>1. ASSUME Inv, Lossless PROVE promised \subseteq sent \cup consumed \cup DB!Stored \cup Pending
    BY <1>1, WrittenIs DEF Inv, Core, Kept, Lossless
<1>2. Inv => NoLoss BY <1>1 DEF NoLoss
<1> QED BY <1>2, Invariance, PTL

\* What the client has written is neither in the fallback buffer nor delivered
\* from it, whatever fails and whenever the process dies.
THEOREM NothingSentTwice == Spec => []SentOnce
<1>1. Inv => SentOnce BY DEF Inv, Core, NotLeft, SentOnce
<1> QED BY <1>1, Invariance, PTL

\* The worker exits with nothing promised on its way, and when Close has
\* returned, what was not written is on disk.
THEOREM CloseIsDurable == Spec => []CloseMakesDurable
<1>1. ASSUME Inv, cpc = "done", Lossless PROVE promised \subseteq sent \cup consumed \cup DB!OnDisk
  <2>1. promised \cap Pending = {} /\ gz = <<>>
      BY <1>1 DEF Inv, Core, Worker, Kept, Lossless
  <2>2. DB!Stored = DB!OnDisk BY <2>1 DEF DB!Stored, DB!Range
  <2> QED BY <1>1, <2>1, <2>2, WrittenIs DEF Inv, Core, Kept, Lossless
<1>2. Inv => CloseMakesDurable BY <1>1 DEF CloseMakesDurable, Inv, Core, Kept
<1> QED BY <1>2, Invariance, PTL

-----------------------------------------------------------------------------
(* The disk during the first life *)

LEMMA BootHasData ==
    ASSUME Inv, FirstLife, wpc = "boot", restarts = 0, DP!HasData
    PROVE  call' = "none"
<1>1. disk = [f \in DP!File |-> <<>>] /\ gz = <<>> /\ call = "none" BY SameState DEF FirstLife
<1>2. DP!Flushed[wName] = <<>>
  <2>1. write \in DP!File \cup {DP!NoFile} /\ wName \in DP!File BY DEF Inv, DP!Inv, DP!TypeOK
  <2>2. <<>> \o <<>> = <<>> OBVIOUS
  <2> QED BY <1>1, <2>1, <2>2 DEF DP!Flushed, DP!Appended
<1>3. ~DP!HasDataInBoth BY <1>2 DEF DP!HasDataInBoth
<1> QED BY <1>1, <1>3 DEF DP!HasData, DP!HasDataNothing, DP!HasDataInWrite, DP!HasDataInRead,
           DP!HasDataCloseErr, DP!HasDataCopy, DP!HasDataTruncate, DP!Return

LEMMA NextFirstLife == Inv /\ FirstLife /\ [Next]_vars => FirstLife'
<1> SUFFICES ASSUME Inv, FirstLife, [Next]_vars PROVE FirstLife' OBVIOUS
<1> USE DEF Inv, Core
<1>1. CASE UNCHANGED vars
  BY <1>1 DEF vars, dirbuf, worker, lives, FirstLife, DB!Readable
<1>2. CASE Next
  <2>1. ASSUME restarts' = 0, wpc' = "boot"
        PROVE  disk' = [f \in DB!File |-> <<>>] /\ gz' = <<>> /\ call' = "none"
    <3>0. ~Restart /\ ~Crash
      <4>1. restarts + 1 # 0 BY DEF TypeOK
      <4> QED BY <2>1, <4>1 DEF Restart, Crash
    <3>1. wpc = "boot" /\ restarts = 0 /\ (MaybeSetFb \/ UNCHANGED dirbuf)
      <4>1. ASSUME NEW p \in Proc, LogBuild(p) \/ LogStep(p) PROVE <3>1
        BY <2>1, <4>1 DEF LogBuild, LogStep, QueueMessage, QueueDrop, QueueFull, SendRoom,
           SendBlocks, Enqueue, worker, lives
      <4>2. CASE WorkerStep
        <5>1. MaybeSetFb
          <6>1. ~(TopReceive \/ SelectReceive \/ DrainReceive)
              BY <2>1 DEF TopReceive, SelectReceive, DrainReceive, Receive
          <6>2. ~(FlushNothing \/ FlushRead \/ FlushReconnect \/ FlushReread)
              BY <2>1 DEF FlushNothing, FlushRead, FlushReconnect, FlushReread, Goto
          <6>3. ~(TopEmpty \/ SelectTick \/ SelectClose \/ DrainDone)
              BY <2>1 DEF TopEmpty, SelectTick, SelectClose, DrainDone, Goto
          <6>4. ~(SendFallback \/ SendOK \/ SendErr \/ FallbackWrite \/ PutBuffer)
              BY <2>1 DEF SendFallback, SendOK, SendErr, FallbackWrite, PutBuffer, Goto
          <6> QED BY <4>2, <6>1, <6>2, <6>3, <6>4 DEF WorkerStep
        <5> QED BY <2>1, <5>1 DEF MaybeSetFb, WorkerOnly, lives
      <4>3. CASE CloseBegin \/ ServerDown \/ ServerUp
        BY <2>1, <4>3 DEF CloseBegin, ServerDown, ServerUp, worker, lives
      <4>4. CASE CloseEnd BY <2>1, <4>4 DEF CloseEnd, worker
      <4> QED BY <1>2, <3>0, <4>1, <4>2, <4>3, <4>4 DEF Next
    <3>2. CASE UNCHANGED dirbuf BY <3>1, <3>2 DEF FirstLife, dirbuf
    <3>3. CASE MaybeSetFb
      <4>1. CASE DB!HasData
        <5>1. call' = "none" BY <3>1, <4>1, BootHasData, SameActions
        <5> QED BY <2>1, <3>1, <3>3, <5>1, <3>2 DEF MaybeSetFb, Goto
      <4>2. CASE ~DB!HasData BY <2>1, <3>3, <4>2 DEF MaybeSetFb, Goto
      <4> QED BY <4>1, <4>2
    <3> QED BY <3>1, <3>2, <3>3
  <2>2. ASSUME call' = "accepted" PROVE DB!Readable(disk'[rName']) \subseteq consumed'
    <3> USE SameState
    <3>1. CASE UNCHANGED dirbuf BY <2>2, <3>1 DEF dirbuf, FirstLife
    <3>2. CASE wpc = "fallback" /\ (DP!Write(buf[wbuf]) \/ GarbageWrite)
      <4>1. call' = call
        BY <3>2 DEF GarbageWrite, DP!Write, DP!WriteOK, DB!WriteOK, DP!WriteOpenFails,
           DP!WriteThroughFails, DP!WriteRefused
      <4> QED BY <2>2, <3>2, <4>1 DEF Worker
    <3>3. CASE DP!HasData
      BY <2>2, <3>3 DEF DP!HasData, DP!HasDataNothing, DP!HasDataInWrite, DP!HasDataInRead,
         DP!HasDataInBoth, DP!HasDataCloseErr, DP!HasDataCopy, DP!HasDataTruncate, DP!Return
    <3>4. CASE DP!Reader
      <4>1. DP!ReaderFnOK
        BY <2>2, <3>4 DEF DP!Reader, DP!ReaderSwitch, DP!ReaderOpen, DP!ReaderFnErr,
           DP!ReaderTruncate, DP!Return
      <4>2. read = rName BY <4>1 DEF DP!ReaderFnOK, DP!Inv, DP!Roles
      <4> QED BY <4>1, <4>2 DEF DP!ReaderFnOK, DP!files
    <3>5. CASE DP!Close BY <2>2, <3>5 DEF DP!Close
    <3>6. CASE DP!Crash \/ NewBuffer BY <2>2, <3>6, SameActions DEF DP!Crash, NewBuffer, DP!NewDirBuffer
    <3> QED BY <1>2, <3>1, <3>2, <3>3, <3>4, <3>5, <3>6, DirStep
  <2> QED BY <2>1, <2>2 DEF FirstLife
<1> QED BY <1>1, <1>2

LEMMA FirstLifeInvariance == Spec => [](Inv /\ FirstLife)
<1>1. Init => FirstLife BY DEF Init, Fresh, DB!Init, FirstLife
<1> QED BY <1>1, InitInv, NextInv, NextFirstLife, PTL DEF Spec

\* During the first life of the process nothing that can be decoded from the
\* fallback files is lost from them before a batch has delivered it, whatever
\* disk operations fail and even if the process dies.
THEOREM DiskIsKept == Spec => DiskKept
<1>1. ASSUME Inv, FirstLife, Next, restarts = 0 PROVE DB!OnDisk \subseteq DB!OnDisk' \cup consumed'
  <2>a. /\ Garbage \notin Msg /\ FaultKinds \subseteq {"disk", "crash"} /\ MaxFaults \in Nat
      BY InstanceAssumption
  <2>0. call = "accepted" => DP!Readable(disk[rName]) \subseteq consumed
      BY <1>1, SameState DEF FirstLife
  <2>1. CASE UNCHANGED dirbuf BY <2>1 DEF dirbuf, DB!OnDisk
  <2>2. CASE GarbageWrite \/ NewBuffer
    BY <2>2 DEF GarbageWrite, NewBuffer, DB!WriteOK, DB!OnDisk
  <2>3. CASE wpc = "boot" /\ DP!HasData
    <3>1. \A f \in DB!File : DB!Readable(disk[f]) = {}
        BY <1>1, <2>3 DEF FirstLife, DB!Readable
    <3> QED BY <3>1 DEF DB!OnDisk
  <2>4. CASE (wpc = "fallback" /\ DP!Write(buf[wbuf])) \/ DP!Reader \/ DP!Close \/ DP!Crash
    <3>1. wpc = "fallback" => buf[wbuf] \in Msg BY <1>1 DEF Inv, Core, Messages
    <3>2. DP!OnDisk \subseteq DP!OnDisk' \cup consumed'
        BY <1>1, <2>a, <2>0, <2>4, <3>1, DP!OthersKeepDisk DEF Inv
    <3> QED BY <3>2, SameState, SameNextState
  <2> QED BY <1>1, <2>1, <2>2, <2>3, <2>4, DirStep DEF Inv, Core
<1>2. Inv /\ FirstLife /\ [Next]_vars =>
          [restarts = 0 => DB!OnDisk \subseteq DB!OnDisk' \cup consumed']_vars
    BY <1>1
<1> QED BY <1>2, FirstLifeInvariance, PTL DEF Spec, DiskKept

=============================================================================
