------------------------------ MODULE Instance ------------------------------
(***************************************************************************)
(* The logging instance of instance.go: callers that log concurrently, the *)
(* bounded queue between them and the one background worker, the pool of   *)
(* message buffers they share, Close, and the fallback to the disk buffer  *)
(* (module DirBuffer) while the client cannot write.                       *)
(*                                                                         *)
(* The client is seen through what instance.go uses of it: Write and       *)
(* WriteBatch, which succeed or fail with the state of its connection,     *)
(* and, if it implements Reconnector, Reconnect.                           *)
(***************************************************************************)
EXTENDS FiniteSets, Functions, Sequences

CONSTANTS
    Proc,           \* goroutines that log
    Msg,            \* log messages, each logged at most once
    Buf,            \* message buffers
    Setups,         \* the configurations, with the bounds that go with each
    BufferSize,     \* capacity of the queue
    Garbage, FaultKinds, MaxFaults,   \* see DirBuffer
    NoMsg, NoBuf

\* A configuration: the write behavior, and whether the client implements
\* Reconnector.  Its bounds: messages, calls in progress at a time, outages of the
\* server and failed handshakes, processes after the first, failed disk operations
\* and crashes.
Setup ==
    [WriteBehavior : {"Block", "Loose", "Fallback"}, Reconnects : BOOLEAN,
     msgs : Nat, calls : Nat, outages : Nat, restarts : Nat, faults : Nat]

ASSUME InstanceAssumption ==
    /\ Setups \subseteq Setup
    /\ BufferSize \in Nat \ {0}     \* setDefaults replaces 0 and below by 16
    /\ NoMsg \notin Msg /\ NoBuf \notin Buf
    /\ Garbage \notin Msg
    /\ FaultKinds \subseteq {"disk", "crash"} /\ MaxFaults \in Nat

VARIABLES
    pc, hold,       \* the callers: where each is, and the buffer it has
    pool, buf,      \* the free buffers, and the message in each buffer
    queue,          \* the channel's buffer: a sequence of message buffers
    sendq,          \* the callers blocked on the channel, in their order
    closing,        \* the close channel has been closed
    wpc, wbuf,      \* the worker: where it is, and the buffer it has
    draining,       \* the worker is in its final loop
    fb,             \* messages go to the fallback buffer
    cpc,            \* the goroutine that calls Close
    conn, up,       \* the client's connection, and whether the server is up
    outages, restarts,      \* how many there were (bounded)
    setup,          \* the configuration
    accepted, handled,      \* messages that entered / left the queue, in order (history)
    used,           \* messages logged (history)
    promised,       \* messages that were in the queue before Close began (history)
    sent,           \* messages the client wrote (history)
    rName, wName, read, write, gz, gzErr, exists, disk, call, ret,
    consumed, written, faults       \* see DirBuffer

DB == INSTANCE DirBuffer WITH Entry <- Msg

callers == <<pc, hold>>
channel == <<queue, sendq>>
worker == <<wpc, wbuf, draining, fb>>
network == <<conn, up, outages>>
lives == <<restarts, setup>>
history == <<accepted, handled, used, promised, sent>>
dirbuf == <<rName, wName, read, write, gz, gzErr, exists, disk, call, ret,
            consumed, written, faults>>
vars == <<callers, pool, buf, channel, closing, worker, cpc, network, lives,
          history, dirbuf>>

WriteBehavior == setup.WriteBehavior
Reconnects == setup.Reconnects

Content(q) == [i \in 1..Len(q) |-> buf[q[i]]]

-----------------------------------------------------------------------------
(* NewInstance *)

Fresh ==
    /\ pc = [p \in Proc |-> "idle"] /\ hold = [p \in Proc |-> NoBuf]
    /\ pool = Buf /\ buf = [b \in Buf |-> NoMsg]
    /\ queue = <<>> /\ sendq = <<>>
    /\ closing = FALSE /\ cpc = "open"
    /\ wpc = "boot" /\ wbuf = NoBuf /\ draining = FALSE /\ fb = FALSE
    /\ conn = "nil"
    /\ accepted = <<>> /\ handled = <<>>

Init ==
    /\ Fresh
    /\ up = TRUE /\ outages = 0 /\ restarts = 0
    /\ setup \in Setups
    /\ used = {} /\ promised = {} /\ sent = {}
    /\ DB!Init

-----------------------------------------------------------------------------
(* log, metrics, queueMessage *)

\* The pool's free buffers are all alike, and so are the messages not yet logged:
\* it does not matter which of them it is.
GetBuffer == CHOOSE b \in pool : TRUE
NewMsg == CHOOSE m \in Msg \ used : TRUE

\* The instance is not closed: a buffer is taken from the pool and the message
\* built in it.  (On a closed instance the call returns at once.)
LogBuild(p) ==
    /\ pc[p] = "idle"
    /\ ~closing
    /\ used # Msg /\ Cardinality(used) < setup.msgs
    /\ Cardinality({q \in Proc : pc[q] # "idle"}) < setup.calls
    /\ pool # {}
    /\ pool' = pool \ {GetBuffer}
    /\ buf' = [buf EXCEPT ![GetBuffer] = NewMsg]
    /\ hold' = [hold EXCEPT ![p] = GetBuffer]
    /\ pc' = [pc EXCEPT ![p] = "queue"]
    /\ used' = used \cup {NewMsg}
    /\ UNCHANGED <<channel, closing, worker, cpc, network, lives, accepted, handled,
                   promised, sent, dirbuf>>
\* Mutant: the capacity of the queue is off by one.
MutEnqueue(p) ==
    /\ Len(queue) <= BufferSize
    /\ queue' = Append(queue, hold[p])
    /\ accepted' = Append(accepted, buf[hold[p]])
    /\ promised' = IF closing THEN promised ELSE promised \cup {buf[hold[p]]}
    /\ pc' = [pc EXCEPT ![p] = "idle"]
    /\ hold' = [hold EXCEPT ![p] = NoBuf]
    /\ UNCHANGED <<pool, buf, sendq, closing, worker, cpc, network, lives, handled, used,
                   sent, dirbuf>>

\* The caller's message enters the queue and its call returns.
Enqueue(p) ==
    /\ Len(queue) < BufferSize
    /\ queue' = Append(queue, hold[p])
    /\ accepted' = Append(accepted, buf[hold[p]])
    /\ promised' = IF closing THEN promised ELSE promised \cup {buf[hold[p]]}
    /\ pc' = [pc EXCEPT ![p] = "idle"]
    /\ hold' = [hold EXCEPT ![p] = NoBuf]
    /\ UNCHANGED <<pool, buf, sendq, closing, worker, cpc, network, lives, handled, used,
                   sent, dirbuf>>

QueueMessage(p) ==
    /\ pc[p] = "queue"
    /\ Enqueue(p)

\* The queue is full: the message is dropped ...
QueueDrop(p) ==
    /\ pc[p] = "queue"
    /\ Len(queue) >= BufferSize
    /\ WriteBehavior = "Loose"
    /\ pool' = pool \cup {hold[p]}
    /\ buf' = [buf EXCEPT ![hold[p]] = NoMsg]
    /\ pc' = [pc EXCEPT ![p] = "idle"]
    /\ hold' = [hold EXCEPT ![p] = NoBuf]
    /\ UNCHANGED <<channel, closing, worker, cpc, network, lives, history, dirbuf>>

\* ... or the caller goes on to a blocking send.
QueueFull(p) ==
    /\ pc[p] = "queue"
    /\ Len(queue) >= BufferSize
    /\ WriteBehavior \in {"Block", "Fallback"}
    /\ pc' = [pc EXCEPT ![p] = "full"]
    /\ UNCHANGED <<hold, pool, buf, channel, closing, worker, cpc, network, lives,
                   history, dirbuf>>

SendRoom(p) ==
    /\ pc[p] = "full"
    /\ Enqueue(p)

SendBlocks(p) ==
    /\ pc[p] = "full"
    /\ Len(queue) >= BufferSize
    /\ pc' = [pc EXCEPT ![p] = "blocked"]
    /\ sendq' = Append(sendq, p)
    /\ UNCHANGED <<hold, pool, buf, queue, closing, worker, cpc, network, lives,
                   history, dirbuf>>

LogStep(p) == QueueMessage(p) \/ QueueDrop(p) \/ QueueFull(p) \/ SendRoom(p) \/ SendBlocks(p)

-----------------------------------------------------------------------------
(* worker: receiving *)

\* A receive from the channel takes its first buffer; the first blocked sender,
\* if any, has its buffer moved into the place that became free.
Receive ==
    /\ queue # <<>>
    /\ wbuf' = Head(queue)
    /\ \/ /\ sendq = <<>>
          /\ queue' = Tail(queue)
          /\ UNCHANGED <<callers, sendq, accepted, promised>>
       \/ /\ sendq # <<>>
          /\ LET p == Head(sendq) IN
                /\ queue' = Append(Tail(queue), hold[p])
                /\ accepted' = Append(accepted, buf[hold[p]])
                /\ promised' = IF closing THEN promised ELSE promised \cup {buf[hold[p]]}
                /\ pc' = [pc EXCEPT ![p] = "idle"]
                /\ hold' = [hold EXCEPT ![p] = NoBuf]
          /\ sendq' = Tail(sendq)
    /\ wpc' = "send"
    /\ UNCHANGED <<pool, buf, closing, draining, fb, cpc, network, lives, handled, used,
                   sent, dirbuf>>

Goto(l) == wpc' = l

WorkerOnly == UNCHANGED <<callers, pool, buf, channel, closing, wbuf, cpc, lives, history>>

\* The first, non-blocking receive.
TopReceive == wpc = "top" /\ Receive

TopEmpty ==
    /\ wpc = "top"
    /\ queue = <<>>
    /\ Goto("select")
    /\ WorkerOnly /\ UNCHANGED <<draining, fb, network, dirbuf>>

\* The blocking select: a message, the ticker, or the close channel.
SelectReceive == wpc = "select" /\ Receive

SelectTick ==
    /\ wpc = "select"
    /\ Goto("flush")
    /\ WorkerOnly /\ UNCHANGED <<draining, fb, network, dirbuf>>

SelectClose ==
    /\ wpc = "select"
    /\ closing
    /\ Goto("drain") /\ draining' = TRUE
    /\ WorkerOnly /\ UNCHANGED <<fb, network, dirbuf>>

DrainReceive == wpc = "drain" /\ Receive
\* Mutant: the empty queue ends the select but not the loop around it.
MutDrainDone ==
    /\ wpc = "drain"
    /\ queue = <<>>
    /\ UNCHANGED vars

DrainDone ==
    /\ wpc = "drain"
    /\ queue = <<>>
    /\ Goto("exited")
    /\ WorkerOnly /\ UNCHANGED <<draining, fb, network, dirbuf>>

-----------------------------------------------------------------------------
\* The bound on faults, for the actions that use the disk.
FaultAllowed == faults' <= setup.faults

(* The client, as instance.go uses it *)

\* Write and WriteBatch connect first if there is no connection.  A client
\* that is no Reconnector is one that works whenever the server is up.
CliOK ==
    /\ \/ conn = "good" /\ UNCHANGED conn
       \/ conn = "nil" /\ up /\ conn' = IF Reconnects THEN "good" ELSE "nil"
    /\ UNCHANGED <<up, outages>>

\* Connect fails in the handshake, and the client keeps the connection.  It may be
\* broken; or the server has refused it, and what is written there goes nowhere.
HandshakeFails ==
    /\ up
    /\ outages < setup.outages
    /\ conn' \in {"broken", "good"} /\ outages' = outages + 1
    /\ UNCHANGED up

CliErr ==
    \/ (conn = "broken" \/ (conn = "nil" /\ ~up)) /\ UNCHANGED network
    \/ conn = "nil" /\ Reconnects /\ HandshakeFails

ServerDown ==
    /\ up
    /\ outages < setup.outages
    /\ up' = FALSE /\ outages' = outages + 1
    /\ conn' = IF conn = "good" THEN "broken" ELSE conn
    /\ UNCHANGED <<callers, pool, buf, channel, closing, worker, cpc, lives, history, dirbuf>>

ServerUp ==
    /\ ~up
    /\ up' = TRUE
    /\ UNCHANGED <<conn, outages>>
    /\ UNCHANGED <<callers, pool, buf, channel, closing, worker, cpc, lives, history, dirbuf>>

-----------------------------------------------------------------------------
(* sendToCli, sendToFallbackCli *)

Handled == handled' = Append(handled, buf[wbuf])

SendFrame == UNCHANGED <<callers, pool, buf, channel, closing, wbuf, draining, cpc, lives,
                         accepted, used, promised>>
\* Mutant: the buffer goes back to the pool before its message is written.
MutSendFallback ==
    /\ wpc = "send"
    /\ fb
    /\ pool' = pool \cup {wbuf}
    /\ buf' = [buf EXCEPT ![wbuf] = NoMsg]
    /\ Goto("fallback")
    /\ UNCHANGED <<callers, channel, closing, wbuf, draining, cpc, lives, history, fb,
                   network, dirbuf>>

SendFallback ==
    /\ wpc = "send"
    /\ fb
    /\ Goto("fallback")
    /\ SendFrame /\ UNCHANGED <<fb, network, handled, sent, dirbuf>>
\* Mutant: a message that was written goes to the fallback buffer as well.
MutSendOK ==
    /\ wpc = "send"
    /\ ~fb
    /\ CliOK
    /\ sent' = sent \cup {buf[wbuf]}
    /\ Goto("fallback")
    /\ SendFrame /\ UNCHANGED <<fb, handled, dirbuf>>

SendOK ==
    /\ wpc = "send"
    /\ ~fb
    /\ CliOK
    /\ sent' = sent \cup {buf[wbuf]}
    /\ Handled
    /\ Goto("put")
    /\ SendFrame /\ UNCHANGED <<fb, dirbuf>>
\* Mutant: the message that found the client failing is not kept.
MutSendErrDrops ==
    /\ wpc = "send"
    /\ ~fb
    /\ CliErr
    /\ fb' = (WriteBehavior = "Fallback")
    /\ Handled
    /\ Goto("put")
    /\ SendFrame /\ UNCHANGED <<sent, dirbuf>>

\* Mutant: the worker returns when the client fails.
MutSendErrExits ==
    /\ wpc = "send"
    /\ ~fb
    /\ CliErr
    /\ Goto("exited")
    /\ Handled
    /\ SendFrame /\ UNCHANGED <<fb, sent, dirbuf>>

\* The client fails: the message goes to the fallback buffer, or nowhere.
SendErr ==
    /\ wpc = "send"
    /\ ~fb
    /\ CliErr
    /\ \/ WriteBehavior = "Fallback" /\ fb' = TRUE /\ Goto("fallback") /\ UNCHANGED handled
       \/ WriteBehavior # "Fallback" /\ UNCHANGED fb /\ Goto("put") /\ Handled
    /\ SendFrame /\ UNCHANGED <<sent, dirbuf>>
\* Mutant: sendToFallbackCli puts the buffer back, and so does its caller.
MutFallbackWrite ==
    /\ wpc = "fallback"
    /\ DB!WriteOK(buf[wbuf]) /\ written' = written \cup {buf[wbuf]}
    /\ Handled
    /\ pool' = pool \cup {wbuf}
    /\ Goto("put")
    /\ UNCHANGED <<callers, buf, channel, closing, wbuf, draining, cpc, lives, accepted,
                   used, promised, fb, network, sent, consumed, faults>>

\* The header and the body are two Writes; the result of the first is ignored.
\* If it fails to open the file and the second does not, the body stands there
\* without its header.
FallbackWrite ==
    /\ wpc = "fallback"
    /\ \/ DB!WriteOK(buf[wbuf]) /\ written' = written \cup {buf[wbuf]} /\ UNCHANGED faults
       \/ write = DB!NoFile /\ DB!Fault("disk") /\ DB!WriteOK(Garbage) /\ UNCHANGED written
       \/ DB!WriteOpenFails /\ UNCHANGED written
       \/ DB!WriteThroughFails(buf[wbuf]) /\ UNCHANGED written
       \/ DB!WriteRefused /\ UNCHANGED written
    /\ FaultAllowed
    /\ Handled
    /\ Goto("put")
    /\ SendFrame /\ UNCHANGED <<fb, network, sent, consumed>>

PutBuffer ==
    /\ wpc = "put"
    /\ pool' = pool \cup {wbuf}
    /\ buf' = [buf EXCEPT ![wbuf] = NoMsg]
    /\ wbuf' = NoBuf
    /\ Goto(IF draining THEN "drain" ELSE "top")
    /\ UNCHANGED <<callers, channel, closing, draining, fb, cpc, network, lives, history, dirbuf>>

-----------------------------------------------------------------------------
(* maybeSetFb, flushFallbackToCli *)
\* Mutant: what HasData finds is ignored.
MutMaybeSetFb ==
    /\ wpc = "boot"
    /\ WriteBehavior = "Fallback"
    /\ DB!HasData
    /\ IF call' = "none" THEN Goto("flush") ELSE UNCHANGED wpc
    /\ WorkerOnly /\ UNCHANGED <<fb, draining, network>>

MaybeSetFb ==
    /\ wpc = "boot"
    /\ \/ /\ WriteBehavior = "Fallback"
          /\ DB!HasData
          /\ FaultAllowed
          /\ IF call' = "none"
                THEN Goto("flush") /\ fb' = (ret' \in {"true", "true_error"})
                ELSE UNCHANGED <<wpc, fb>>
       \/ /\ WriteBehavior # "Fallback"
          /\ Goto("flush")
          /\ UNCHANGED <<fb, dirbuf>>
    /\ WorkerOnly /\ UNCHANGED <<draining, network>>

FlushNothing ==
    /\ wpc = "flush"
    /\ ~fb
    /\ Goto("top")
    /\ WorkerOnly /\ UNCHANGED <<draining, fb, network, dirbuf>>

\* One step of a call of Fallback.Reader, whose callback is WriteBatch.
ReaderStep ==
    /\ \/ DB!ReaderSwitch /\ UNCHANGED network
       \/ DB!ReaderOpen /\ UNCHANGED network
       \/ DB!ReaderFnOK /\ CliOK
       \/ DB!ReaderFnErr /\ CliErr
       \/ DB!ReaderTruncate /\ UNCHANGED network
    /\ FaultAllowed

\* When it has failed a Reconnector is told to reconnect; without one the error
\* is returned, but fb is reset all the same.
FlushRead ==
    /\ wpc = "flush"
    /\ fb
    /\ ReaderStep
    /\ \/ call' # "none" /\ UNCHANGED <<wpc, fb>>
       \/ call' = "none" /\ ret' = "error" /\ Reconnects /\ Goto("reconnect") /\ UNCHANGED fb
       \/ call' = "none" /\ (ret' = "ok" \/ ~Reconnects) /\ Goto("top") /\ fb' = FALSE
    /\ WorkerOnly /\ UNCHANGED draining

FlushReconnect ==
    /\ wpc = "reconnect"
    /\ \/ up /\ conn' = "good" /\ Goto("reread") /\ UNCHANGED <<up, outages>>
       \/ ~up /\ conn' = "nil" /\ Goto("top") /\ UNCHANGED <<up, outages>>
       \/ HandshakeFails /\ Goto("top")
    /\ WorkerOnly /\ UNCHANGED <<draining, fb, dirbuf>>

\* The second Reader call swaps the files once more.
FlushReread ==
    /\ wpc = "reread"
    /\ ReaderStep
    /\ \/ call' # "none" /\ UNCHANGED <<wpc, fb>>
       \/ call' = "none" /\ ret' = "error" /\ Goto("top") /\ UNCHANGED fb
       \/ call' = "none" /\ ret' = "ok" /\ Goto("top") /\ fb' = FALSE
    /\ WorkerOnly /\ UNCHANGED draining

WorkerStep ==
    \/ MaybeSetFb \/ FlushNothing \/ FlushRead \/ FlushReconnect \/ FlushReread
    \/ TopReceive \/ TopEmpty \/ SelectReceive \/ SelectTick \/ SelectClose
    \/ DrainReceive \/ DrainDone
    \/ SendFallback \/ SendOK \/ SendErr \/ FallbackWrite \/ PutBuffer

-----------------------------------------------------------------------------
(* Close, and the end of the process *)

CloseBegin ==
    /\ cpc = "open"
    /\ closing' = TRUE
    /\ cpc' = "waiting"
    /\ UNCHANGED <<callers, pool, buf, channel, worker, network, lives, history, dirbuf>>
\* Mutant: the fallback buffer is not closed.
MutCloseEnd ==
    /\ cpc = "waiting"
    /\ wpc = "exited"
    /\ conn' = "nil"
    /\ cpc' = "done"
    /\ UNCHANGED <<callers, pool, buf, channel, closing, worker, up, outages, lives,
                   history, dirbuf>>

\* wg.Wait returns; the fallback buffer is closed and, unless that failed, the
\* client.
CloseEnd ==
    /\ cpc = "waiting"
    /\ wpc = "exited"
    /\ \/ /\ WriteBehavior = "Fallback"
          /\ DB!Close
          /\ FaultAllowed
          /\ conn' = IF ret' = "ok" THEN "nil" ELSE conn
       \/ /\ WriteBehavior # "Fallback"
          /\ conn' = "nil"
          /\ UNCHANGED dirbuf
    /\ cpc' = "done"
    /\ UNCHANGED <<callers, pool, buf, channel, closing, worker, up, outages, lives, history>>

\* A new process with a new instance on the same directory.
NewProcess ==
    /\ pc' = [p \in Proc |-> "idle"] /\ hold' = [p \in Proc |-> NoBuf]
    /\ pool' = Buf /\ buf' = [b \in Buf |-> NoMsg]
    /\ queue' = <<>> /\ sendq' = <<>>
    /\ closing' = FALSE /\ cpc' = "open"
    /\ wpc' = "boot" /\ wbuf' = NoBuf /\ draining' = FALSE /\ fb' = FALSE
    /\ conn' = "nil"
    /\ accepted' = <<>> /\ handled' = <<>>
    /\ UNCHANGED <<up, outages, used, promised, sent>>

Restart ==
    /\ cpc = "done"
    /\ restarts < setup.restarts
    /\ restarts' = restarts + 1
    /\ NewProcess
    /\ DB!NewDirBuffer
    /\ UNCHANGED <<setup, exists, disk, consumed, written, faults>>

Crash ==
    /\ DB!Crash
    /\ restarts < setup.restarts
    /\ restarts' = restarts + 1
    /\ FaultAllowed
    /\ NewProcess
    /\ UNCHANGED setup

Next ==
    \/ \E p \in Proc : LogBuild(p)
    \/ \E p \in Proc : LogStep(p)
    \/ WorkerStep
    \/ CloseBegin \/ CloseEnd
    \/ ServerDown \/ ServerUp
    \/ Restart \/ Crash

Spec == Init /\ [][Next]_vars
\* The Go scheduler runs every goroutine that can run; a select with several
\* ready cases chooses among them at random, so it does not pass over the close
\* channel for ever.
CallersRun == \A p \in Proc : WF_vars(LogStep(p))
WorkerRuns == WF_vars(WorkerStep) /\ SF_vars(SelectClose)
CloserRuns == WF_vars(CloseEnd)

FairSpec == Spec /\ CallersRun /\ WorkerRuns /\ CloserRuns

\* Every outage of the server ends.
RecoverySpec == FairSpec /\ WF_vars(ServerUp)

-----------------------------------------------------------------------------
(* Properties *)

\* Every variable has its type; in particular the channel never holds more than
\* BufferSize buffers, however senders and the worker interleave.
TypeOK ==
    /\ pc \in [Proc -> {"idle", "queue", "full", "blocked"}]
    /\ hold \in [Proc -> Buf \cup {NoBuf}]
    /\ pool \subseteq Buf /\ buf \in [Buf -> Msg \cup {NoMsg}]
    /\ queue \in Seq(Buf) /\ Len(queue) <= BufferSize
    /\ sendq \in Seq(Proc)
    /\ closing \in BOOLEAN
    /\ wpc \in {"boot", "flush", "reconnect", "reread", "top", "select", "send", "fallback",
                "put", "drain", "exited"}
    /\ wbuf \in Buf \cup {NoBuf} /\ draining \in BOOLEAN /\ fb \in BOOLEAN
    /\ cpc \in {"open", "waiting", "done"}
    /\ conn \in {"nil", "good", "broken"} /\ up \in BOOLEAN
    /\ outages \in Nat /\ restarts \in Nat
    /\ setup \in Setups
    /\ accepted \in Seq(Msg) /\ handled \in Seq(Msg)
    /\ used \subseteq Msg /\ promised \subseteq Msg /\ sent \subseteq Msg
    /\ DB!TypeOK

\* Every buffer has one owner: the pool, a caller, a place in the queue, or the
\* worker.  So no caller builds a message in a buffer that another one or the
\* worker still reads.
OneOwner ==
    LET Held == {hold[p] : p \in Proc} \ {NoBuf}
        Hand == {wbuf} \ {NoBuf} IN
    /\ pool \cup Held \cup Range(queue) \cup Hand = Buf
    /\ pool \cap Held = {} /\ pool \cap Range(queue) = {} /\ pool \cap Hand = {}
    /\ Held \cap Range(queue) = {} /\ Held \cap Hand = {} /\ Range(queue) \cap Hand = {}
    /\ \A i, j \in 1..Len(queue) : queue[i] = queue[j] => i = j
    /\ \A p, q \in Proc : hold[p] = hold[q] /\ p # q => hold[p] = NoBuf

InHand == IF wpc \in {"send", "fallback"} THEN <<buf[wbuf]>> ELSE <<>>

\* The worker handles the messages that entered the queue in their order, each
\* once and with the content it was logged with, blocked callers included.
FifoOnce == accepted = handled \o InHand \o Content(queue)

Pending == Range(Content(queue)) \cup Range(InHand)

\* The circumstances under which the instance can keep every message: no
\* failure of the disk or crash, and without a fallback buffer no failing client.
Lossless == faults = 0 /\ (WriteBehavior # "Fallback" => outages = 0)

\* A message that was in the queue before Close began is never lost: it is in
\* the queue, in the worker's hand, written by the client, or in the fallback
\* buffer.  It stays so through outages, flushes, Close and restarts.
NoLoss == Lossless => promised \subseteq sent \cup consumed \cup DB!Stored \cup Pending

\* A message the client has written is not in the fallback buffer, nor has a
\* batch delivered it as well, whatever disk operations failed meanwhile and
\* whenever the process died.
SentOnce == sent \cap (consumed \cup DB!Stored) = {}

\* The worker does not exit before it has handled every message that was in the
\* queue when Close began, and when Close has returned, what the client has not
\* written is on disk; nothing waits in a gzip stream that no one will flush.
CloseMakesDurable ==
    /\ wpc = "exited" => promised \cap Pending = {}
    /\ cpc = "done" /\ Lossless => promised \subseteq sent \cup consumed \cup DB!OnDisk

\* During the first life of the process, what can be decoded from the fallback
\* files stays so until a batch has delivered it: failing disk operations do not
\* undo what is on disk, nor does the death of the process by itself.  (A later
\* life may: see DurableKept in DirBuffer.)
DiskKept == [][restarts = 0 => DB!OnDisk \subseteq DB!OnDisk' \cup consumed']_vars

\* A log call that finds the queue full returns, unless Close intervenes; in Loose
\* mode also then, when the worker has exited and no one takes from the queue
\* any more.
CallReturns ==
    \A p \in Proc : pc[p] # "idle" ~> pc[p] = "idle" \/ (closing /\ WriteBehavior # "Loose")

\* Close returns, whatever fails meanwhile, unless the process dies.
CloseReturns == closing ~> (cpc = "done" \/ ~closing)

\* When the instance starts while the server is, and stays, reachable, all that
\* an earlier process has left in the two files is delivered, if no operation of the
\* disk fails.
BootDelivers ==
    \A m \in Msg :
        (wpc = "boot" /\ up /\ outages = setup.outages /\ setup.faults = 0 /\ m \in DB!Stored)
            ~> m \in consumed

-----------------------------------------------------------------------------
(* What the documentation says, and the code does not do *)

\* "Any writes to a full buffer will fallback to a compressed, disk-based
\* ping-pong buffer and retried later" (write_behavior.go): what is in the
\* fallback buffer is eventually delivered, unless the instance is closed.
RetriedLater == \A m \in Msg : m \in DB!Stored ~> (m \in consumed \/ closing)

\* "the log call will block until space becomes available" (README.md): a log
\* call returns, also when Close is called meanwhile.
BlockedCallReturns == \A p \in Proc : pc[p] # "idle" ~> pc[p] = "idle"

=============================================================================
