------------------------------ MODULE Forward -------------------------------
(***************************************************************************)
(* A forward client and the sessions of a forward server: connecting, the  *)
(* handshake (HELO, PING, PONG), writing, reconnecting and closing, over    *)
(* TCP connections that may break at any time.                             *)
(*                                                                         *)
(* The client is used by one goroutine at a time and through Write,        *)
(* WriteBatch, Reconnect and Close, as the worker of an instance uses it.  *)
(* Connect is called by them only, and so without a connection; called by  *)
(* a user, as a comment of the example does, it is Reconnect without a     *)
(* connection.  (With one, it would leave that open behind the new one.)   *)
(* What the handler of a session reads is a sequence of messages; module   *)
(* Transport has the details.                                              *)
(***************************************************************************)
EXTENDS Integers, Sequences

CONSTANTS
    Msg,            \* what the client is given to write, each at most once
    Logins,         \* the client's and the server's credentials (user, password, shared
                    \* key), and the server's option PasswordAuth, as they may be combined
    AuthMayFail,    \* the client's Auth function may return an error
    NoUser, NoMsg,  \* the empty username, no message
    MaxConns        \* bound on the number of connections

ASSUME ForwardAssumption ==
    /\ MaxConns \in Nat
    /\ \A l \in Logins : /\ DOMAIN l = {"client", "server", "PasswordAuth"}
                         /\ DOMAIN l.client = {"user", "password", "key"}
                         /\ DOMAIN l.server = {"user", "password", "key"}
                         /\ l.PasswordAuth \in BOOLEAN
    /\ AuthMayFail \in BOOLEAN

Conn == 1..MaxConns

VARIABLES
    login,                  \* the one of Logins that is in use
    listening,              \* the server accepts connections
    dialed,                 \* number of connections dialed
    cOpen, sOpen,           \* connections the client, the server has not closed
    broken,                 \* connections that broke
    c2s, s2c,               \* what is on its way to the server, to the client
    ss,                     \* the sessions
    ping,                   \* the PING a session has read
    received,               \* what a session's handler has read
    cpc, op, arg,           \* the client: where it is, in which operation, with what
    conn, w,                \* its connection and its writer's; 0 for none
    helo,                   \* the HELO it has read
    ready,                  \* connections whose handshake has succeeded (history)
    refused,                \* connections whose PONG the client did not accept (history)
    wrote, used             \* messages written without an error, and given (history)

server == <<login, listening, ss, ping, received>>
wire == <<dialed, cOpen, sOpen, broken, c2s, s2c>>
client == <<cpc, op, arg, conn, w, helo>>
history == <<ready, refused, wrote, used>>
vars == <<server, wire, client, history>>

ccred == login.client
scred == login.server
PasswordAuth == login.PasswordAuth

NoMessage == [t |-> "none"]

-----------------------------------------------------------------------------
(* sha512Hex: collisions aside, equal digests have equal arguments *)

KeyDigest(salt, hostname, nonce, key) == <<salt, hostname, nonce, key>>
PasswordDigest(auth, user, password) == <<auth, user, password>>

-----------------------------------------------------------------------------
(* NewServer, NewClient *)

Init ==
    /\ login \in Logins
    /\ listening = TRUE
    /\ dialed = 0 /\ cOpen = {} /\ sOpen = {} /\ broken = {}
    /\ c2s = [c \in Conn |-> <<>>] /\ s2c = [c \in Conn |-> <<>>]
    /\ ss = [c \in Conn |-> "none"] /\ ping = [c \in Conn |-> NoMessage]
    /\ received = [c \in Conn |-> <<>>]
    /\ cpc = "idle" /\ op = "none" /\ arg = NoMsg
    /\ conn = 0 /\ w = 0 /\ helo = NoMessage
    /\ ready = {} /\ refused = {} /\ wrote = [c \in Conn |-> <<>>] /\ used = {}

-----------------------------------------------------------------------------
(* TCP *)

\* A write succeeds while the connection is there; once the other end has closed
\* it, or it is broken, it may fail, or succeed without effect.
ClientSends(c, m, ok) ==
    \/ /\ c \in (cOpen \cap sOpen) \ broken
       /\ ok = TRUE
       /\ c2s' = [c2s EXCEPT ![c] = Append(@, m)]
    \/ /\ c \in cOpen /\ (c \notin sOpen \/ c \in broken)
       /\ UNCHANGED c2s
    \/ /\ c \notin cOpen
       /\ ok = FALSE
       /\ UNCHANGED c2s

ServerSends(c, m, ok) ==
    \/ /\ c \in (cOpen \cap sOpen) \ broken
       /\ ok = TRUE
       /\ s2c' = [s2c EXCEPT ![c] = Append(@, m)]
    \/ /\ c \notin cOpen \/ c \in broken
       /\ UNCHANGED s2c

ClientCanRead(c) == s2c[c] # <<>>
ClientReadFails(c) == c \in broken \/ (c \notin sOpen /\ s2c[c] = <<>>)
ServerCanRead(c) == c2s[c] # <<>>
ServerReadFails(c) == c \in broken \/ (c \notin cOpen /\ c2s[c] = <<>>)

Break(c) ==
    /\ c \in cOpen /\ c \notin broken
    /\ broken' = broken \cup {c}
    /\ c2s' = [c2s EXCEPT ![c] = <<>>] /\ s2c' = [s2c EXCEPT ![c] = <<>>]
    /\ UNCHANGED <<server, dialed, cOpen, sOpen, client, history>>

-----------------------------------------------------------------------------
(* The client's Connect *)

Goto(l) == cpc' = l /\ UNCHANGED <<op, arg, helo>>

\* The operation returns.
Returns == cpc' = "idle" /\ op' = "none" /\ arg' = NoMsg /\ helo' = NoMessage

Dial ==
    /\ cpc = "dial"
    /\ \/ /\ listening /\ dialed < MaxConns
          /\ dialed' = dialed + 1
          /\ conn' = dialed + 1
          /\ cOpen' = cOpen \cup {dialed + 1} /\ sOpen' = sOpen \cup {dialed + 1}
          /\ Goto("auth")
       \/ /\ ~listening \/ dialed = MaxConns
          /\ Returns
          /\ UNCHANGED <<dialed, conn, cOpen, sOpen>>
    /\ UNCHANGED <<server, broken, c2s, s2c, w, history>>

\* The reader and the writer follow the connection only when Auth has succeeded.
Auth ==
    /\ cpc = "auth"
    /\ w' = conn
    /\ Goto("helo")
    /\ UNCHANGED <<server, wire, conn, history>>

AuthFails ==
    /\ AuthMayFail
    /\ cpc = "auth"
    /\ Returns
    /\ UNCHANGED <<server, wire, conn, w, history>>

ReadHelo ==
    /\ cpc = "helo"
    /\ ClientCanRead(conn)
    /\ Head(s2c[conn]).t = "HELO"
    /\ helo' = Head(s2c[conn])
    /\ s2c' = [s2c EXCEPT ![conn] = Tail(@)]
    /\ cpc' = "ping" /\ UNCHANGED <<op, arg>>
    /\ UNCHANGED <<server, dialed, cOpen, sOpen, broken, c2s, conn, w, history>>

\* Without password authentication the username is left out.
WritePing ==
    /\ cpc = "ping"
    /\ \E ok \in BOOLEAN :
          /\ ClientSends(conn,
                [t |-> "PING", hostname |-> "client", salt |-> conn,
                 digest |-> KeyDigest(conn, "client", helo.nonce, ccred.key),
                 user |-> IF helo.auth = 0 THEN NoUser ELSE ccred.user,
                 password |-> IF helo.auth = 0 THEN <<>>
                              ELSE PasswordDigest(helo.auth, ccred.user, ccred.password)], ok)
          /\ IF ok THEN Goto("pong") ELSE Returns
    /\ UNCHANGED <<server, dialed, cOpen, sOpen, broken, s2c, conn, w, history>>

PongAccepted(m) ==
    /\ m.ok
    /\ m.digest = KeyDigest(conn, m.hostname, helo.nonce, ccred.key)

ReadPong ==
    /\ cpc = "pong"
    /\ ClientCanRead(conn)
    /\ s2c' = [s2c EXCEPT ![conn] = Tail(@)]
    /\ \/ /\ PongAccepted(Head(s2c[conn]))
          /\ ready' = ready \cup {conn}
          /\ IF op = "reconnect" THEN Returns ELSE Goto("write")
          /\ UNCHANGED refused
       \/ /\ ~PongAccepted(Head(s2c[conn]))
          /\ refused' = refused \cup {conn}
          /\ Returns
          /\ UNCHANGED ready
    /\ UNCHANGED <<server, dialed, cOpen, sOpen, broken, c2s, conn, w, wrote, used>>

\* The connection ends during the handshake.
HandshakeFails ==
    /\ cpc \in {"helo", "pong"}
    /\ ClientReadFails(conn)
    /\ Returns
    /\ UNCHANGED <<server, wire, conn, w, history>>

-----------------------------------------------------------------------------
(* Write, WriteBatch, Reconnect, Close *)
\* Mutant: it connects also when there is a connection.
MutensureConnection == cpc' = "dial"

ensureConnection == cpc' = IF conn = 0 THEN "dial" ELSE "write"

StartWrite(o, m) ==
    /\ cpc = "idle"
    /\ m \notin used
    /\ used' = used \cup {m}
    /\ op' = o /\ arg' = m
    /\ ensureConnection
    /\ UNCHANGED <<server, wire, conn, w, helo, ready, refused, wrote>>

\* Write goes to the connection ...
Write ==
    /\ cpc = "write" /\ op = "write"
    /\ \E ok \in BOOLEAN :
          /\ ClientSends(conn, [t |-> "data", m |-> arg], ok)
          /\ wrote' = IF ok THEN [wrote EXCEPT ![conn] = Append(@, arg)] ELSE wrote
    /\ Returns
    /\ UNCHANGED <<server, dialed, cOpen, sOpen, broken, s2c, conn, w, ready, refused, used>>

\* ... and WriteBatch to the writer, which may have an older connection, or none:
\* then Flush writes nothing, the batch is dropped and no error is returned.
WriteBatch ==
    /\ cpc = "write" /\ op = "batch"
    /\ \/ /\ w # 0
          /\ \E ok \in BOOLEAN :
                /\ ClientSends(w, [t |-> "data", m |-> arg], ok)
                /\ wrote' = IF ok THEN [wrote EXCEPT ![w] = Append(@, arg)] ELSE wrote
          /\ Returns
       \/ /\ w = 0
          /\ Returns
          /\ UNCHANGED <<c2s, wrote>>
    /\ UNCHANGED <<server, dialed, cOpen, sOpen, broken, s2c, conn, w, ready, refused, used>>

\* The entries cannot be read or written to their end: the server gets the
\* beginning of a batch, without its options.
WriteBatchFails ==
    /\ cpc = "write" /\ op = "batch"
    /\ w # 0
    /\ \E ok \in BOOLEAN : ClientSends(w, [t |-> "cut"], ok)
    /\ Returns
    /\ UNCHANGED <<server, dialed, cOpen, sOpen, broken, s2c, conn, w, history>>

\* Mutant: the client keeps the connection it has closed.
MutDisconnect ==
    /\ cOpen' = cOpen \ {conn} /\ conn' = conn
    /\ s2c' = [c \in Conn |-> IF c = conn THEN <<>> ELSE s2c[c]]

\* What has arrived on the connection is gone with it.
Disconnect ==
    /\ cOpen' = cOpen \ {conn} /\ conn' = 0
    /\ s2c' = [c \in Conn |-> IF c = conn THEN <<>> ELSE s2c[c]]

Reconnect ==
    /\ cpc = "idle"
    /\ Disconnect
    /\ op' = "reconnect" /\ cpc' = "dial"
    /\ UNCHANGED <<server, dialed, sOpen, broken, c2s, arg, w, helo, history>>

Close ==
    /\ cpc = "idle"
    /\ conn # 0
    /\ Disconnect
    /\ UNCHANGED <<server, dialed, sOpen, broken, c2s, cpc, op, arg, w, helo, history>>

ClientStep ==
    \/ Dial \/ Auth \/ AuthFails \/ ReadHelo \/ WritePing \/ ReadPong \/ HandshakeFails
    \/ Write \/ WriteBatch \/ WriteBatchFails

-----------------------------------------------------------------------------
(* The server's Listen and the sessions *)

Session(c, l) == ss' = [ss EXCEPT ![c] = l]

ServerFrame == UNCHANGED <<login, listening>>

\* Sessions are not ended with the server.
ServerStops ==
    /\ listening
    /\ listening' = FALSE
    /\ broken' = broken \cup {c \in sOpen : ss[c] = "none"}
    /\ UNCHANGED <<login, ss, ping, received, dialed, cOpen, sOpen, s2c, client, history>>
    /\ c2s' = [c \in Conn |-> IF ss[c] = "none" THEN <<>> ELSE c2s[c]]

Accept(c) ==
    /\ listening
    /\ c \in sOpen
    /\ ss[c] = "none"
    /\ Session(c, "helo")
    /\ ServerFrame /\ UNCHANGED <<ping, received, wire, client, history>>

\* The session's defer: the connection is closed.
SessionClose(c) ==
    /\ Session(c, "closed")
    /\ sOpen' = sOpen \ {c}
    /\ c2s' = [c2s EXCEPT ![c] = <<>>]

\* nonce and auth are fresh random values.
WriteHelo(c) ==
    /\ ss[c] = "helo"
    /\ \E ok \in BOOLEAN :
          /\ ServerSends(c, [t |-> "HELO", nonce |-> c, auth |-> IF PasswordAuth THEN c ELSE 0], ok)
          /\ \/ ok /\ Session(c, "ping") /\ UNCHANGED <<sOpen, c2s>>
             \/ ~ok /\ SessionClose(c)
    /\ ServerFrame /\ UNCHANGED <<ping, received, dialed, cOpen, broken, client, history>>

ReadPing(c) ==
    /\ ss[c] = "ping"
    /\ ServerCanRead(c)
    /\ ping' = [ping EXCEPT ![c] = Head(c2s[c])]
    /\ c2s' = [c2s EXCEPT ![c] = Tail(@)]
    /\ Session(c, "pong")
    /\ ServerFrame /\ UNCHANGED <<received, dialed, cOpen, sOpen, broken, s2c, client, history>>
\* Mutant: neither the key nor the password is compared.
MutPingValid(c) ==
    /\ ping[c].t = "PING"
    /\ ping[c].user = IF PasswordAuth THEN scred.user ELSE NoUser

\* StaticAuthServer knows one user; then the shared key, then the password.
PingValid(c) ==
    LET m == ping[c] IN
    /\ m.t = "PING"
    /\ m.user = scred.user
    /\ m.digest = KeyDigest(m.salt, m.hostname, c, scred.key)
    /\ PasswordAuth => m.password = PasswordDigest(c, m.user, scred.password)

\* Mutant: every client is refused, and the session goes on all the same.
MutWritePong(c) ==
    /\ ss[c] = "pong"
    /\ Session(c, "transport")
    /\ \E ok \in BOOLEAN :
          ServerSends(c, [t |-> "PONG", ok |-> FALSE, hostname |-> "server", digest |-> <<>>], ok)
    /\ ping' = [ping EXCEPT ![c] = NoMessage]
    /\ ServerFrame /\ UNCHANGED <<received, dialed, cOpen, sOpen, broken, c2s, client, history>>

WritePong(c) ==
    /\ ss[c] = "pong"
    /\ \E ok \in BOOLEAN :
          \/ /\ PingValid(c)
             /\ ServerSends(c, [t |-> "PONG", ok |-> TRUE, hostname |-> "server",
                                digest |-> KeyDigest(ping[c].salt, "server", c, scred.key)], ok)
             /\ IF ok THEN Session(c, "transport") /\ UNCHANGED <<sOpen, c2s>> ELSE SessionClose(c)
          \/ /\ ~PingValid(c)
             /\ ServerSends(c, [t |-> "PONG", ok |-> FALSE, hostname |-> "server",
                                digest |-> <<>>], ok)
             /\ SessionClose(c)
    /\ ping' = [ping EXCEPT ![c] = NoMessage]
    /\ ServerFrame /\ UNCHANGED <<received, dialed, cOpen, broken, client, history>>

\* Mutant: only the first message of a connection is read.
MutHandlerReads(c) ==
    /\ ss[c] = "transport"
    /\ ServerCanRead(c) /\ Head(c2s[c]).t = "data"
    /\ received[c] = <<>>
    /\ received' = [received EXCEPT ![c] = Append(@, Head(c2s[c]).m)]
    /\ c2s' = [c2s EXCEPT ![c] = Tail(@)]
    /\ ServerFrame
    /\ UNCHANGED <<ss, ping, dialed, cOpen, sOpen, broken, s2c, client, history>>

HandlerReads(c) ==
    /\ ss[c] = "transport"
    /\ ServerCanRead(c) /\ Head(c2s[c]).t = "data"
    /\ received' = [received EXCEPT ![c] = Append(@, Head(c2s[c]).m)]
    /\ c2s' = [c2s EXCEPT ![c] = Tail(@)]
    /\ ServerFrame
    /\ UNCHANGED <<ss, ping, dialed, cOpen, sOpen, broken, s2c, client, history>>

\* Whatever comes behind the beginning of a batch is taken for the rest of it,
\* until it cannot be decompressed.  (The entries that the handler gets out of
\* the beginning are not counted as received.)
ReadRest(c) ==
    /\ ServerCanRead(c)
    /\ \/ /\ ss[c] = "transport" /\ Head(c2s[c]).t = "cut"
          /\ Session(c, "batch")
          /\ c2s' = [c2s EXCEPT ![c] = Tail(@)] /\ UNCHANGED sOpen
       \/ /\ ss[c] = "batch"
          /\ c2s' = [c2s EXCEPT ![c] = Tail(@)] /\ UNCHANGED <<ss, sOpen>>
       \/ /\ ss[c] = "batch"
          /\ SessionClose(c)
    /\ ServerFrame
    /\ UNCHANGED <<ping, received, dialed, cOpen, broken, s2c, client, history>>

\* Mutant: a session does not end with its connection while it waits for the PING.
MutSessionEnds(c) ==
    /\ ss[c] = "transport"
    /\ ServerReadFails(c)
    /\ SessionClose(c)
    /\ ServerFrame
    /\ UNCHANGED <<ping, received, dialed, cOpen, broken, s2c, client, history>>

SessionEnds(c) ==
    /\ ss[c] \in {"ping", "transport", "batch"}
    /\ ServerReadFails(c)
    /\ SessionClose(c)
    /\ ServerFrame
    /\ UNCHANGED <<ping, received, dialed, cOpen, broken, s2c, client, history>>

SessionStep(c) ==
    \/ Accept(c) \/ WriteHelo(c) \/ ReadPing(c) \/ WritePong(c)
    \/ HandlerReads(c) \/ ReadRest(c) \/ SessionEnds(c)

Next ==
    \/ \E m \in Msg, o \in {"write", "batch"} : StartWrite(o, m)
    \/ Reconnect \/ Close
    \/ ClientStep
    \/ ServerStops
    \/ \E c \in Conn : SessionStep(c) \/ Break(c)

Spec == Init /\ [][Next]_vars

\* The goroutines of the client and of the sessions run.
FairSpec == Spec /\ WF_vars(ClientStep) /\ \A c \in Conn : WF_vars(SessionStep(c))

-----------------------------------------------------------------------------
(* Properties *)

\* Every variable has its type; in particular the connection of the client is one
\* that it has not closed.
TypeOK ==
    /\ login \in Logins
    /\ listening \in BOOLEAN
    /\ dialed \in 0..MaxConns
    /\ cOpen \subseteq 1..dialed /\ sOpen \subseteq 1..dialed /\ broken \subseteq 1..dialed
    /\ DOMAIN c2s = Conn /\ DOMAIN s2c = Conn /\ DOMAIN ping = Conn
    /\ ss \in [Conn -> {"none", "helo", "ping", "pong", "transport", "batch", "closed"}]
    /\ received \in [Conn -> Seq(Msg)]
    /\ cpc \in {"idle", "dial", "auth", "helo", "ping", "pong", "write"}
    /\ op \in {"none", "write", "batch", "reconnect"} /\ arg \in Msg \cup {NoMsg}
    /\ conn \in cOpen \cup {0} /\ w \in 0..dialed
    /\ ready \subseteq 1..dialed /\ refused \subseteq 1..dialed
    /\ wrote \in [Conn -> Seq(Msg)] /\ used \subseteq Msg

Matching ==
    /\ ccred.key = scred.key
    /\ scred.user = IF PasswordAuth THEN ccred.user ELSE NoUser
    /\ PasswordAuth => ccred.password = scred.password

\* Both ends come to the same result.  If the client takes a handshake for
\* successful, the session did so before; a session enters the transport phase
\* only with a client that has the matching credentials, and never with one that
\* did not accept its PONG.
HandshakeAgrees ==
    /\ \A c \in ready : ss[c] \in {"transport", "batch", "closed"} /\ Matching
    /\ \A c \in Conn : ss[c] \in {"transport", "batch"} => Matching /\ c \notin refused

IsPrefixOf(s, t) == Len(s) <= Len(t) /\ s = SubSeq(t, 1, Len(s))

\* What a handler reads from a connection is what the client wrote to it, in
\* that order and without a gap, and nothing of what the client wrote to a
\* connection that it had no successful handshake on.
ReceivedPrefix ==
    \A c \in Conn :
        /\ IsPrefixOf(received[c], wrote[c])
        /\ received[c] # <<>> => c \in ready

\* The client never has a connection open that it has no hold of (as long as
\* nobody calls Connect while it has one).
OneConnection == cOpen \subseteq {conn}

\* What was written without an error after a successful handshake arrives, as long
\* as the connection lasts and no batch was cut on it: a client may rely on
\* Write if it reconnects after every error.
WrittenArrives ==
    []<>(\A c \in ready : \/ received[c] = wrote[c]
                         \/ c \in broken \/ c \notin cOpen \/ ss[c] \in {"batch", "closed"})

\* An operation of the client returns, since each session it waits for answers or
\* ends; and a session whose client has closed the connection ends, in whatever
\* phase it is.
OperationsEnd ==
    /\ cpc # "idle" ~> cpc = "idle"
    /\ \A c \in Conn : (ss[c] # "none" /\ c \notin cOpen) ~> ss[c] = "closed"

-----------------------------------------------------------------------------
(* What the protocol's specification says, and the code does not do *)

\* "Client MUST disconnect the connection if authentication operation fails"
\* (docs/forward-protocol-specification.md): so no message is written, with
\* success, to a connection whose handshake failed.
NotWrittenAfterFailure == \A c \in refused : wrote[c] = <<>>

=============================================================================
