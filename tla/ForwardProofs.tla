---------------------------- MODULE ForwardProofs ----------------------------
(***************************************************************************)
(* Proofs about Forward, for any number of connections and messages and    *)
(* any combination of credentials.                                         *)
(***************************************************************************)
EXTENDS Forward, SequenceLemmas

-----------------------------------------------------------------------------
(* The inductive invariant *)

\* The messages of the handshake on connection c, and those behind it.
Helo(c) == [t |-> "HELO", nonce |-> c, auth |-> IF PasswordAuth THEN c ELSE 0]

Ping(c) ==
    [t |-> "PING", hostname |-> "client", salt |-> c,
     digest |-> KeyDigest(c, "client", c, ccred.key),
     user |-> IF PasswordAuth THEN ccred.user ELSE NoUser,
     password |-> IF PasswordAuth THEN PasswordDigest(c, ccred.user, ccred.password) ELSE <<>>]

PongYes(c) ==
    [t |-> "PONG", ok |-> TRUE, hostname |-> "server",
     digest |-> KeyDigest(c, "server", c, scred.key)]

PongNo == [t |-> "PONG", ok |-> FALSE, hostname |-> "server", digest |-> <<>>]

Data(x) == [t |-> "data", m |-> x]
Cut == [t |-> "cut"]
Payload == {Data(x) : x \in Msg} \cup {Cut}

\* What a write of the client reaches.
Live(c) == c \in cOpen /\ c \in sOpen /\ c \notin broken

\* The client: it dials without a connection, so it has one at a time, and while
\* it shakes hands it has the session's HELO.
Client ==
    /\ cOpen \subseteq {conn}
    /\ cpc = "dial" => conn = 0
    /\ cpc \in {"auth", "helo", "ping", "pong", "write"} => conn # 0
    /\ op = "none" <=> cpc = "idle"
    /\ op \in {"write", "batch"} => arg \in Msg
    /\ cpc = "write" => op \in {"write", "batch"}
    /\ cpc \in {"ping", "pong"} => helo = Helo(conn) /\ ss[conn] \notin {"none", "helo"}

\* What is on its way to the server: the PING alone, or data and cut batches.
\* A session that has read a PING has read the client's.
ToServer(c) ==
    /\ c > dialed => ss[c] = "none" /\ wrote[c] = <<>>
    /\ ss[c] = "closed" => c \notin sOpen
    /\ c \notin sOpen \/ c \in broken => c2s[c] = <<>>
    /\ \/ ss[c] \in {"none", "helo", "ping"} /\ c2s[c] = <<Ping(c)>>
       \/ c2s[c] \in Seq(Payload)
    /\ ss[c] = "pong" => \/ ping[c] = Ping(c) /\ c2s[c] = <<>>
                         \/ ping[c] \in Payload

\* What is on its way to the client: the HELO, unless it has read it, and a PONG
\* that tells how the session went on.
MayPong(c, y) ==
    \/ y = PongYes(c) /\ Matching /\ ss[c] \in {"transport", "batch", "closed"}
    \/ y = PongNo /\ ss[c] = "closed"

HeloPending(c) == ss[c] \notin {"none", "helo"} /\ ~(conn = c /\ cpc \in {"ping", "pong"})

ToClient(c) ==
    /\ c \in broken => s2c[c] = <<>>
    /\ \/ s2c[c] = <<>>
       \/ HeloPending(c) /\ s2c[c] = <<Helo(c)>>
       \/ \E y \in {PongYes(c), PongNo} : MayPong(c, y) /\ s2c[c] = <<y>>
       \/ HeloPending(c) /\ \E y \in {PongYes(c), PongNo} : MayPong(c, y) /\ s2c[c] = <<Helo(c), y>>

\* HandshakeAgrees; a connection whose PONG was not accepted has no session.
Agreement(c) ==
    /\ c \in ready => ss[c] \in {"transport", "batch", "closed"} /\ Matching
    /\ c \in refused => ss[c] = "closed"
    /\ ss[c] \in {"transport", "batch"} => Matching

\* As long as a write reaches the session: what the client's position says about
\* the session.  Before the PING nothing was sent; without a handshake no PING
\* was or will be sent, and the session cannot get beyond its answer.
Stage(c) ==
    Live(c) =>
        /\ cpc \in {"auth", "helo", "ping"} =>
              c2s[c] = <<>> /\ wrote[c] = <<>> /\ ss[c] \in {"none", "helo", "ping"}
        /\ cpc = "pong" =>
              /\ wrote[c] = <<>>
              /\ \/ ss[c] = "ping" /\ c2s[c] = <<Ping(c)>>
                 \/ ss[c] = "pong" /\ ping[c] = Ping(c) /\ c2s[c] = <<>>
                 \/ ss[c] = "transport" /\ c2s[c] = <<>>
        /\ cpc \in {"idle", "write"} /\ c \notin ready =>
              /\ c2s[c] \in Seq(Payload)
              /\ ss[c] \in {"none", "helo", "ping", "pong"}
              /\ ss[c] = "pong" => ping[c] \in Payload
        /\ cpc \in {"idle", "write"} /\ c \in ready => ss[c] \in {"transport", "batch"}

\* ReceivedPrefix; what is behind it in the connection is what the client wrote
\* next, up to a cut batch, and while a write reaches the session it is all.
Uncut(s) == \A k \in 1..Len(s) : s[k] # Cut

Order(c) ==
    /\ IsPrefixOf(received[c], wrote[c])
    /\ received[c] # <<>> => c \in ready
    /\ ss[c] \in {"none", "helo", "ping", "pong"} => received[c] = <<>>
    /\ ss[c] = "transport" =>
          /\ c2s[c] # <<>> => c \in ready
          /\ \A i \in 1..Len(c2s[c]) : (\A k \in 1..i : c2s[c][k] # Cut) =>
                /\ Len(received[c]) + i <= Len(wrote[c])
                /\ c2s[c][i] = Data(wrote[c][Len(received[c]) + i])
          /\ Live(c) /\ Uncut(c2s[c]) => Len(wrote[c]) = Len(received[c]) + Len(c2s[c])

Local(c) == ToServer(c) /\ ToClient(c) /\ Agreement(c) /\ Stage(c) /\ Order(c)

Inv == TypeOK /\ Client /\ \A c \in Conn : Local(c)

-----------------------------------------------------------------------------
(* Messages *)

LEMMA HeloFields ==
    ASSUME NEW c
    PROVE  /\ Helo(c).t = "HELO" /\ Helo(c).nonce = c
           /\ Helo(c).auth = IF PasswordAuth THEN c ELSE 0
BY DEF Helo

LEMMA PongFields ==
    ASSUME NEW c
    PROVE  /\ PongYes(c).t = "PONG" /\ PongYes(c).ok = TRUE /\ PongYes(c).hostname = "server"
           /\ PongYes(c).digest = KeyDigest(c, "server", c, scred.key)
           /\ PongNo.t = "PONG" /\ PongNo.ok = FALSE
BY DEF PongYes, PongNo

LEMMA PingFields ==
    ASSUME NEW c
    PROVE  /\ Ping(c).t = "PING" /\ Ping(c).hostname = "client" /\ Ping(c).salt = c
           /\ Ping(c).digest = KeyDigest(c, "client", c, ccred.key)
           /\ Ping(c).user = IF PasswordAuth THEN ccred.user ELSE NoUser
           /\ Ping(c).password = IF PasswordAuth
                                 THEN PasswordDigest(c, ccred.user, ccred.password) ELSE <<>>
BY DEF Ping

LEMMA DataFields ==
    /\ \A x \in Msg : Data(x).t = "data" /\ Data(x).m = x /\ Data(x) \in Payload /\ Data(x) # Cut
    /\ Cut.t = "cut" /\ Cut \in Payload
    /\ \A y \in Payload : y.t # "PING" /\ (y = Cut \/ (y.t = "data" /\ y = Data(y.m) /\ y.m \in Msg))
<1>1. ASSUME NEW x \in Msg PROVE Data(x).t = "data" /\ Data(x).m = x /\ Data(x) \in Payload
    BY DEF Data, Payload
<1>2. Cut.t = "cut" /\ Cut \in Payload BY DEF Cut, Payload
<1>3. ASSUME NEW x \in Msg PROVE Data(x) # Cut BY <1>1, <1>2
<1>4. ASSUME NEW y \in Payload
      PROVE  y.t # "PING" /\ (y = Cut \/ (y.t = "data" /\ y = Data(y.m) /\ y.m \in Msg))
  <2>1. CASE y = Cut BY <1>2, <2>1
  <2>2. CASE y # Cut
    <3>1. PICK x \in Msg : y = Data(x) BY <2>2 DEF Payload
    <3> QED BY <1>1, <3>1
  <2> QED BY <2>1, <2>2
<1> QED BY <1>1, <1>2, <1>3, <1>4

\* The messages depend on the credentials only.
LEMMA SameMessages ==
    ASSUME login' = login, NEW c
    PROVE  /\ Helo(c)' = Helo(c) /\ Ping(c)' = Ping(c)
           /\ PongYes(c)' = PongYes(c) /\ Matching' = Matching
BY DEF Helo, Ping, PongYes, Matching, ccred, scred, PasswordAuth, KeyDigest, PasswordDigest

\* The same key on both ends makes the client accept the session's PONG.
LEMMA PongIsAccepted ==
    ASSUME Matching, helo = Helo(conn)
    PROVE  PongAccepted(PongYes(conn))
<1>1. PongYes(conn).ok BY DEF PongYes
<1>2. PongYes(conn).digest = KeyDigest(conn, PongYes(conn).hostname, helo.nonce, ccred.key)
    BY HeloFields, PongFields, ZenonT(30) DEF Matching
<1> QED BY <1>1, <1>2 DEF PongAccepted

LEMMA PongIsRefused == ~PongAccepted(PongNo)
<1>1. ~PongNo.ok BY DEF PongNo
<1> QED BY <1>1 DEF PongAccepted

\* A PING is valid only if the credentials match.
LEMMA ValidMatches ==
    ASSUME NEW c \in Conn, PingValid(c), ping[c] = Ping(c)
    PROVE  Matching
<1>1. ping[c].user = scred.user BY DEF PingValid
<1>2. ping[c].digest = KeyDigest(c, "client", c, scred.key) BY PingFields DEF PingValid
<1>3. PasswordAuth => ping[c].password = PasswordDigest(c, ping[c].user, scred.password)
    BY DEF PingValid
<1>4. ccred.key = scred.key BY <1>2, PingFields DEF KeyDigest
<1>5. PasswordAuth => ccred.password = scred.password
    BY <1>3, PingFields DEF PasswordDigest
<1> QED BY <1>1, <1>4, <1>5, PingFields DEF Matching

-----------------------------------------------------------------------------
(* The connections a step has nothing to do with *)

LEMMA Untouched ==
    ASSUME NEW c \in Conn, Local(c), login' = login,
           UNCHANGED <<c2s[c], s2c[c], ss[c], ping[c], received[c], wrote[c]>>,
           c > dialed' => c > dialed,
           c \in cOpen' => c \in cOpen,
           c \in sOpen' <=> c \in sOpen, c \in broken' <=> c \in broken,
           c \in ready' <=> c \in ready, c \in refused' <=> c \in refused,
           conn' = c /\ cpc' \in {"ping", "pong"} => conn = c /\ cpc \in {"ping", "pong"}
    PROVE  /\ ToServer(c)' /\ ToClient(c)' /\ Agreement(c)' /\ Order(c)'
           /\ ~Live(c)' \/ cpc' = cpc => Stage(c)'
<1>1. /\ Helo(c)' = Helo(c) /\ Ping(c)' = Ping(c)
      /\ PongYes(c)' = PongYes(c) /\ Matching' = Matching
    BY SameMessages
<1>2. Live(c)' => Live(c) BY DEF Live
<1>3. ToServer(c)' BY <1>1 DEF Local, ToServer
<1>4. HeloPending(c) => HeloPending(c)' BY DEF HeloPending
<1>5. ASSUME NEW y PROVE MayPong(c, y) => MayPong(c, y)' BY <1>1 DEF MayPong
<1>6. ToClient(c)' BY <1>1, <1>4, <1>5 DEF Local, ToClient
<1>7. Agreement(c)' BY <1>1 DEF Local, Agreement
<1>8. Order(c)' BY <1>2 DEF Local, Order
<1>9. ~Live(c)' \/ cpc' = cpc => Stage(c)' BY <1>1, <1>2 DEF Local, Stage
<1> QED BY <1>3, <1>6, <1>7, <1>8, <1>9

-----------------------------------------------------------------------------
(* Every step keeps the invariant *)

LEMMA InitInv == Init => Inv
<1> SUFFICES ASSUME Init PROVE Inv OBVIOUS
<1>1. TypeOK BY ForwardAssumption DEF Init, TypeOK, Conn
<1>2. Client BY DEF Init, Client
<1>3. ASSUME NEW c \in Conn PROVE Local(c)
  <2>1. /\ c2s[c] = <<>> /\ s2c[c] = <<>> /\ ss[c] = "none" /\ received[c] = <<>>
        /\ wrote[c] = <<>> /\ ~Live(c) /\ c \notin ready /\ c \notin refused
      BY DEF Init, Live
  <2>2. c2s[c] \in Seq(Payload) BY <2>1
  <2>3. ToServer(c) /\ ToClient(c) /\ Agreement(c) /\ Stage(c)
      BY <2>1, <2>2 DEF ToServer, ToClient, Agreement, Stage
  <2>4. Order(c) BY <2>1 DEF Order, IsPrefixOf
  <2> QED BY <2>3, <2>4 DEF Local
<1> QED BY <1>1, <1>2, <1>3 DEF Inv

\* Nothing is on its way on a connection that is not dialed.
LEMMA NewConnection ==
    ASSUME Inv, NEW c \in Conn, c > dialed
    PROVE  /\ c2s[c] = <<>> /\ s2c[c] = <<>> /\ ss[c] = "none" /\ wrote[c] = <<>>
           /\ c \notin sOpen /\ c \notin broken /\ c \notin ready /\ c \notin refused
<1>1. Local(c) /\ c \notin 1..dialed BY DEF Inv, TypeOK, Conn
<1>2. c \notin sOpen /\ c \notin broken /\ c \notin ready /\ c \notin refused
    BY <1>1 DEF Inv, TypeOK
<1>3. ss[c] = "none" /\ wrote[c] = <<>> /\ c2s[c] = <<>> BY <1>1, <1>2 DEF Local, ToServer
<1>4. s2c[c] = <<>> BY <1>1, <1>3 DEF Local, ToClient, HeloPending, MayPong
<1> QED BY <1>2, <1>3, <1>4

LEMMA DialInv ==
    ASSUME Inv, Dial
    PROVE  Inv'
<1> USE DEF Inv
<1>0. /\ cpc = "dial" /\ conn = 0 /\ cOpen = {}
      /\ UNCHANGED <<login, listening, ss, ping, received, broken, c2s, s2c, w, ready, refused, wrote, used>>
    BY DEF Dial, Client, TypeOK, server, history
<1>1. CASE dialed < MaxConns /\ dialed' = dialed + 1 /\ conn' = dialed + 1
           /\ cOpen' = cOpen \cup {dialed + 1} /\ sOpen' = sOpen \cup {dialed + 1} /\ Goto("auth")
  <2>0. /\ cpc' = "auth" /\ UNCHANGED <<op, arg, helo>> /\ dialed \in Nat
        /\ dialed + 1 \in Conn /\ dialed + 1 > dialed /\ cOpen' = {dialed + 1}
      BY <1>0, <1>1, ForwardAssumption DEF Goto, TypeOK, Conn
  <2>1. TypeOK' BY <1>0, <1>1, <2>0, ForwardAssumption DEF TypeOK
  <2>2. Client' BY <1>0, <1>1, <2>0 DEF Client
  <2>3. ASSUME NEW c \in Conn, c # dialed + 1 PROVE Local(c)'
    <3>1. c \notin cOpen' /\ (c > dialed' => c > dialed) /\ (c \in sOpen' <=> c \in sOpen)
        BY <1>0, <1>1, <2>0, <2>3 DEF Conn
    <3>2. ~Live(c)' BY <3>1 DEF Live
    <3> QED BY <1>0, <2>0, <3>1, <3>2, Untouched DEF Local
  <2>4. ASSUME NEW c \in Conn, c = dialed + 1 PROVE Local(c)'
    <3>1. /\ c2s'[c] = <<>> /\ s2c'[c] = <<>> /\ ss'[c] = "none" /\ wrote'[c] = <<>>
          /\ c \notin broken' /\ c \notin ready' /\ c \notin refused'
          /\ c \in sOpen' /\ received'[c] = <<>>
      <4>1. c > dialed BY <2>0, <2>4
      <4>2. received[c] = <<>>
          BY <4>1, NewConnection DEF Local, Order
      <4> QED BY <1>0, <1>1, <2>4, <4>1, <4>2, NewConnection
    <3>2. /\ c2s'[c] \in Seq(Payload) /\ ~(c > dialed') BY <1>1, <2>0, <2>4, <3>1
    <3>3. ToServer(c)' /\ ToClient(c)' /\ Agreement(c)'
        BY <3>1, <3>2 DEF ToServer, ToClient, Agreement
    <3>4. Stage(c)' BY <2>0, <3>1 DEF Stage
    <3>5. Order(c)' BY <3>1 DEF Order, IsPrefixOf
    <3> QED BY <3>3, <3>4, <3>5 DEF Local
  <2> QED BY <2>1, <2>2, <2>3, <2>4
<1>2. CASE Returns /\ UNCHANGED <<dialed, conn, cOpen, sOpen>>
  <2>1. TypeOK' BY <1>0, <1>2 DEF TypeOK, Returns
  <2>2. Client' BY <1>0, <1>2 DEF Client, Returns
  <2>3. ASSUME NEW c \in Conn PROVE Local(c)'
    <3>1. ~Live(c)' BY <1>0, <1>2 DEF Live
    <3> QED BY <1>0, <1>2, <3>1, Untouched DEF Local, Returns
  <2> QED BY <2>1, <2>2, <2>3
<1> QED BY <1>1, <1>2 DEF Dial

LEMMA AuthInv ==
    ASSUME Inv, Auth
    PROVE  Inv'
<1> USE DEF Inv
<1>0. /\ cpc = "auth" /\ cpc' = "helo" /\ w' = conn
      /\ UNCHANGED <<login, listening, ss, ping, received, dialed, cOpen, sOpen, broken, c2s, s2c,
                     conn, op, arg, helo, ready, refused, wrote, used>>
    BY DEF Auth, Goto, server, wire, history
<1>1. TypeOK' BY <1>0 DEF TypeOK
<1>2. Client' BY <1>0 DEF Client
<1>3. ASSUME NEW c \in Conn PROVE Local(c)'
  <2>1. Local(c) OBVIOUS
  <2>2. ToServer(c)' /\ ToClient(c)' /\ Agreement(c)' /\ Order(c)' BY <1>0, <2>1, Untouched
  <2>3. Stage(c)' BY <1>0, <2>1 DEF Local, Stage, Live
  <2> QED BY <2>2, <2>3 DEF Local
<1> QED BY <1>1, <1>2, <1>3

\* The client's operation ends before the PING is written.
LEMMA AuthFailsInv ==
    ASSUME Inv, AuthFails
    PROVE  Inv'
<1> USE DEF Inv
<1>0. /\ cpc = "auth" /\ cpc' = "idle" /\ op' = "none" /\ arg' = NoMsg /\ helo' = NoMessage
      /\ UNCHANGED <<login, listening, ss, ping, received, dialed, cOpen, sOpen, broken, c2s, s2c,
                     conn, w, ready, refused, wrote, used>>
    BY DEF AuthFails, Returns, server, wire, history
<1>1. TypeOK' BY <1>0 DEF TypeOK
<1>2. Client' BY <1>0 DEF Client
<1>3. ASSUME NEW c \in Conn PROVE Local(c)'
  <2>1. Local(c) OBVIOUS
  <2>2. ToServer(c)' /\ ToClient(c)' /\ Agreement(c)' /\ Order(c)' BY <1>0, <2>1, Untouched
  <2>3. Live(c)' => c2s[c] = <<>> /\ ss[c] \in {"none", "helo", "ping"} /\ c \notin ready
      BY <1>0, <2>1 DEF Local, Stage, Live, Agreement
  <2>4. c2s[c] = <<>> => c2s'[c] \in Seq(Payload) BY <1>0
  <2>5. Stage(c)' BY <1>0, <2>3, <2>4 DEF Stage
  <2> QED BY <2>2, <2>5 DEF Local
<1> QED BY <1>1, <1>2, <1>3

LEMMA HandshakeFailsInv ==
    ASSUME Inv, HandshakeFails
    PROVE  Inv'
<1> USE DEF Inv
<1>0. /\ cpc \in {"helo", "pong"} /\ cpc' = "idle" /\ op' = "none" /\ arg' = NoMsg /\ helo' = NoMessage
      /\ UNCHANGED <<login, listening, ss, ping, received, dialed, cOpen, sOpen, broken, c2s, s2c,
                     conn, w, ready, refused, wrote, used>>
    BY DEF HandshakeFails, Returns, server, wire, history
<1>1. TypeOK' BY <1>0 DEF TypeOK
<1>2. Client' BY <1>0 DEF Client
<1>3. ASSUME NEW c \in Conn PROVE Local(c)'
  <2>1. Local(c) OBVIOUS
  <2>2. ~Live(c)' BY <1>0 DEF Live, HandshakeFails, ClientReadFails, Client
  <2> QED BY <1>0, <2>1, <2>2, Untouched DEF Local
<1> QED BY <1>1, <1>2, <1>3

LEMMA StartWriteInv ==
    ASSUME Inv, NEW m \in Msg, NEW o \in {"write", "batch"}, StartWrite(o, m)
    PROVE  Inv'
<1> USE DEF Inv
<1>0. /\ cpc = "idle" /\ op' = o /\ arg' = m /\ used' = used \cup {m}
      /\ cpc' = IF conn = 0 THEN "dial" ELSE "write"
      /\ UNCHANGED <<login, listening, ss, ping, received, dialed, cOpen, sOpen, broken, c2s, s2c,
                     conn, w, helo, ready, refused, wrote>>
    BY DEF StartWrite, ensureConnection, server, wire
<1>1. TypeOK' BY <1>0 DEF TypeOK
<1>2. Client' BY <1>0 DEF Client
<1>3. ASSUME NEW c \in Conn PROVE Local(c)'
  <2>1. Local(c) OBVIOUS
  <2>2. ToServer(c)' /\ ToClient(c)' /\ Agreement(c)' /\ Order(c)' BY <1>0, <2>1, Untouched
  <2>3. Live(c)' => Live(c) /\ cpc' = "write" BY <1>0 DEF Live, Client, Conn
  <2>4. Stage(c)' BY <1>0, <2>1, <2>3 DEF Local, Stage
  <2> QED BY <2>2, <2>4 DEF Local
<1> QED BY <1>1, <1>2, <1>3

\* What the client finds at the head of its connection, and what is behind it.
LEMMA ClientReads ==
    ASSUME NEW c \in Conn, Local(c), s2c[c] # <<>>
    PROVE  \/ /\ Head(s2c[c]) = Helo(c) /\ HeloPending(c)
              /\ \/ Tail(s2c[c]) = <<>>
                 \/ \E y \in {PongYes(c), PongNo} : MayPong(c, y) /\ Tail(s2c[c]) = <<y>>
           \/ MayPong(c, Head(s2c[c])) /\ Tail(s2c[c]) = <<>>
<1>1. CASE HeloPending(c) /\ s2c[c] = <<Helo(c)>> BY <1>1
<1>2. CASE \E y \in {PongYes(c), PongNo} : MayPong(c, y) /\ s2c[c] = <<y>>
  <2>1. PICK y : MayPong(c, y) /\ s2c[c] = <<y>> BY <1>2
  <2> QED BY <2>1
<1>3. CASE HeloPending(c) /\ \E y \in {PongYes(c), PongNo} : MayPong(c, y) /\ s2c[c] = <<Helo(c), y>>
  <2>1. PICK y : MayPong(c, y) /\ s2c[c] = <<Helo(c), y>> BY <1>3
  <2>2. Head(s2c[c]) = Helo(c) /\ Tail(s2c[c]) = <<y>> BY <2>1
  <2> QED BY <1>3, <2>1, <2>2
<1> QED BY <1>1, <1>2, <1>3 DEF Local, ToClient

\* A connection that the client uses is one.
LEMMA ItsConnection ==
    ASSUME Inv, cpc \in {"auth", "helo", "ping", "pong", "write"}
    PROVE  conn \in Conn /\ conn <= dialed /\ Local(conn)
BY ForwardAssumption DEF Inv, Client, TypeOK, Conn

LEMMA ReadHeloInv ==
    ASSUME Inv, ReadHelo
    PROVE  Inv'
<1> USE DEF Inv
<1>0. /\ cpc = "helo" /\ cpc' = "ping" /\ helo' = Head(s2c[conn]) /\ Head(s2c[conn]).t = "HELO"
      /\ s2c[conn] # <<>> /\ s2c' = [s2c EXCEPT ![conn] = Tail(@)]
      /\ UNCHANGED <<login, listening, ss, ping, received, dialed, cOpen, sOpen, broken, c2s,
                     conn, w, op, arg, ready, refused, wrote, used>>
    BY DEF ReadHelo, ClientCanRead, server, history
<1>a. conn \in Conn /\ Local(conn) BY <1>0, ItsConnection
<1>b. /\ Head(s2c[conn]) = Helo(conn) /\ HeloPending(conn)
      /\ Tail(s2c[conn]) = <<>> \/ \E y \in {PongYes(conn), PongNo} : MayPong(conn, y) /\ Tail(s2c[conn]) = <<y>>
  <2>1. ASSUME MayPong(conn, Head(s2c[conn])) PROVE FALSE
      BY <1>0, <2>1, PongFields DEF MayPong
  <2> QED BY <1>0, <1>a, <2>1, ClientReads
<1>c. Helo(conn)' = Helo(conn) BY <1>0 DEF Helo, PasswordAuth
<1>1. TypeOK' BY <1>0 DEF TypeOK
<1>2. Client' BY <1>0, <1>b, <1>c DEF Client, HeloPending
<1>3. ASSUME NEW c \in Conn PROVE Local(c)'
  <2>1. Local(c) OBVIOUS
  <2>2. CASE c # conn
    <3>1. ~Live(c)' BY <1>0, <2>2 DEF Live, Client
    <3>2. s2c'[c] = s2c[c] BY <1>0, <2>2 DEF TypeOK
    <3> QED BY <1>0, <2>1, <2>2, <3>1, <3>2, Untouched DEF Local
  <2>3. CASE c = conn
    <3>0. Helo(c)' = Helo(c) /\ Ping(c)' = Ping(c) /\ PongYes(c)' = PongYes(c) /\ Matching' = Matching
        BY <1>0, SameMessages
    <3>1. s2c'[c] = Tail(s2c[c]) BY <1>0, <2>3 DEF TypeOK
    <3>2. ASSUME NEW y PROVE MayPong(c, y) => MayPong(c, y)' BY <1>0, <3>0 DEF MayPong
    <3>3. c \notin broken BY <1>0, <2>1, <2>3 DEF Local, ToClient
    <3>4. ToClient(c)' BY <1>0, <1>b, <2>3, <3>0, <3>1, <3>2, <3>3 DEF ToClient
    <3>5. ToServer(c)' BY <1>0, <2>1, <3>0 DEF Local, ToServer
    <3>6. Agreement(c)' BY <1>0, <2>1, <3>0 DEF Local, Agreement
    <3>7. Stage(c)' BY <1>0, <2>1, <3>0 DEF Local, Stage, Live
    <3>8. Order(c)' BY <1>0, <2>1 DEF Local, Order, Live
    <3> QED BY <3>4, <3>5, <3>6, <3>7, <3>8 DEF Local
  <2> QED BY <2>2, <2>3
<1> QED BY <1>1, <1>2, <1>3

LEMMA WritePingInv ==
    ASSUME Inv, WritePing
    PROVE  Inv'
<1> USE DEF Inv
<1>0. /\ cpc = "ping"
      /\ UNCHANGED <<login, listening, ss, ping, received, dialed, cOpen, sOpen, broken, s2c,
                     conn, w, ready, refused, wrote, used>>
    BY DEF WritePing, server, history
<1>a. conn \in Conn /\ Local(conn) BY <1>0, ItsConnection
<1>b. /\ helo = Helo(conn) /\ ss[conn] \notin {"none", "helo"}
    BY <1>0 DEF Client
<1>c. [t |-> "PING", hostname |-> "client", salt |-> conn,
       digest |-> KeyDigest(conn, "client", helo.nonce, ccred.key),
       user |-> IF helo.auth = 0 THEN NoUser ELSE ccred.user,
       password |-> IF helo.auth = 0 THEN <<>>
                    ELSE PasswordDigest(helo.auth, ccred.user, ccred.password)] = Ping(conn)
  <2>1. /\ helo.nonce = conn /\ conn # 0
        /\ helo.auth = IF PasswordAuth THEN conn ELSE 0
      BY <1>a, <1>b, HeloFields DEF Conn
  <2>2. CASE PasswordAuth BY <2>1, <2>2 DEF Ping
  <2>3. CASE ~PasswordAuth BY <2>1, <2>3 DEF Ping
  <2> QED BY <2>2, <2>3
<1>d. PICK ok \in BOOLEAN : /\ ClientSends(conn, Ping(conn), ok)
                            /\ IF ok THEN Goto("pong") ELSE Returns
    BY <1>c DEF WritePing
<1>e. Helo(conn)' = Helo(conn) BY <1>0 DEF Helo, PasswordAuth
<1>f. \/ cpc' = "pong" /\ UNCHANGED <<op, arg, helo>>
      \/ ok = FALSE /\ cpc' = "idle" /\ op' = "none" /\ arg' = NoMsg
    BY <1>d DEF Goto, Returns
<1>g. \/ Live(conn) /\ ok = TRUE /\ c2s' = [c2s EXCEPT ![conn] = Append(@, Ping(conn))]
      \/ ~Live(conn) /\ c2s' = c2s
    BY <1>d DEF ClientSends, Live
<1>1. TypeOK' BY <1>0, <1>f, <1>g DEF TypeOK
<1>2. Client' BY <1>0, <1>b, <1>e, <1>f DEF Client
<1>3. ASSUME NEW c \in Conn PROVE Local(c)'
  <2>1. Local(c) OBVIOUS
  <2>2. CASE c # conn \/ c2s' = c2s
    <3>1. ~Live(c)' BY <1>0, <1>g, <1>a, <2>2 DEF Live, Client, TypeOK, Local, Stage
    <3>2. c2s'[c] = c2s[c] BY <1>g, <2>2 DEF TypeOK
    <3> QED BY <1>0, <2>1, <2>2, <3>1, <3>2, Untouched DEF Local
  <2>3. CASE c = conn /\ Live(conn) /\ ok = TRUE /\ c2s' = [c2s EXCEPT ![conn] = Append(@, Ping(conn))]
    <3>0. Helo(c)' = Helo(c) /\ Ping(c)' = Ping(c) /\ PongYes(c)' = PongYes(c) /\ Matching' = Matching
        BY <1>0, SameMessages
    <3>1. c2s[c] = <<>> /\ wrote[c] = <<>> /\ ss[c] = "ping"
        BY <1>0, <1>b, <2>1, <2>3 DEF Local, Stage
    <3>2. c2s'[c] = <<Ping(c)>> /\ cpc' = "pong" BY <1>f, <2>3, <3>1 DEF TypeOK
    <3>3. ToServer(c)' BY <1>0, <2>1, <2>3, <3>0, <3>1, <3>2 DEF Local, ToServer, Live
    <3>4. ASSUME NEW y PROVE MayPong(c, y) => MayPong(c, y)' BY <1>0, <3>0 DEF MayPong
    <3>5. HeloPending(c) => HeloPending(c)' BY <1>0, <3>2 DEF HeloPending
    <3>6. ToClient(c)' BY <1>0, <2>1, <3>0, <3>4, <3>5 DEF Local, ToClient
    <3>7. Agreement(c)' BY <1>0, <2>1, <3>0 DEF Local, Agreement
    <3>8. Stage(c)' BY <1>0, <3>0, <3>1, <3>2 DEF Stage
    <3>9. Order(c)' BY <1>0, <2>1, <3>1 DEF Local, Order
    <3> QED BY <3>3, <3>6, <3>7, <3>8, <3>9 DEF Local
  <2> QED BY <1>g, <2>2, <2>3
<1> QED BY <1>1, <1>2, <1>3

\* The client accepts the PONG of a session in the transport phase, and of no other.
LEMMA ReadPongInv ==
    ASSUME Inv, ReadPong
    PROVE  Inv'
<1> USE DEF Inv
<1>0. /\ cpc = "pong" /\ s2c[conn] # <<>> /\ s2c' = [s2c EXCEPT ![conn] = Tail(@)]
      /\ UNCHANGED <<login, listening, ss, ping, received, dialed, cOpen, sOpen, broken, c2s,
                     conn, w, wrote, used>>
    BY DEF ReadPong, ClientCanRead, server
<1>a. conn \in Conn /\ conn <= dialed /\ Local(conn) BY <1>0, ItsConnection
<1>b. helo = Helo(conn) BY <1>0 DEF Client
<1>c. MayPong(conn, Head(s2c[conn])) /\ Tail(s2c[conn]) = <<>>
    BY <1>0, <1>a, ClientReads DEF HeloPending
<1>d. \/ /\ Matching /\ ss[conn] \in {"transport", "batch", "closed"}
         /\ ready' = ready \cup {conn} /\ UNCHANGED refused
         /\ IF op = "reconnect" THEN Returns ELSE Goto("write")
      \/ /\ ss[conn] = "closed" /\ refused' = refused \cup {conn} /\ UNCHANGED ready
         /\ Returns
  <2>1. CASE Head(s2c[conn]) = PongYes(conn) /\ Matching /\ ss[conn] \in {"transport", "batch", "closed"}
      BY <1>b, <2>1, PongIsAccepted DEF ReadPong
  <2>2. CASE Head(s2c[conn]) = PongNo /\ ss[conn] = "closed"
      BY <2>2, PongIsRefused DEF ReadPong
  <2> QED BY <1>c, <2>1, <2>2 DEF MayPong
<1>e. \/ cpc' = "write" /\ op \in {"write", "batch"} /\ UNCHANGED <<op, arg, helo>>
      \/ cpc' = "idle" /\ op' = "none" /\ arg' = NoMsg
    BY <1>0, <1>d DEF Goto, Returns, Client, TypeOK
<1>1. TypeOK'
  <2>1. conn \in 1..dialed BY <1>a DEF TypeOK, Conn
  <2>2. ready \subseteq 1..dialed /\ refused \subseteq 1..dialed BY DEF TypeOK
  <2>3. ready' \subseteq 1..dialed /\ refused' \subseteq 1..dialed BY <1>d, <2>1, <2>2
  <2> QED BY <1>0, <1>e, <2>3 DEF TypeOK
<1>2. Client' BY <1>0, <1>e DEF Client
<1>3. ASSUME NEW c \in Conn PROVE Local(c)'
  <2>1. Local(c) OBVIOUS
  <2>2. CASE c # conn
    <3>1. ~Live(c)' BY <1>0, <2>2 DEF Live, Client
    <3>2. s2c'[c] = s2c[c] BY <1>0, <2>2 DEF TypeOK
    <3>3. (c \in ready' <=> c \in ready) /\ (c \in refused' <=> c \in refused) BY <1>d, <2>2
    <3> QED BY <1>0, <2>1, <2>2, <3>1, <3>2, <3>3, Untouched DEF Local
  <2>3. CASE c = conn
    <3>0. Helo(c)' = Helo(c) /\ Ping(c)' = Ping(c) /\ PongYes(c)' = PongYes(c) /\ Matching' = Matching
        BY <1>0, SameMessages
    <3>1. s2c'[c] = <<>> BY <1>0, <1>c, <2>3 DEF TypeOK
    <3>2. ToClient(c)' BY <3>1 DEF ToClient
    <3>3. ToServer(c)' BY <1>0, <2>1, <3>0 DEF Local, ToServer
    <3>4. Agreement(c)' BY <1>0, <1>d, <2>1, <2>3, <3>0 DEF Local, Agreement
    <3>5. Stage(c)'
      <4>1. Live(c)' => ss[c] = "transport"
          BY <1>0, <1>d, <2>1, <2>3 DEF Local, ToServer, Stage, Live
      <4>2. Live(c)' => c \in ready' BY <1>0, <1>d, <2>3, <4>1
      <4> QED BY <1>0, <1>e, <4>1, <4>2 DEF Stage
    <3>6. Order(c)' BY <1>0, <1>d, <2>1 DEF Local, Order, Live
    <3> QED BY <3>2, <3>3, <3>4, <3>5, <3>6 DEF Local
  <2> QED BY <2>2, <2>3
<1> QED BY <1>1, <1>2, <1>3

\* What is written on a live connection: it comes behind everything that was
\* written before, and the session has a matching handshake or reads nothing.
LEMMA AppendOrder ==
    ASSUME NEW c \in Conn, TypeOK, Local(c), Live(c), cpc = "write", NEW x \in Msg,
           NEW y \in {Data(x), Cut}, ss[c] = "transport",
           Live(c)', UNCHANGED <<ss[c], received[c], ready>>,
           c2s'[c] = Append(c2s[c], y),
           wrote'[c] = IF y = Cut THEN wrote[c] ELSE Append(wrote[c], x)
    PROVE  Order(c)'
<1> DEFINE q == c2s[c]
           r == received[c]
           o == wrote[c]
<1>0. q \in Seq(Payload) /\ r \in Seq(Msg) /\ o \in Seq(Msg) /\ y \in Payload
    BY DataFields DEF Local, ToServer, TypeOK
<1>1. c \in ready BY DEF Local, Stage
<1>2. /\ IsPrefixOf(r, o)
      /\ \A i \in 1..Len(q) : (\A k \in 1..i : q[k] # Cut) =>
            /\ Len(r) + i <= Len(o)
            /\ q[i] = Data(o[Len(r) + i])
      /\ Uncut(q) => Len(o) = Len(r) + Len(q)
    BY DEF Local, Order
<1>3. IsPrefixOf(received[c], wrote[c])'
  <2>1. wrote'[c] = o \/ wrote'[c] = Append(o, x) OBVIOUS
  <2> QED BY <1>0, <1>2, <2>1 DEF IsPrefixOf
<1>4. ASSUME NEW i \in 1..Len(c2s'[c]), \A k \in 1..i : c2s'[c][k] # Cut
      PROVE  /\ Len(r) + i <= Len(wrote'[c])
             /\ c2s'[c][i] = Data(wrote'[c][Len(r) + i])
  <2>0. i \in 1..(Len(q) + 1) /\ \A k \in 1..Len(q) : c2s'[c][k] = q[k] BY <1>0
  <2>1. CASE i \in 1..Len(q)
    <3>1. \A k \in 1..i : q[k] # Cut BY <1>0, <1>4, <2>0, <2>1
    <3>2. Len(r) + i <= Len(o) /\ q[i] = Data(o[Len(r) + i]) BY <1>2, <2>1, <3>1
    <3>3. /\ Len(o) <= Len(wrote'[c])
          /\ Len(r) + i \in 1..Len(o) => wrote'[c][Len(r) + i] = o[Len(r) + i]
        BY <1>0
    <3>4. Len(r) + i \in 1..Len(o) /\ Len(r) + i <= Len(wrote'[c])
        BY <1>0, <2>1, <3>2, <3>3
    <3> QED BY <2>0, <2>1, <3>2, <3>3, <3>4
  <2>2. CASE i = Len(q) + 1
    <3>1. c2s'[c][i] = y /\ y # Cut BY <1>0, <1>4, <2>2
    <3>2. y = Data(x) /\ wrote'[c] = Append(o, x) BY <3>1
    <3>3. Uncut(q)
      <4> SUFFICES ASSUME NEW k \in 1..Len(q) PROVE q[k] # Cut BY DEF Uncut
      <4>1. k \in 1..i BY <1>0, <2>2
      <4> QED BY <1>4, <2>0, <4>1
    <3>4. Len(r) + i = Len(o) + 1
      <4>1. Len(o) = Len(r) + Len(q) BY <1>2, <3>3, Zenon
      <4>2. Len(r) \in Nat /\ Len(q) \in Nat BY <1>0
      <4> HIDE DEF q, r, o
      <4> QED BY <2>2, <4>1, <4>2
    <3>5. wrote'[c][Len(o) + 1] = x /\ Len(wrote'[c]) = Len(o) + 1 BY <1>0, <3>2
    <3> QED BY <1>0, <3>1, <3>2, <3>4, <3>5
  <2> QED BY <2>0, <2>1, <2>2
<1>5. Uncut(c2s[c])' => Len(wrote'[c]) = Len(r) + Len(c2s'[c])
  <2> SUFFICES ASSUME Uncut(c2s[c])' PROVE Len(wrote'[c]) = Len(r) + Len(c2s'[c]) OBVIOUS
  <2>1. /\ Len(c2s'[c]) = Len(q) + 1 /\ c2s'[c][Len(q) + 1] = y
        /\ \A k \in 1..Len(q) : c2s'[c][k] = q[k] /\ k \in 1..Len(c2s'[c])
        /\ Len(q) + 1 \in 1..Len(c2s'[c])
      BY <1>0
  <2>2. y # Cut BY <2>1 DEF Uncut
  <2>3. Uncut(q) BY <2>1 DEF Uncut
  <2>4. Len(wrote'[c]) = Len(o) + 1 BY <1>0, <2>2
  <2>5. Len(o) = Len(r) + Len(q) BY <1>2, <2>3, Zenon
  <2>6. Len(r) \in Nat /\ Len(q) \in Nat BY <1>0
  <2> HIDE DEF q, r, o
  <2> QED BY <2>1, <2>4, <2>5, <2>6
<1> QED BY <1>1, <1>2, <1>3, <1>4, <1>5 DEF Local, Order

\* A write reaches the connection the client holds, or is lost with an older one.
LEMMA SentInv ==
    ASSUME Inv, cpc = "write", NEW x \in Msg, NEW y \in {Data(x), Cut}, Returns,
           UNCHANGED <<login, listening, ss, ping, received, dialed, cOpen, sOpen, broken, s2c,
                       conn, w, ready, refused, used>>,
           \/ /\ Live(conn) /\ c2s' = [c2s EXCEPT ![conn] = Append(@, y)]
              /\ wrote' = IF y = Cut THEN wrote ELSE [wrote EXCEPT ![conn] = Append(@, x)]
           \/ c2s' = c2s /\ wrote' = wrote
           \/ ~Live(conn) /\ c2s' = c2s /\ wrote' = [wrote EXCEPT ![conn] = Append(@, x)]
    PROVE  Inv'
<1> USE DEF Inv
<1>0. conn \in Conn /\ conn <= dialed /\ Local(conn) BY ItsConnection
<1>a. cpc' = "idle" /\ op' = "none" /\ arg' = NoMsg /\ helo' = NoMessage BY DEF Returns
<1>b. wrote[conn] \in Seq(Msg) /\ Append(wrote[conn], x) \in Seq(Msg) BY <1>0 DEF TypeOK
<1>1. TypeOK'
  <2>1. wrote' \in [Conn -> Seq(Msg)] BY <1>0, <1>b DEF TypeOK
  <2>2. DOMAIN c2s' = Conn BY DEF TypeOK
  <2> QED BY <1>a, <2>1, <2>2 DEF TypeOK
<1>2. Client' BY <1>a DEF Client
<1>3. ASSUME NEW c \in Conn PROVE Local(c)'
  <2>0. Local(c) OBVIOUS
  <2>a. Helo(c)' = Helo(c) /\ Ping(c)' = Ping(c) /\ PongYes(c)' = PongYes(c) /\ Matching' = Matching
      BY SameMessages
  <2>1. CASE c2s'[c] = c2s[c] /\ wrote'[c] = wrote[c]
    <3>1. ToServer(c)' /\ ToClient(c)' /\ Agreement(c)' /\ Order(c)' BY <1>a, <2>0, <2>1, Untouched
    <3>2. Stage(c)' BY <1>a, <2>0, <2>1, <2>a DEF Local, Stage, Live
    <3> QED BY <3>1, <3>2 DEF Local
  <2>2. CASE c # conn BY <2>1, <2>2 DEF TypeOK
  <2>b. HeloPending(c)' = HeloPending(c) BY <1>a DEF HeloPending
  <2>c. ASSUME NEW z PROVE MayPong(c, z) => MayPong(c, z)' BY <2>a DEF MayPong
  <2>d. ToClient(c)' BY <2>0, <2>a, <2>b, <2>c DEF Local, ToClient
  <2>e. Agreement(c)' BY <2>0, <2>a DEF Local, Agreement
  <2>f. Live(c)' <=> Live(c) BY DEF Live
  <2>3. CASE c = conn /\ ~Live(conn) /\ c2s' = c2s /\ wrote' = [wrote EXCEPT ![conn] = Append(@, x)]
    <3>1. wrote'[c] = Append(wrote[c], x) /\ wrote[c] \in Seq(Msg) /\ received[c] \in Seq(Msg)
        BY <2>3 DEF TypeOK
    <3>2. ToServer(c)' BY <1>0, <2>0, <2>3, <2>a DEF Local, ToServer, TypeOK, Conn
    <3>3. Stage(c)' BY <2>3, <2>f DEF Stage
    <3>4. IsPrefixOf(received[c], wrote[c])'
        BY <2>0, <3>1 DEF Local, Order, IsPrefixOf
    <3>5. ASSUME NEW i \in Nat, i > 0, Len(received[c]) + i <= Len(wrote[c])
          PROVE  /\ Len(received[c]) + i <= Len(wrote'[c])
                 /\ wrote'[c][Len(received[c]) + i] = wrote[c][Len(received[c]) + i]
        BY <3>1, <3>5
    <3>6. Order(c)'
      <4>1. ss[c] = "transport" => c2s[c] \in Seq(Payload) BY <2>0 DEF Local, ToServer
      <4>2. ASSUME ss[c] = "transport", NEW i \in 1..Len(c2s[c]), \A k \in 1..i : c2s[c][k] # Cut
            PROVE  /\ Len(received[c]) + i <= Len(wrote'[c])
                   /\ c2s[c][i] = Data(wrote'[c][Len(received[c]) + i])
        <5>1. /\ Len(received[c]) + i <= Len(wrote[c])
              /\ c2s[c][i] = Data(wrote[c][Len(received[c]) + i])
            BY <2>0, <4>2 DEF Local, Order
        <5>2. i \in Nat /\ i > 0 BY <4>1, <4>2
        <5> QED BY <3>5, <5>1, <5>2
      <4> QED BY <2>0, <2>3, <2>f, <3>4, <4>2 DEF Local, Order
    <3> QED BY <2>d, <2>e, <3>2, <3>3, <3>6 DEF Local
  <2>4. CASE /\ c = conn /\ Live(conn) /\ c2s' = [c2s EXCEPT ![conn] = Append(@, y)]
             /\ wrote' = IF y = Cut THEN wrote ELSE [wrote EXCEPT ![conn] = Append(@, x)]
    <3>1. /\ c2s'[c] = Append(c2s[c], y) /\ y \in Payload
          /\ wrote'[c] = IF y = Cut THEN wrote[c] ELSE Append(wrote[c], x)
        BY <2>4, DataFields DEF TypeOK
    <3>2. /\ c2s[c] \in Seq(Payload)
          /\ c \in ready => ss[c] \in {"transport", "batch"}
          /\ c \notin ready => ss[c] \in {"none", "helo", "ping", "pong"}
                               /\ (ss[c] = "pong" => ping[c] \in Payload)
        BY <2>0, <2>4 DEF Local, Stage, ToServer
    <3>3. c2s'[c] \in Seq(Payload) BY <3>1, <3>2
    <3>4. ToServer(c)'
      <4>1. ~(c > dialed') BY <1>0, <2>4 DEF TypeOK, Conn
      <4>2. ss[c] # "closed" /\ c \in sOpen' /\ c \notin broken' BY <2>4, <3>2 DEF Live
      <4>3. ss[c] = "pong" => ping[c] \in Payload BY <3>2
      <4> QED BY <3>3, <4>1, <4>2, <4>3 DEF ToServer
    <3>5. Stage(c)' BY <1>a, <3>2, <3>3 DEF Stage
    <3>6. Order(c)'
      <4>1. CASE ss[c] = "transport" BY <2>0, <2>4, <2>f, <3>1, <4>1, AppendOrder
      <4>2. CASE ss[c] # "transport"
        <5>1. wrote[c] \in Seq(Msg) /\ received[c] \in Seq(Msg) BY DEF TypeOK
        <5>2. wrote'[c] = wrote[c] \/ wrote'[c] = Append(wrote[c], x) BY <3>1
        <5>3. IsPrefixOf(received[c], wrote[c])' BY <2>0, <5>1, <5>2 DEF Local, Order, IsPrefixOf
        <5> QED BY <2>0, <4>2, <5>3 DEF Local, Order
      <4> QED BY <4>1, <4>2
    <3> QED BY <2>d, <2>e, <3>4, <3>5, <3>6 DEF Local
  <2>5. CASE c2s' = c2s /\ wrote' = wrote BY <2>1, <2>5
  <2> QED BY <2>2, <2>3, <2>4, <2>5
<1> QED BY <1>1, <1>2, <1>3

LEMMA WriteInv ==
    ASSUME Inv, Write
    PROVE  Inv'
<1>1. arg \in Msg BY DEF Write, Inv, Client
<1>2. PICK ok \in BOOLEAN :
          /\ ClientSends(conn, [t |-> "data", m |-> arg], ok)
          /\ wrote' = IF ok THEN [wrote EXCEPT ![conn] = Append(@, arg)] ELSE wrote
    BY DEF Write
<1>3. [t |-> "data", m |-> arg] = Data(arg) /\ Data(arg) # Cut BY <1>1, DataFields DEF Data
<1>4. \/ Live(conn) /\ c2s' = [c2s EXCEPT ![conn] = Append(@, Data(arg))]
                    /\ wrote' = [wrote EXCEPT ![conn] = Append(@, arg)]
      \/ c2s' = c2s /\ wrote' = wrote
      \/ ~Live(conn) /\ c2s' = c2s /\ wrote' = [wrote EXCEPT ![conn] = Append(@, arg)]
    BY <1>2, <1>3 DEF ClientSends, Live
<1> QED BY <1>1, <1>3, <1>4, SentInv DEF Write, server

\* A writer that follows another connection than the client's has one that is
\* closed: the batch fails.
LEMMA WriterIsOld ==
    ASSUME Inv, NEW y, NEW ok, w # conn, w # 0, ClientSends(w, y, ok)
    PROVE  c2s' = c2s /\ ok = FALSE
BY DEF Inv, Client, ClientSends

LEMMA WriteBatchInv ==
    ASSUME Inv, WriteBatch
    PROVE  Inv'
<1>1. arg \in Msg BY DEF WriteBatch, Inv, Client
<1>2. [t |-> "data", m |-> arg] = Data(arg) /\ Data(arg) # Cut BY <1>1, DataFields DEF Data
<1>3. \/ Live(conn) /\ c2s' = [c2s EXCEPT ![conn] = Append(@, Data(arg))]
                    /\ wrote' = [wrote EXCEPT ![conn] = Append(@, arg)]
      \/ c2s' = c2s /\ wrote' = wrote
      \/ ~Live(conn) /\ c2s' = c2s /\ wrote' = [wrote EXCEPT ![conn] = Append(@, arg)]
  <2>1. CASE w = 0
    <3>1. c2s' = c2s /\ wrote' = wrote BY <2>1 DEF WriteBatch
    <3> QED BY <3>1
  <2>2. CASE w # 0
    <3>1. PICK ok \in BOOLEAN :
              /\ ClientSends(w, [t |-> "data", m |-> arg], ok)
              /\ wrote' = IF ok THEN [wrote EXCEPT ![w] = Append(@, arg)] ELSE wrote
        BY <2>2 DEF WriteBatch
    <3>2. CASE w # conn
      <4>1. c2s' = c2s /\ ok = FALSE BY <2>2, <3>1, <3>2, WriterIsOld
      <4> QED BY <3>1, <4>1
    <3>3. CASE w = conn BY <1>2, <3>1, <3>3 DEF ClientSends, Live
    <3> QED BY <3>2, <3>3
  <2> QED BY <2>1, <2>2
<1>4. /\ cpc = "write" /\ Returns
      /\ UNCHANGED <<login, listening, ss, ping, received, dialed, cOpen, sOpen, broken, s2c,
                     conn, w, ready, refused, used>>
    BY DEF WriteBatch, server
<1> QED BY <1>1, <1>2, <1>3, <1>4, SentInv

LEMMA WriteBatchFailsInv ==
    ASSUME Inv, WriteBatchFails
    PROVE  Inv'
<1>1. arg \in Msg BY DEF WriteBatchFails, Inv, Client
<1>2. [t |-> "cut"] = Cut BY DEF Cut
<1>3. PICK ok \in BOOLEAN : ClientSends(w, Cut, ok) BY <1>2 DEF WriteBatchFails
<1>4. \/ Live(conn) /\ c2s' = [c2s EXCEPT ![conn] = Append(@, Cut)]
      \/ c2s' = c2s
  <2>1. CASE w = conn BY <1>3, <2>1 DEF ClientSends, Live
  <2>2. CASE w # conn BY <1>3, <2>2, WriterIsOld DEF WriteBatchFails
  <2> QED BY <2>1, <2>2
<1>5. /\ cpc = "write" /\ Returns /\ wrote' = wrote
      /\ UNCHANGED <<login, listening, ss, ping, received, dialed, cOpen, sOpen, broken, s2c,
                     conn, w, ready, refused, used>>
    BY DEF WriteBatchFails, server, history
<1> QED BY <1>1, <1>4, <1>5, SentInv

\* Without its connection the client has none open.
LEMMA DisconnectInv ==
    ASSUME Inv, cpc = "idle", Disconnect,
           \/ cpc' = "dial" /\ op' = "reconnect"
           \/ UNCHANGED <<cpc, op>>,
           UNCHANGED <<login, listening, ss, ping, received, dialed, sOpen, broken, c2s, arg, w, helo,
                       ready, refused, wrote, used>>
    PROVE  Inv'
<1> USE DEF Inv
<1>0. /\ cOpen' = {} /\ conn' = 0
      /\ s2c' = [c \in Conn |-> IF c = conn THEN <<>> ELSE s2c[c]]
    BY DEF Disconnect, Client
<1>1. TypeOK' BY <1>0 DEF TypeOK
<1>2. Client' BY <1>0 DEF Client
<1>3. ASSUME NEW c \in Conn PROVE Local(c)'
  <2>0. Local(c) OBVIOUS
  <2>1. ~Live(c)' /\ c \notin cOpen' /\ c # conn' BY <1>0 DEF Live, Conn
  <2>2. CASE s2c'[c] = s2c[c]
    BY <2>0, <2>1, <2>2, Untouched DEF Local
  <2>3. CASE c = conn
    <3>0. Helo(c)' = Helo(c) /\ Ping(c)' = Ping(c) /\ PongYes(c)' = PongYes(c) /\ Matching' = Matching
        BY SameMessages
    <3>1. s2c'[c] = <<>> BY <1>0, <2>3
    <3>2. ToClient(c)' BY <3>1 DEF ToClient
    <3>3. ToServer(c)' BY <2>0, <3>0 DEF Local, ToServer
    <3>4. Agreement(c)' BY <2>0, <3>0 DEF Local, Agreement
    <3>5. Stage(c)' BY <2>1 DEF Stage
    <3>6. Order(c)' BY <2>0, <2>1 DEF Local, Order
    <3> QED BY <3>2, <3>3, <3>4, <3>5, <3>6 DEF Local
  <2> QED BY <1>0, <2>2, <2>3
<1> QED BY <1>1, <1>2, <1>3

LEMMA ReconnectInv ==
    ASSUME Inv, Reconnect
    PROVE  Inv'
BY DisconnectInv DEF Reconnect, server, history

LEMMA CloseInv ==
    ASSUME Inv, Close
    PROVE  Inv'
BY DisconnectInv DEF Close, server, history

LEMMA ServerStopsInv ==
    ASSUME Inv, ServerStops
    PROVE  Inv'
<1> USE DEF Inv
<1>0. /\ listening' = FALSE /\ broken' = broken \cup {c \in sOpen : ss[c] = "none"}
      /\ c2s' = [c \in Conn |-> IF ss[c] = "none" THEN <<>> ELSE c2s[c]]
      /\ UNCHANGED <<login, ss, ping, received, dialed, cOpen, sOpen, s2c,
                     cpc, op, arg, conn, w, helo, ready, refused, wrote, used>>
    BY DEF ServerStops, client, history
<1>1. TypeOK' BY <1>0 DEF TypeOK
<1>2. Client'
  <2>1. Helo(conn)' = Helo(conn) BY <1>0 DEF Helo, PasswordAuth
  <2> QED BY <1>0, <2>1 DEF Client
<1>3. ASSUME NEW c \in Conn PROVE Local(c)'
  <2>0. Local(c) OBVIOUS
  <2>1. CASE ss[c] # "none"
    <3>1. c2s'[c] = c2s[c] /\ (c \in broken' <=> c \in broken) BY <1>0, <2>1
    <3> QED BY <1>0, <2>0, <3>1, Untouched DEF Local
  <2>2. CASE ss[c] = "none"
    <3>0. /\ c2s'[c] = <<>> /\ <<>> \in Seq(Payload) /\ s2c[c] = <<>>
          /\ c \notin ready /\ c \notin refused
        BY <1>0, <2>0, <2>2 DEF Local, ToClient, HeloPending, MayPong, Agreement
    <3>1. ~Live(c)' BY <1>0, <2>2 DEF Live
    <3>2. ToServer(c)' BY <1>0, <2>0, <2>2, <3>0 DEF Local, ToServer
    <3>3. ToClient(c)' /\ Agreement(c)' BY <1>0, <2>2, <3>0 DEF ToClient, Agreement
    <3>4. Stage(c)' BY <3>1 DEF Stage
    <3>5. Order(c)' BY <1>0, <2>0, <2>2 DEF Local, Order
    <3> QED BY <3>2, <3>3, <3>4, <3>5 DEF Local
  <2> QED BY <2>1, <2>2
<1> QED BY <1>1, <1>2, <1>3

\* A connection that ends takes what is on its way with it.
LEMMA EmptiedOrder ==
    ASSUME NEW c \in Conn, Order(c), UNCHANGED <<received[c], wrote[c], ready>>,
           c2s'[c] = <<>>, ~Live(c)', ss'[c] \in {ss[c], "closed"}
    PROVE  Order(c)'
<1>1. \A i \in 1..Len(c2s'[c]) : FALSE OBVIOUS
<1> QED BY <1>1 DEF Order

LEMMA BreakInv ==
    ASSUME Inv, NEW d \in Conn, Break(d)
    PROVE  Inv'
<1> USE DEF Inv
<1>0. /\ d \in cOpen /\ broken' = broken \cup {d}
      /\ c2s' = [c2s EXCEPT ![d] = <<>>] /\ s2c' = [s2c EXCEPT ![d] = <<>>]
      /\ UNCHANGED <<login, listening, ss, ping, received, dialed, cOpen, sOpen,
                     cpc, op, arg, conn, w, helo, ready, refused, wrote, used>>
    BY DEF Break, server, client, history
<1>1. TypeOK' BY <1>0 DEF TypeOK
<1>2. Client'
  <2>1. Helo(conn)' = Helo(conn) BY <1>0 DEF Helo, PasswordAuth
  <2> QED BY <1>0, <2>1 DEF Client
<1>3. ASSUME NEW c \in Conn PROVE Local(c)'
  <2>0. Local(c) OBVIOUS
  <2>1. CASE c # d
    <3>1. c2s'[c] = c2s[c] /\ s2c'[c] = s2c[c] /\ (c \in broken' <=> c \in broken)
        BY <1>0, <2>1 DEF TypeOK
    <3> QED BY <1>0, <2>0, <3>1, Untouched DEF Local
  <2>2. CASE c = d
    <3>0. c2s'[c] = <<>> /\ <<>> \in Seq(Payload) /\ s2c'[c] = <<>> /\ c \in broken'
        BY <1>0, <2>2 DEF TypeOK
    <3>a. Ping(c)' = Ping(c) /\ Matching' = Matching BY <1>0, SameMessages
    <3>1. ~Live(c)' BY <3>0 DEF Live
    <3>2. ToServer(c)' BY <1>0, <2>0, <3>0, <3>a DEF Local, ToServer
    <3>3. ToClient(c)' BY <3>0 DEF ToClient
    <3>4. Agreement(c)' BY <1>0, <2>0, <3>a DEF Local, Agreement
    <3>5. Stage(c)' BY <3>1 DEF Stage
    <3>6. Order(c)' BY <1>0, <2>0, <3>0, <3>1, EmptiedOrder DEF Local
    <3> QED BY <3>2, <3>3, <3>4, <3>5, <3>6 DEF Local
  <2> QED BY <2>1, <2>2
<1> QED BY <1>1, <1>2, <1>3

\* A step of session d concerns its connection only.
LEMMA SessionFrame ==
    ASSUME Inv, NEW d \in Conn, NEW l \in {"helo", "ping", "pong", "transport", "batch", "closed"},
           Session(d, l), ss[d] \in {"none", "helo"} \/ l \notin {"none", "helo"},
           UNCHANGED <<login, listening, dialed, cOpen, broken, cpc, op, arg, conn, w, helo,
                       ready, refused, wrote, used>>,
           sOpen' = sOpen \/ sOpen' = sOpen \ {d},
           DOMAIN c2s' = Conn, DOMAIN s2c' = Conn, DOMAIN ping' = Conn,
           received' \in [Conn -> Seq(Msg)],
           \A c \in Conn : c # d => UNCHANGED <<c2s[c], s2c[c], ping[c], received[c]>>,
           Local(d)'
    PROVE  Inv'
<1> USE DEF Inv
<1>1. TypeOK' BY ZenonT(30) DEF TypeOK, Session
<1>2. ss'[d] = l /\ \A c \in Conn : c # d => ss'[c] = ss[c] BY DEF TypeOK, Session
<1>3. Client'
  <2>1. Helo(conn)' = Helo(conn) BY DEF Helo, PasswordAuth
  <2>2. ASSUME cpc \in {"ping", "pong"} PROVE ss'[conn] \notin {"none", "helo"}
    <3>1. conn \in Conn /\ ss[conn] \notin {"none", "helo"} BY <2>2, ItsConnection DEF Client
    <3> QED BY <1>2, <3>1
  <2> QED BY <2>1, <2>2 DEF Client
<1>4. ASSUME NEW c \in Conn, c # d PROVE Local(c)'
  <2>1. c \in sOpen' <=> c \in sOpen BY <1>4
  <2>2. Local(c) OBVIOUS
  <2> QED BY <1>2, <1>4, <2>1, <2>2, Untouched DEF Local
<1> QED BY <1>1, <1>3, <1>4

LEMMA AcceptInv ==
    ASSUME Inv, NEW d \in Conn, Accept(d)
    PROVE  Inv'
<1> USE DEF Inv
<1>0. /\ d \in sOpen /\ ss[d] = "none" /\ Session(d, "helo")
      /\ UNCHANGED <<login, listening, ping, received, dialed, cOpen, sOpen, broken, c2s, s2c,
                     cpc, op, arg, conn, w, helo, ready, refused, wrote, used>>
    BY DEF Accept, ServerFrame, wire, client, history
<1>1. Local(d) /\ ss'[d] = "helo" BY <1>0 DEF TypeOK, Session
<1>2. /\ Ping(d)' = Ping(d) /\ Matching' = Matching /\ (Live(d)' <=> Live(d))
      /\ s2c[d] = <<>> /\ ~(d > dialed)
    BY <1>0, <1>1, SameMessages DEF Live, Local, ToClient, HeloPending, MayPong, TypeOK, Conn
<1>3. ToServer(d)' BY <1>0, <1>1, <1>2 DEF Local, ToServer
<1>4. ToClient(d)' /\ Agreement(d)'
    BY <1>0, <1>1, <1>2 DEF Local, ToClient, Agreement
<1>5. Stage(d)' BY <1>0, <1>1, <1>2 DEF Local, Stage
<1>6. Order(d)' BY <1>0, <1>1, <1>2 DEF Local, Order
<1>7. Local(d)' BY <1>3, <1>4, <1>5, <1>6 DEF Local
<1> QED BY <1>0, <1>7, SessionFrame DEF TypeOK

\* A session that ends: the client may still read what was sent to it.
LEMMA ClosedInv ==
    ASSUME Inv, NEW d \in Conn, SessionClose(d), ss[d] # "none",
           UNCHANGED <<login, listening, received, dialed, cOpen, broken, cpc, op, arg, conn, w, helo,
                       ready, refused, wrote, used>>,
           DOMAIN ping' = Conn, \A c \in Conn : c # d => UNCHANGED ping[c],
           \/ s2c' = s2c
           \/ ss[d] = "pong" /\ d \notin broken /\ s2c' = [s2c EXCEPT ![d] = Append(@, PongNo)]
    PROVE  Inv'
<1> USE DEF Inv
<1>0. /\ Local(d) /\ ss'[d] = "closed" /\ d \notin sOpen' /\ c2s'[d] = <<>> /\ ~Live(d)'
      /\ <<>> \in Seq(Payload) /\ ~(d > dialed)
    BY DEF TypeOK, SessionClose, Session, Live, Local, ToServer
<1>1. Helo(d)' = Helo(d) /\ PongYes(d)' = PongYes(d) /\ Matching' = Matching BY SameMessages
<1>2. ToServer(d)' BY <1>0 DEF ToServer
<1>3. HeloPending(d) => HeloPending(d)' BY <1>0 DEF HeloPending
<1>4. ASSUME NEW y PROVE MayPong(d, y) => MayPong(d, y)' BY <1>0, <1>1 DEF MayPong
<1>5. ToClient(d)'
  <2>1. CASE s2c' = s2c BY <1>0, <1>1, <1>3, <1>4, <2>1 DEF Local, ToClient
  <2>2. CASE ss[d] = "pong" /\ d \notin broken /\ s2c' = [s2c EXCEPT ![d] = Append(@, PongNo)]
    <3>1. s2c[d] = <<>> \/ (s2c[d] = <<Helo(d)>> /\ HeloPending(d))
        BY <1>0, <2>2 DEF Local, ToClient, MayPong
    <3>2. s2c'[d] = Append(s2c[d], PongNo) BY <2>2 DEF TypeOK
    <3>3. MayPong(d, PongNo)' BY <1>0 DEF MayPong, PongNo
    <3>4. \/ s2c'[d] = <<PongNo>>
          \/ s2c'[d] = <<Helo(d), PongNo>> /\ HeloPending(d)
        BY <3>1, <3>2, AppendShort
    <3> QED BY <1>1, <1>3, <2>2, <3>3, <3>4 DEF ToClient
  <2> QED BY <2>1, <2>2
<1>6. Agreement(d)' BY <1>0, <1>1 DEF Local, Agreement
<1>7. Stage(d)' BY <1>0 DEF Stage
<1>8. Order(d)' BY <1>0, EmptiedOrder DEF Local
<1>9. Local(d)' BY <1>2, <1>5, <1>6, <1>7, <1>8 DEF Local
<1>10. /\ DOMAIN c2s' = Conn /\ DOMAIN s2c' = Conn
       /\ \A c \in Conn : c # d => UNCHANGED <<c2s[c], s2c[c]>>
    BY DEF TypeOK, SessionClose
<1>11. received' \in [Conn -> Seq(Msg)] /\ Session(d, "closed") /\ sOpen' = sOpen \ {d}
    BY DEF TypeOK, SessionClose
<1> QED BY <1>9, <1>10, <1>11, SessionFrame

LEMMA SessionEndsInv ==
    ASSUME Inv, NEW d \in Conn, SessionEnds(d)
    PROVE  Inv'
BY ClosedInv DEF SessionEnds, ServerFrame, client, history, Inv, TypeOK

LEMMA WriteHeloInv ==
    ASSUME Inv, NEW d \in Conn, WriteHelo(d)
    PROVE  Inv'
<1> USE DEF Inv
<1>0. /\ ss[d] = "helo" /\ Local(d)
      /\ UNCHANGED <<login, listening, ping, received, dialed, cOpen, broken,
                     cpc, op, arg, conn, w, helo, ready, refused, wrote, used>>
    BY DEF WriteHelo, ServerFrame, client, history
<1>a. s2c[d] = <<>> BY <1>0 DEF Local, ToClient, HeloPending, MayPong
<1>1. PICK ok \in BOOLEAN :
          /\ ServerSends(d, Helo(d), ok)
          /\ \/ ok /\ Session(d, "ping") /\ UNCHANGED <<sOpen, c2s>>
             \/ ~ok /\ SessionClose(d)
    BY DEF WriteHelo, Helo
<1>2. CASE ~ok /\ SessionClose(d)
  <2>1. s2c' = s2c BY <1>1, <1>2 DEF ServerSends
  <2> QED BY <1>0, <1>2, <2>1, ClosedInv DEF TypeOK
<1>3. CASE ok /\ Session(d, "ping") /\ UNCHANGED <<sOpen, c2s>>
  <2>0. ss'[d] = "ping" BY <1>3 DEF TypeOK, Session
  <2>1. \/ d \notin broken /\ s2c' = [s2c EXCEPT ![d] = Append(@, Helo(d))]
        \/ s2c' = s2c
      BY <1>1 DEF ServerSends
  <2>2. /\ DOMAIN s2c' = Conn /\ \A c \in Conn : c # d => s2c'[c] = s2c[c]
        /\ s2c'[d] = <<>> \/ (s2c'[d] = <<Helo(d)>> /\ d \notin broken)
      BY <1>a, <2>1 DEF TypeOK
  <2>3. /\ Helo(d)' = Helo(d) /\ Ping(d)' = Ping(d) /\ Matching' = Matching /\ (Live(d)' <=> Live(d))
      BY <1>0, <1>3, SameMessages DEF Live
  <2>4. HeloPending(d)' BY <1>0, <2>0 DEF HeloPending, Client
  <2>5. ToServer(d)' BY <1>0, <1>3, <2>0, <2>3 DEF Local, ToServer
  <2>6. ToClient(d)' BY <1>0, <2>2, <2>3, <2>4 DEF ToClient
  <2>7. Agreement(d)' BY <1>0, <2>0, <2>3 DEF Local, Agreement
  <2>8. Stage(d)' BY <1>0, <1>3, <2>0, <2>3 DEF Local, Stage
  <2>9. Order(d)' BY <1>0, <1>3, <2>0, <2>3 DEF Local, Order
  <2>10. Local(d)' BY <2>5, <2>6, <2>7, <2>8, <2>9 DEF Local
  <2> QED BY <1>0, <1>3, <2>2, <2>10, SessionFrame DEF TypeOK
<1> QED BY <1>1, <1>2, <1>3

LEMMA ReadPingInv ==
    ASSUME Inv, NEW d \in Conn, ReadPing(d)
    PROVE  Inv'
<1> USE DEF Inv
<1>0. /\ ss[d] = "ping" /\ Local(d) /\ c2s[d] # <<>> /\ Session(d, "pong")
      /\ ping' = [ping EXCEPT ![d] = Head(c2s[d])] /\ c2s' = [c2s EXCEPT ![d] = Tail(@)]
      /\ UNCHANGED <<login, listening, received, dialed, cOpen, sOpen, broken, s2c,
                     cpc, op, arg, conn, w, helo, ready, refused, wrote, used>>
    BY DEF ReadPing, ServerCanRead, ServerFrame, client, history
<1>1. ss'[d] = "pong" /\ ping'[d] = Head(c2s[d]) /\ c2s'[d] = Tail(c2s[d])
    BY <1>0 DEF TypeOK, Session
<1>2. /\ Helo(d)' = Helo(d) /\ Ping(d)' = Ping(d) /\ PongYes(d)' = PongYes(d)
      /\ Matching' = Matching /\ (Live(d)' <=> Live(d))
    BY <1>0, SameMessages DEF Live
<1>3. /\ c2s'[d] \in Seq(Payload)
      /\ c2s[d] = <<Ping(d)>> => ping'[d] = Ping(d) /\ c2s'[d] = <<>>
      /\ c2s[d] \in Seq(Payload) => ping'[d] \in Payload
  <2>1. CASE c2s[d] = <<Ping(d)>>
    <3>1. Head(c2s[d]) = Ping(d) /\ Tail(c2s[d]) = <<>> /\ <<>> \in Seq(Payload) BY <2>1
    <3>2. c2s[d] \in Seq(Payload) => Head(c2s[d]) \in Payload BY <1>0
    <3> QED BY <1>1, <3>1, <3>2
  <2>2. CASE c2s[d] \in Seq(Payload)
    <3>1. Head(c2s[d]) \in Payload /\ Tail(c2s[d]) \in Seq(Payload) BY <1>0, <2>2, HeadTail
    <3>2. c2s[d] = <<Ping(d)>> => Head(c2s[d]) = Ping(d) /\ Tail(c2s[d]) = <<>> OBVIOUS
    <3> QED BY <1>1, <3>1, <3>2
  <2> QED BY <1>0, <2>1, <2>2 DEF Local, ToServer
<1>5. ToServer(d)'
  <2>1. d \in sOpen /\ d \notin broken BY <1>0 DEF Local, ToServer
  <2>2. ~(d > dialed) BY <2>1 DEF TypeOK, Conn
  <2>3. c2s[d] = <<Ping(d)>> \/ c2s[d] \in Seq(Payload) BY <1>0 DEF Local, ToServer
  <2> QED BY <1>0, <1>1, <1>2, <1>3, <2>1, <2>2, <2>3 DEF ToServer
<1>6. HeloPending(d) => HeloPending(d)' BY <1>0, <1>1 DEF HeloPending
<1>7. ToClient(d)' BY <1>0, <1>2, <1>6 DEF Local, ToClient, MayPong
<1>8. Agreement(d)' BY <1>0, <1>1, <1>2 DEF Local, Agreement
<1>9. Stage(d)' BY <1>0, <1>1, <1>2, <1>3 DEF Local, Stage
<1>10. Order(d)' BY <1>0, <1>1, <1>2 DEF Local, Order
<1>11. Local(d)' BY <1>5, <1>7, <1>8, <1>9, <1>10 DEF Local
<1>12. /\ DOMAIN c2s' = Conn /\ DOMAIN s2c' = Conn /\ DOMAIN ping' = Conn
       /\ received' \in [Conn -> Seq(Msg)]
       /\ \A c \in Conn : c # d => UNCHANGED <<c2s[c], s2c[c], ping[c], received[c]>>
    BY <1>0 DEF TypeOK
<1> QED BY <1>0, <1>11, <1>12, SessionFrame

\* The session enters the transport phase only for the client's own PING, with
\* nothing behind it.
LEMMA WritePongInv ==
    ASSUME Inv, NEW d \in Conn, WritePong(d)
    PROVE  Inv'
<1> USE DEF Inv
<1>0. /\ ss[d] = "pong" /\ Local(d) /\ ping' = [ping EXCEPT ![d] = NoMessage]
      /\ UNCHANGED <<login, listening, received, dialed, cOpen, broken,
                     cpc, op, arg, conn, w, helo, ready, refused, wrote, used>>
    BY DEF WritePong, ServerFrame, client, history
<1>a. DOMAIN ping' = Conn /\ \A c \in Conn : c # d => UNCHANGED ping[c] BY <1>0 DEF TypeOK
<1>b. s2c[d] = <<>> \/ (s2c[d] = <<Helo(d)>> /\ HeloPending(d))
    BY <1>0 DEF Local, ToClient, MayPong
<1>1. PICK ok \in BOOLEAN :
          \/ /\ PingValid(d)
             /\ ServerSends(d, [t |-> "PONG", ok |-> TRUE, hostname |-> "server",
                                digest |-> KeyDigest(ping[d].salt, "server", d, scred.key)], ok)
             /\ IF ok THEN Session(d, "transport") /\ UNCHANGED <<sOpen, c2s>> ELSE SessionClose(d)
          \/ /\ ~PingValid(d)
             /\ ServerSends(d, [t |-> "PONG", ok |-> FALSE, hostname |-> "server",
                                digest |-> <<>>], ok)
             /\ SessionClose(d)
    BY DEF WritePong
<1>2. CASE ~PingValid(d)
  <2>1. ServerSends(d, PongNo, ok) /\ SessionClose(d) BY <1>1, <1>2 DEF PongNo
  <2>2. \/ s2c' = s2c
        \/ d \notin broken /\ s2c' = [s2c EXCEPT ![d] = Append(@, PongNo)]
      BY <2>1 DEF ServerSends
  <2> QED BY <1>0, <1>a, <2>1, <2>2, ClosedInv
<1>3. CASE PingValid(d)
  <2>0. ping[d] = Ping(d) /\ c2s[d] = <<>>
    <3>1. ping[d].t = "PING" BY <1>3 DEF PingValid
    <3>2. ping[d] \notin Payload BY <3>1, DataFields
    <3> QED BY <1>0, <3>2 DEF Local, ToServer
  <2>1. Matching BY <1>3, <2>0, ValidMatches
  <2>2. [t |-> "PONG", ok |-> TRUE, hostname |-> "server",
         digest |-> KeyDigest(ping[d].salt, "server", d, scred.key)] = PongYes(d)
      BY <2>0, PingFields DEF PongYes
  <2>3. /\ ServerSends(d, PongYes(d), ok)
        /\ IF ok THEN Session(d, "transport") /\ UNCHANGED <<sOpen, c2s>> ELSE SessionClose(d)
      BY <1>1, <1>3, <2>2
  <2>4. CASE ~ok
    <3>1. s2c' = s2c /\ SessionClose(d) BY <2>3, <2>4 DEF ServerSends
    <3> QED BY <1>0, <1>a, <3>1, ClosedInv
  <2>5. CASE ok
    <3>0. Session(d, "transport") /\ ss'[d] = "transport" /\ sOpen' = sOpen /\ c2s' = c2s
        BY <2>3, <2>5 DEF TypeOK, Session
    <3>1. /\ Helo(d)' = Helo(d) /\ Ping(d)' = Ping(d) /\ PongYes(d)' = PongYes(d)
          /\ Matching' = Matching /\ (Live(d)' <=> Live(d))
        BY <1>0, <3>0, SameMessages DEF Live
    <3>2. \/ d \notin broken /\ s2c' = [s2c EXCEPT ![d] = Append(@, PongYes(d))]
          \/ s2c' = s2c
        BY <2>3 DEF ServerSends
    <3>3. DOMAIN s2c' = Conn /\ \A c \in Conn : c # d => s2c'[c] = s2c[c] BY <3>2 DEF TypeOK
    <3>4. HeloPending(d) => HeloPending(d)' BY <1>0, <3>0 DEF HeloPending
    <3>5. MayPong(d, PongYes(d))' BY <2>1, <3>0, <3>1 DEF MayPong
    <3>6. ToClient(d)'
      <4>1. CASE s2c' = s2c BY <1>0, <1>b, <3>1, <3>4, <4>1 DEF Local, ToClient
      <4>2. CASE d \notin broken /\ s2c' = [s2c EXCEPT ![d] = Append(@, PongYes(d))]
        <5>1. s2c'[d] = Append(s2c[d], PongYes(d)) BY <4>2 DEF TypeOK
        <5>2. \/ s2c'[d] = <<PongYes(d)>>
              \/ s2c'[d] = <<Helo(d), PongYes(d)>> /\ HeloPending(d)
            BY <1>b, <5>1, AppendShort
        <5> QED BY <1>0, <3>1, <3>4, <3>5, <4>2, <5>2 DEF ToClient
      <4> QED BY <3>2, <4>1, <4>2
    <3>7. ToServer(d)' BY <1>0, <2>0, <3>0, <3>1 DEF Local, ToServer
    <3>8. Agreement(d)' BY <1>0, <2>1, <3>0, <3>1 DEF Local, Agreement
    <3>9. Live(d) => cpc = "pong" /\ wrote[d] = <<>>
      <4>1. ASSUME Live(d) PROVE cpc # "dial" BY <4>1 DEF Live, Client, Conn
      <4>2. ping[d] \notin Payload BY <2>0, PingFields, DataFields
      <4>3. d \notin ready BY <1>0 DEF Local, Agreement
      <4> QED BY <1>0, <4>1, <4>2, <4>3 DEF Local, Stage, TypeOK
    <3>10. Stage(d)' BY <1>0, <2>0, <3>0, <3>1, <3>9 DEF Stage
    <3>11. Order(d)'
      <4>1. c2s'[d] = <<>> /\ \A i \in 1..Len(c2s'[d]) : FALSE BY <2>0, <3>0
      <4>2. received'[d] = <<>> BY <1>0 DEF Local, Order
      <4>3. Live(d)' => Len(wrote'[d]) = Len(received'[d]) + Len(c2s'[d])
          BY <1>0, <3>1, <3>9, <4>1, <4>2
      <4> QED BY <1>0, <3>0, <4>1, <4>2, <4>3 DEF Local, Order
    <3>12. Local(d)' BY <3>6, <3>7, <3>8, <3>10, <3>11 DEF Local
    <3>13. DOMAIN c2s' = Conn /\ received' \in [Conn -> Seq(Msg)] BY <1>0, <3>0 DEF TypeOK
    <3> QED BY <1>0, <1>a, <3>0, <3>3, <3>12, <3>13, SessionFrame
  <2> QED BY <2>4, <2>5
<1> QED BY <1>2, <1>3

\* The data at the head of the connection is what the client wrote next.
LEMMA HandlerReadsInv ==
    ASSUME Inv, NEW d \in Conn, HandlerReads(d)
    PROVE  Inv'
<1> USE DEF Inv
<1>0. /\ ss[d] = "transport" /\ Local(d) /\ c2s[d] # <<>> /\ Head(c2s[d]).t = "data"
      /\ received' = [received EXCEPT ![d] = Append(@, Head(c2s[d]).m)]
      /\ c2s' = [c2s EXCEPT ![d] = Tail(@)]
      /\ UNCHANGED <<login, listening, ss, ping, dialed, cOpen, sOpen, broken, s2c,
                     cpc, op, arg, conn, w, helo, ready, refused, wrote, used>>
    BY DEF HandlerReads, ServerCanRead, ServerFrame, client, history
<1> DEFINE q == c2s[d]
           r == received[d]
           o == wrote[d]
           x == Head(q).m
<1>1. q \in Seq(Payload) /\ r \in Seq(Msg) /\ o \in Seq(Msg) BY <1>0 DEF Local, ToServer, TypeOK
<1>2. /\ Head(q) \in Payload /\ Head(q) = q[1] /\ Tail(q) \in Seq(Payload) /\ Len(q) = Len(Tail(q)) + 1
      /\ \A i \in 1..Len(Tail(q)) : Tail(q)[i] = q[i + 1]
    BY <1>0, <1>1, HeadTail
<1>3. q[1] # Cut /\ q[1] = Data(x) /\ x \in Msg BY <1>0, <1>2, DataFields
<1>4. c2s'[d] = Tail(q) /\ received'[d] = Append(r, x) /\ Append(r, x) \in Seq(Msg)
    BY <1>0, <1>1, <1>3 DEF TypeOK
<1>5. /\ Helo(d)' = Helo(d) /\ Ping(d)' = Ping(d) /\ PongYes(d)' = PongYes(d)
      /\ Matching' = Matching /\ (Live(d)' <=> Live(d))
    BY <1>0, SameMessages DEF Live
<1>6. ToServer(d)'
  <2>1. d \in sOpen /\ d \notin broken /\ ~(d > dialed) BY <1>0 DEF Local, ToServer
  <2> QED BY <1>0, <1>2, <1>4, <2>1 DEF ToServer
<1>7. ToClient(d)' BY <1>0, <1>5 DEF Local, ToClient, MayPong, HeloPending
<1>8. Agreement(d)' BY <1>0, <1>5 DEF Local, Agreement
<1>9. Stage(d)'
  <2>1. Live(d) => (d \in ready /\ cpc \in {"idle", "write", "dial"})
      BY <1>0 DEF Local, Stage, Order, TypeOK
  <2> QED BY <1>0, <1>5, <2>1 DEF Stage
<1>10. Order(d)'
  <2>1. /\ IsPrefixOf(r, o) /\ d \in ready
        /\ \A i \in 1..Len(q) : (\A k \in 1..i : q[k] # Cut) =>
              /\ Len(r) + i <= Len(o)
              /\ q[i] = Data(o[Len(r) + i])
        /\ Live(d) /\ Uncut(q) => Len(o) = Len(r) + Len(q)
      BY <1>0 DEF Local, Order
  <2>2. Len(r) \in Nat /\ Len(o) \in Nat /\ Len(q) \in Nat /\ Len(Tail(q)) \in Nat /\ 1 \in 1..Len(q)
      BY <1>1, <1>2
  <2>3. Len(r) + 1 <= Len(o) /\ x = o[Len(r) + 1]
    <3>1. \A k \in 1..1 : q[k] # Cut BY <1>3
    <3>2. Len(r) + 1 <= Len(o) /\ q[1] = Data(o[Len(r) + 1]) BY <2>1, <2>2, <3>1
    <3>3. o[Len(r) + 1] \in Msg BY <1>1, <2>2, <3>2
    <3> QED BY <1>3, <3>2, <3>3, DataFields
  <2>4. Len(Append(r, x)) = Len(r) + 1 BY <1>1
  <2>5. IsPrefixOf(Append(r, x), o)
    <3>1. Len(r) <= Len(o) /\ r = SubSeq(o, 1, Len(r)) BY <2>1 DEF IsPrefixOf
    <3>2. \A i \in 1..Len(r) : r[i] = o[i] BY <1>1, <3>1
    <3>3. SubSeq(o, 1, Len(r) + 1) \in Seq(Msg) /\ Len(SubSeq(o, 1, Len(r) + 1)) = Len(r) + 1
          /\ \A i \in 1..(Len(r) + 1) : SubSeq(o, 1, Len(r) + 1)[i] = o[i]
        BY <1>1, <2>2, <2>3
    <3>4. \A i \in 1..(Len(r) + 1) : Append(r, x)[i] = o[i]
        BY <1>1, <2>3, <3>2
    <3>5. Append(r, x) = SubSeq(o, 1, Len(r) + 1)
        BY <1>4, <2>4, <3>3, <3>4, SameElements
    <3> QED BY <2>3, <2>4, <3>5 DEF IsPrefixOf
  <2> HIDE DEF q, r, o, x
  <2>6. ASSUME NEW i \in 1..Len(Tail(q)), \A k \in 1..i : Tail(q)[k] # Cut
        PROVE  /\ Len(Append(r, x)) + i <= Len(o)
               /\ Tail(q)[i] = Data(o[Len(Append(r, x)) + i])
    <3>1. ASSUME NEW k \in 1..(i + 1) PROVE q[k] # Cut
      <4>1. CASE k = 1 BY <1>3, <4>1
      <4>2. CASE k # 1
        <5>1. k - 1 \in 1..i /\ k - 1 \in 1..Len(Tail(q)) /\ (k - 1) + 1 = k BY <2>2, <2>6, <3>1, <4>2
        <5> QED BY <1>2, <2>6, <5>1
      <4> QED BY <4>1, <4>2
    <3>2. i + 1 \in 1..Len(q) BY <1>2, <2>2
    <3>3. Len(r) + (i + 1) <= Len(o) /\ q[i + 1] = Data(o[Len(r) + (i + 1)]) BY <2>1, <3>1, <3>2
    <3>4. Len(r) + (i + 1) = Len(Append(r, x)) + i BY <2>2, <2>4
    <3> QED BY <1>2, <3>3, <3>4
  <2>7. Live(d) /\ Uncut(Tail(q)) => Len(o) = Len(Append(r, x)) + Len(Tail(q))
    <3> SUFFICES ASSUME Live(d), Uncut(Tail(q)) PROVE Len(o) = Len(Append(r, x)) + Len(Tail(q))
        OBVIOUS
    <3>1. ASSUME NEW k \in 1..Len(q) PROVE q[k] # Cut
      <4>1. CASE k = 1 BY <1>3, <4>1
      <4>2. CASE k # 1
        <5>1. k - 1 \in 1..Len(Tail(q)) /\ (k - 1) + 1 = k BY <1>2, <2>2, <4>2
        <5> QED BY <1>2, <5>1 DEF Uncut
      <4> QED BY <4>1, <4>2
    <3>2. Len(o) = Len(r) + Len(q) BY <2>1, <3>1 DEF Uncut
    <3> QED BY <1>2, <2>2, <2>4, <3>2
  <2>8. ss'[d] = "transport" /\ d \in ready' /\ wrote'[d] = o BY <1>0, <2>1 DEF o
  <2>9. c2s'[d] = Tail(q) /\ received'[d] = Append(r, x) BY <1>4
  <2> QED BY <1>5, <2>5, <2>6, <2>7, <2>8, <2>9 DEF Order, Uncut
<1>11. Local(d)' BY <1>6, <1>7, <1>8, <1>9, <1>10 DEF Local
<1>12. /\ DOMAIN c2s' = Conn /\ DOMAIN s2c' = Conn /\ DOMAIN ping' = Conn
       /\ received' \in [Conn -> Seq(Msg)]
       /\ \A c \in Conn : c # d => UNCHANGED <<c2s[c], s2c[c], ping[c], received[c]>>
    BY <1>0, <1>4 DEF TypeOK
<1>13. Session(d, "transport") BY <1>0 DEF Session, TypeOK
<1> QED BY <1>0, <1>11, <1>12, <1>13, SessionFrame

\* Behind a cut batch nothing is received.
LEMMA ReadRestInv ==
    ASSUME Inv, NEW d \in Conn, ReadRest(d)
    PROVE  Inv'
<1> USE DEF Inv
<1>0. /\ Local(d) /\ c2s[d] # <<>> /\ ss[d] \in {"transport", "batch"}
      /\ UNCHANGED <<login, listening, ping, received, dialed, cOpen, broken, s2c,
                     cpc, op, arg, conn, w, helo, ready, refused, wrote, used>>
    BY DEF ReadRest, ServerCanRead, ServerFrame, client, history
<1>1. CASE SessionClose(d)
  BY <1>0, <1>1, ClosedInv DEF TypeOK
<1>2. CASE Session(d, "batch") /\ c2s' = [c2s EXCEPT ![d] = Tail(@)] /\ sOpen' = sOpen
  <2>0. ss'[d] = "batch" /\ c2s'[d] = Tail(c2s[d]) BY <1>2 DEF TypeOK, Session
  <2>1. Tail(c2s[d]) \in Seq(Payload) BY <1>0, HeadTail DEF Local, ToServer
  <2>2. /\ Helo(d)' = Helo(d) /\ Ping(d)' = Ping(d) /\ PongYes(d)' = PongYes(d)
        /\ Matching' = Matching /\ (Live(d)' <=> Live(d))
      BY <1>0, <1>2, SameMessages DEF Live
  <2>3. d \in sOpen /\ d \notin broken /\ ~(d > dialed) BY <1>0 DEF Local, ToServer
  <2>4. ToServer(d)' BY <1>0, <1>2, <2>0, <2>1, <2>3 DEF ToServer
  <2>5. ToClient(d)' BY <1>0, <2>0, <2>2 DEF Local, ToClient, MayPong, HeloPending
  <2>6. Agreement(d)' BY <1>0, <2>0, <2>2 DEF Local, Agreement
  <2>7. Stage(d)'
    <3>1. Live(d) => cpc = "dial" \/ (d \in ready /\ cpc \in {"idle", "write"})
        BY <1>0 DEF Local, Stage, Order, TypeOK
    <3> QED BY <1>0, <2>0, <2>2, <3>1 DEF Stage
  <2>8. Order(d)' BY <1>0, <2>0 DEF Local, Order
  <2>9. Local(d)' BY <2>4, <2>5, <2>6, <2>7, <2>8 DEF Local
  <2>10. /\ DOMAIN c2s' = Conn /\ received' \in [Conn -> Seq(Msg)]
         /\ \A c \in Conn : c # d => c2s'[c] = c2s[c]
      BY <1>0, <1>2 DEF TypeOK
  <2> QED BY <1>0, <1>2, <2>9, <2>10, SessionFrame DEF TypeOK
<1>3. CASE ss[d] = "batch" /\ c2s' = [c2s EXCEPT ![d] = Tail(@)] /\ UNCHANGED <<ss, sOpen>>
  <2>1. Session(d, "batch") BY <1>3 DEF Session, TypeOK
  <2> QED BY <1>2, <1>3, <2>1
<1> QED BY <1>1, <1>2, <1>3 DEF ReadRest

LEMMA StutterInv ==
    ASSUME Inv, UNCHANGED vars
    PROVE  Inv'
<1> USE DEF Inv
<1>0. UNCHANGED <<login, listening, ss, ping, received, dialed, cOpen, sOpen, broken, c2s, s2c,
                  cpc, op, arg, conn, w, helo, ready, refused, wrote, used>>
    BY DEF vars, server, wire, client, history
<1>1. TypeOK' BY <1>0 DEF TypeOK
<1>2. Client'
  <2>1. Helo(conn)' = Helo(conn) BY <1>0 DEF Helo, PasswordAuth
  <2> QED BY <1>0, <2>1 DEF Client
<1>3. ASSUME NEW c \in Conn PROVE Local(c)'
  <2>1. Local(c) OBVIOUS
  <2> QED BY <1>0, <2>1, Untouched DEF Local
<1> QED BY <1>1, <1>2, <1>3

LEMMA NextInv == Inv /\ [Next]_vars => Inv'
<1> SUFFICES ASSUME Inv, [Next]_vars PROVE Inv' OBVIOUS
<1>1. ASSUME NEW m \in Msg, NEW o \in {"write", "batch"}, StartWrite(o, m) PROVE Inv'
    BY <1>1, StartWriteInv
<1>2. CASE Reconnect \/ Close BY <1>2, ReconnectInv, CloseInv
<1>3. CASE ClientStep
  BY <1>3, DialInv, AuthInv, AuthFailsInv, ReadHeloInv, WritePingInv, ReadPongInv,
     HandshakeFailsInv, WriteInv, WriteBatchInv, WriteBatchFailsInv DEF ClientStep
<1>4. CASE ServerStops BY <1>4, ServerStopsInv
<1>5. ASSUME NEW c \in Conn, SessionStep(c) PROVE Inv'
  BY <1>5, AcceptInv, WriteHeloInv, ReadPingInv, WritePongInv, HandlerReadsInv, ReadRestInv,
     SessionEndsInv DEF SessionStep
<1>6. ASSUME NEW c \in Conn, Break(c) PROVE Inv' BY <1>6, BreakInv
<1>7. CASE UNCHANGED vars BY <1>7, StutterInv
<1> QED BY <1>1, <1>2, <1>3, <1>4, <1>5, <1>6, <1>7 DEF Next

\* Every step of the client, the server, each session and the network keeps the
\* invariant.
THEOREM Invariant == Spec => []Inv
BY InitInv, NextInv, PTL DEF Spec

-----------------------------------------------------------------------------
(* The properties of Forward *)

\* Every variable has its type: neither end keeps a connection that was never dialed.
THEOREM TypeCorrect == Spec => []TypeOK
<1>1. Inv => TypeOK BY DEF Inv
<1> QED BY <1>1, Invariant, PTL

\* The client dials only when it holds no connection, and lets one go only when it
\* closes it: it never has a connection open that it has no hold of.
THEOREM ClientHoldsItsConnection == Spec => []OneConnection
<1>1. Inv => OneConnection BY DEF Inv, Client, OneConnection
<1> QED BY <1>1, Invariant, PTL

\* Both ends come to the same result of the handshake, whatever breaks on the way,
\* and whatever the client writes to a connection whose handshake failed.
THEOREM HandshakeIsAgreed == Spec => []HandshakeAgrees
<1>1. Inv => HandshakeAgrees
  <2> SUFFICES ASSUME Inv PROVE HandshakeAgrees OBVIOUS
  <2>1. ASSUME NEW c \in Conn
        PROVE  /\ c \in ready => ss[c] \in {"transport", "batch", "closed"} /\ Matching
               /\ ss[c] \in {"transport", "batch"} => Matching /\ c \notin refused
      BY DEF Inv, Local, Agreement
  <2>2. ready \subseteq Conn BY ForwardAssumption DEF Inv, TypeOK, Conn
  <2> QED BY <2>1, <2>2 DEF HandshakeAgrees
<1> QED BY <1>1, Invariant, PTL

\* What a handler reads from a connection is what the client wrote to it, in order
\* and without a gap, and only behind a successful handshake.
THEOREM ReceivedInOrder == Spec => []ReceivedPrefix
<1>1. Inv => ReceivedPrefix BY DEF Inv, Local, Order, ReceivedPrefix
<1> QED BY <1>1, Invariant, PTL

=============================================================================
