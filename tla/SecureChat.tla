----------------------------- MODULE SecureChat -----------------------------
(***************************************************************************)
(* ConnectionEngine over the relay: relay_cli.cpp and gui/EngineWorker.cpp *)
(* connect, run the client or the server side of the handshake, then send  *)
(* and receive encrypted chat messages.  The relay is RoomBroadcast.       *)
(*                                                                         *)
(* Cryptography is symbolic.  A connection makes at most one KEM key pair, *)
(* named after it; an encapsulation to it is named after the pair's owner  *)
(* and the host; HKDF is a function of the shared secret, so the session   *)
(* key is named like the encapsulation.  A signature says who signed what. *)
(***************************************************************************)
EXTENDS RoomBroadcast

CONSTANTS Identity,  \* identity key pairs (client.id files)
          IdOf       \* the identity each connection has loaded

ASSUME ChatAssumption == IdOf \in [Client -> Identity]

VARIABLES
  stage,  \* "off": not connected; "hello", "await": runClientHandshake;
          \* "listen": runServerHandshake; "ready": sessionReady_; "over"
  key,    \* session_'s key, meaningless before "ready"
  peer,   \* identity behind peerFingerprintOut, meaningless before "ready"
  wire,   \* what each connection's frames carry: frame n is wire[c][n]
  rd,     \* how many frames of got the connection has read
  shown   \* messages shown to the user, as <<sender, frame number>>

evars == <<stage, key, peer, wire, rd, shown>>
vars == <<bvars, evars>>

-----------------------------------------------------------------------------
(* What frames carry *)
PublicKey(c) == [kind |-> "pk", of |-> c, by |-> c]
Ciphertext(c, h) == [kind |-> "ct", of |-> c, by |-> h]
Blob == [kind : {"pk", "ct"}, of : Client, by : Client]
Secret(ct) == [of |-> ct.of, by |-> ct.by]
Key == [of : Client, by : Client]

\* Fault: the host's signature does not cover the client's public key.
ServerMsgUnbound(ct, pk) == [role |-> "server", first |-> ct, pk |-> PublicKey(ct.by)]

\* "E2EE-HANDSHAKE-v1|client|" pk and "E2EE-HANDSHAKE-v1|server|" ct pk
ClientMsg(pk) == [role |-> "client", first |-> pk, pk |-> pk]
ServerMsg(ct, pk) == [role |-> "server", first |-> ct, pk |-> pk]
Signed == [role : {"client", "server"}, first : Blob, pk : Blob]

Sign(id, msg) == [by |-> id, msg |-> msg]
Verify(id, msg, sig) == sig = Sign(id, msg)

\* HandshakeHello and HandshakeResponse have the same fields in the same
\* places, so either parses as the other; only the signature tells them apart.
Hello(c) ==
  [type |-> "handshake", blob |-> PublicKey(c), id |-> IdOf[c],
   sig |-> Sign(IdOf[c], ClientMsg(PublicKey(c)))]

Response(pk, h) ==
  [type |-> "handshake", blob |-> Ciphertext(pk.of, h), id |-> IdOf[h],
   sig |-> Sign(IdOf[h], ServerMsg(Ciphertext(pk.of, h), pk))]

Chat(k) == [type |-> "chat", key |-> k]

Payload ==
  [type : {"handshake"}, blob : Blob, id : Identity, sig : [by : Identity, msg : Signed]]
    \cup [type : {"chat"}, key : Key]

GoodHello(m) == m.type = "handshake" /\ Verify(m.id, ClientMsg(m.blob), m.sig)
GoodResponse(m, c) ==
  m.type = "handshake" /\ Verify(m.id, ServerMsg(m.blob, PublicKey(c)), m.sig)

-----------------------------------------------------------------------------
EngineTypeOK ==
  /\ stage \in [Client -> {"off", "hello", "await", "listen", "ready", "over"}]
  /\ key \in [Client -> Key]
  /\ peer \in [Client -> Identity]
  /\ wire \in [Client -> Seq(Payload)]
  /\ rd \in [Client -> Nat]
  /\ shown \in [Client -> Seq(Client \X Nat)]
  /\ \A c \in Client : sent[c] = Len(wire[c]) /\ rd[c] <= Len(got[c])

ChatTypeOK == TypeOK /\ EngineTypeOK

ChatInit ==
  /\ Init
  /\ stage = [c \in Client |-> "off"]
  /\ key = [c \in Client |-> [of |-> c, by |-> c]]
  /\ peer = IdOf
  /\ wire = [c \in Client |-> <<>>]
  /\ rd = [c \in Client |-> 0]
  /\ shown = [c \in Client |-> <<>>]

\* connect_url returns true once the 101 answer is there; the user has chosen
\* which side of the handshake to run.
Connect(c) ==
  /\ Open(c)
  /\ \E side \in {"hello", "listen"} : stage' = [stage EXCEPT ![c] = side]
  /\ UNCHANGED <<key, peer, wire, rd, shown>>

\* Fault: a frame is put on the wire a second time.
TransmitTwice(c, m) ==
  /\ Send(c)
  /\ wire' = [wire EXCEPT ![c] = Append(Append(@, m), m)]

Transmit(c, m) ==
  /\ Send(c)
  /\ wire' = [wire EXCEPT ![c] = Append(@, m)]

\* The next frame on c's connection, and what it carries.
Unread(c) == rd[c] < Len(got[c])
Front(c) == got[c][rd[c] + 1]
Carried(c) == wire[Front(c).from][Front(c).n]
ReadOne(c) == Unread(c) /\ rd' = [rd EXCEPT ![c] = @ + 1]

Shut(c) ==
  /\ closed' = [closed EXCEPT ![c] = TRUE]
  /\ stage' = [stage EXCEPT ![c] = "over"]
  /\ UNCHANGED <<status, room, sent, taken, pend, got>>

-----------------------------------------------------------------------------
(* clientHandshakeInternal, serverHandshakeInternal *)
SendHello(c) ==
  /\ stage[c] = "hello"
  /\ Transmit(c, Hello(c))
  /\ stage' = [stage EXCEPT ![c] = "await"]
  /\ UNCHANGED <<key, peer, rd, shown>>

\* Fault: the result of sending the response is not looked at.
HostAnswerUnsent(h) ==
  LET m == Carried(h) IN
  /\ stage[h] = "listen" /\ ReadOne(h) /\ Front(h).intact /\ GoodHello(m)
  /\ key' = [key EXCEPT ![h] = Secret(Ciphertext(m.blob.of, h))]
  /\ peer' = [peer EXCEPT ![h] = m.id]
  /\ stage' = [stage EXCEPT ![h] = "ready"]
  /\ UNCHANGED <<bvars, wire, shown>>

\* The host takes the first frame it gets, answers it and has its session at
\* once; nothing tells it that the answer arrived.
HostAnswer(h) ==
  LET m == Carried(h) IN
  /\ stage[h] = "listen" /\ ReadOne(h) /\ Front(h).intact /\ GoodHello(m)
  /\ Transmit(h, Response(m.blob, h))
  /\ key' = [key EXCEPT ![h] = Secret(Ciphertext(m.blob.of, h))]
  /\ peer' = [peer EXCEPT ![h] = m.id]
  /\ stage' = [stage EXCEPT ![h] = "ready"]
  /\ UNCHANGED shown

ConnectorReady(c) ==
  LET m == Carried(c) IN
  /\ stage[c] = "await" /\ ReadOne(c) /\ Front(c).intact /\ GoodResponse(m, c)
  /\ key' = [key EXCEPT ![c] = Secret(m.blob)]
  /\ peer' = [peer EXCEPT ![c] = m.id]
  /\ stage' = [stage EXCEPT ![c] = "ready"]
  /\ UNCHANGED <<bvars, wire, shown>>

\* A frame that is not the expected one ends the handshake and the connection.
HandshakeFails(c) ==
  LET m == Carried(c) IN
  /\ ReadOne(c)
  /\ \/ stage[c] = "listen" /\ ~(Front(c).intact /\ GoodHello(m))
     \/ stage[c] = "await" /\ ~(Front(c).intact /\ GoodResponse(m, c))
  /\ Shut(c)
  /\ UNCHANGED <<key, peer, wire, shown>>

-----------------------------------------------------------------------------
(* encryptAndSerializeMessage, parseAndDecryptMessage *)
SendChat(c) ==
  /\ stage[c] = "ready"
  /\ Transmit(c, Chat(key[c]))
  /\ UNCHANGED <<stage, key, peer, rd, shown>>

\* Fault: the tag is not checked.
DecryptsUnchecked(c) == Carried(c).type = "chat"

Decrypts(c) == Front(c).intact /\ Carried(c) = Chat(key[c])

\* Fault: the receive loop ends after one message.
ShowChatOnce(c) ==
  /\ stage[c] = "ready" /\ ReadOne(c) /\ Decrypts(c) /\ shown[c] = <<>>
  /\ shown' = [shown EXCEPT ![c] = Append(@, <<Front(c).from, Front(c).n>>)]
  /\ UNCHANGED <<bvars, stage, key, peer, wire>>

ShowChat(c) ==
  /\ stage[c] = "ready" /\ ReadOne(c) /\ Decrypts(c)
  /\ shown' = [shown EXCEPT ![c] = Append(@, <<Front(c).from, Front(c).n>>)]
  /\ UNCHANGED <<bvars, stage, key, peer, wire>>

\* A frame that does not parse or does not decrypt is reported and dropped.
DropFrame(c) ==
  /\ stage[c] = "ready" /\ ReadOne(c) /\ ~Decrypts(c)
  /\ UNCHANGED <<bvars, stage, key, peer, wire, shown>>

\* When the GCM tag does not verify, decrypt frees its context, throws, and
\* frees it again in the handler: undefined, and an abort with most allocators.
TagMismatch(c) == Carried(c).type = "chat" /\ ~Decrypts(c)

DecryptAborts(c) ==
  /\ stage[c] = "ready" /\ ReadOne(c) /\ TagMismatch(c)
  /\ Shut(c)
  /\ UNCHANGED <<key, peer, wire, shown>>

-----------------------------------------------------------------------------
\* The user quits, the process is killed, or the connection or the relay fails:
\* at any time.  What was not read or taken yet is lost; an engine that reads
\* on for a while after a failure is one whose connection failed later.
End(c) ==
  /\ stage[c] \notin {"off", "over"}
  /\ Shut(c)
  /\ UNCHANGED <<key, peer, wire, rd, shown>>

\* A connection refused or lost before its 101 answer is one not tried, and a
\* relay that dies is every connection failing: Refuse and Reset add nothing.
RelayWorks ==
  /\ \/ \E c \in Client : Join(c) \/ Take(c) \/ Leave(c)
     \/ \E f \in pend : Deliver(f) \/ Lose(f) \/ (f.intact /\ Collide({f}))
  /\ UNCHANGED evars

Engine(c) ==
  \/ SendHello(c) \/ HostAnswer(c) \/ ConnectorReady(c) \/ HandshakeFails(c)
  \/ ShowChat(c) \/ DropFrame(c) \/ DecryptAborts(c)

ChatNext ==
  \/ \E c \in Client : Connect(c) \/ Engine(c) \/ SendChat(c) \/ End(c)
  \/ RelayWorks

ChatSpec == ChatInit /\ [][ChatNext]_vars

\* The relay's threads and the engines run (see RelayServer for the relay's);
\* users need not do anything, and nothing needs to be spoilt or lost.
ChatFairness ==
  /\ \A c \in Client :
       /\ WF_vars(Engine(c))
       /\ WF_vars(Join(c) /\ UNCHANGED evars)
       /\ WF_vars(Take(c) /\ UNCHANGED evars)
       /\ WF_vars(\E f \in pend : f.to = c /\ (Deliver(f) \/ Lose(f)) /\ UNCHANGED evars)

FairChatSpec == ChatSpec /\ ChatFairness

-----------------------------------------------------------------------------
(* Correctness *)

\* A connecting side (a host's key is one it encapsulated itself) that has a
\* session made it with its own key pair, and the host it names has the same
\* key; each of the two has been told the identity of the other.
KeyAgreement ==
  \A c \in Client : (stage[c] = "ready" /\ key[c].by # c) =>
    LET h == key[c].by IN
    /\ key[c].of = c /\ key[h] = key[c]
    /\ stage[h] \in {"ready", "over"}
    /\ peer[c] = IdOf[h] /\ peer[h] = IdOf[c]

\* The other end of c's session.
Partner(c) == IF key[c].of = c THEN key[c].by ELSE key[c].of

\* What is shown as the peer's was sent, under this session's key, by the one
\* other connection that has the key.
ShownIsPeers ==
  \A c \in Client : \A i \in 1 .. Len(shown[c]) :
    LET p == shown[c][i][1]  n == shown[c][i][2] IN
    /\ p = Partner(c) /\ n <= Len(wire[p]) /\ wire[p][n] = Chat(key[c])

SpoiltFor(c, p, n) ==
  \E k \in 1 .. rd[c] : got[c][k].from = p /\ got[c][k].n = n /\ ~got[c][k].intact

\* The messages shown are the peer's, in the order sent, none twice; one that
\* is missing before the last was spoilt on the relay.
ShownInOrder ==
  \A c \in Client :
    /\ \A i, j \in 1 .. Len(shown[c]) : i < j => shown[c][i][2] < shown[c][j][2]
    /\ \A j \in 1 .. Len(shown[c]) : \A n \in 1 .. shown[c][j][2] - 1 :
         LET p == shown[c][j][1] IN
         wire[p][n].type = "chat" =>
           SpoiltFor(c, p, n) \/ \E i \in 1 .. Len(shown[c]) : shown[c][i] = <<p, n>>

\* Under fairness, a message sent while both ends have the session is shown at
\* the other end, unless it is spoilt on the relay or a connection closes.
MessageArrives ==
  \A c, p \in Client : \A n \in 1 .. MaxSent[c] :
    (/\ stage[c] = "ready" /\ stage[p] = "ready" /\ key[c] = key[p] /\ c # p
     /\ n <= Len(wire[c]) /\ wire[c][n].type = "chat")
      ~> (\/ SpoiltFor(p, c, n) \/ closed[c] \/ closed[p]
          \/ \E i \in 1 .. Len(shown[p]) : shown[p][i] = <<c, n>>)

Alone(h, c) ==
  \A d \in Client \ {h, c} : status[d] = "gone" \/ stage[d] = "listen"

\* A connector that finds a host listening in its room, and no other connector
\* now or later, does not wait for ever.
HelloAnswered ==
  \A c, h \in Client :
    (/\ c # h /\ room[c] = room[h] /\ stage[c] = "hello"
     /\ stage[h] = "listen" /\ status[h] = "in" /\ Alone(h, c))
      ~> (stage[c] \in {"ready", "over"} \/ closed[c] \/ closed[h])

-----------------------------------------------------------------------------
\* What the repository says and the code does not do (each refuted by a run).

\* MainWindow.cpp: "both clients connect to the same ws room name (username),
\* then run the E2E handshake", in whichever order they connect.
HandshakeCompletes ==
  \A c, h \in Client :
    (stage[c] \in {"hello", "await"} /\ stage[h] = "listen" /\ room[c] = room[h])
      ~> (stage[c] \in {"ready", "over"} \/ stage[h] # "listen")

\* relay_cli.cpp reports a frame it cannot decrypt as "[drop]" and goes on
\* reading: no frame ends a session.
BadFrameDropped ==
  [][\A c \in Client :
       (stage[c] = "ready" /\ rd'[c] # rd[c]) => stage'[c] = "ready"]_vars
=============================================================================
