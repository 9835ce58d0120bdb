-------------------------- MODULE SecureChatProofs --------------------------
(***************************************************************************)
(* Theorems about SecureChat for any number of connections and identities. *)
(* The engines leave the relay's promise alone (RoomBroadcastProofs), so   *)
(* what it says of the frames that arrive holds here too; on top of it the *)
(* inductive invariant says                                                *)
(*   Wires     what a connection has sent, by what it knows of its session *)
(*   Readers   that a session was made from the first frame that was read  *)
(*   Shown     which of the frames read are shown                          *)
(***************************************************************************)
EXTENDS SecureChat, RoomBroadcastProofs

\* c has made a session, which may be over; before, the key is its own name.
SessionOn(c) == key[c].of # key[c].by
IsConnector(c) == SessionOn(c) /\ key[c].of = c
IsHost(c) == SessionOn(c) /\ key[c].by = c

BeforeSession == {"off", "hello", "await", "listen"}

WireOf(c) ==
  /\ stage[c] \in BeforeSession => ~SessionOn(c)
  /\ stage[c] = "ready" => SessionOn(c)
  /\ stage[c] \in {"off", "hello", "listen"} => wire[c] = <<>>
  /\ stage[c] = "await" => wire[c] = <<Hello(c)>>
  /\ ~SessionOn(c) => wire[c] = <<>> \/ wire[c] = <<Hello(c)>>
  /\ SessionOn(c) =>
       /\ IsConnector(c) \/ IsHost(c)
       /\ Len(wire[c]) >= 1
       /\ \A n \in 1 .. Len(wire[c]) : n # 1 => wire[c][n] = Chat(key[c])
  /\ IsConnector(c) =>
       /\ wire[c][1] = Hello(c)
       /\ key[key[c].by] = key[c] /\ peer[c] = IdOf[key[c].by]
  /\ IsHost(c) =>
       /\ wire[c][1] = Response(PublicKey(key[c].of), c)
       /\ peer[c] = IdOf[key[c].of]

Wires == \A c \in Client : WireOf(c)

Readers ==
  \A c \in Client :
    /\ status[c] = "out" => stage[c] = "off"
    /\ stage[c] \in BeforeSession => rd[c] = 0
    /\ ~SessionOn(c) => shown[c] = <<>>
    /\ SessionOn(c) => rd[c] >= 1 /\ got[c][1].from = Partner(c) /\ got[c][1].n = 1

Shown ==
  \A c \in Client :
    /\ \A i \in 1 .. Len(shown[c]) : \E k \in 1 .. rd[c] :
         shown[c][i] = <<got[c][k].from, got[c][k].n>>
    /\ \A k \in 1 .. rd[c] :
         (/\ SessionOn(c) /\ got[c][k].intact
          /\ wire[got[c][k].from][got[c][k].n] = Chat(key[c]))
           => \E i \in 1 .. Len(shown[c]) : shown[c][i] = <<got[c][k].from, got[c][k].n>>
    /\ \A i, j \in 1 .. Len(shown[c]) : i < j => shown[c][i][2] < shown[c][j][2]

ChatInv ==
  /\ NetInv /\ EngineTypeOK /\ Wires /\ Readers /\ ShownIsPeers /\ Shown

-----------------------------------------------------------------------------
(* The relay underneath *)

\* An engine's step is one of the relay's clients', or none of the relay's
\* concern; closing a closed connection changes nothing.
LEMMA RelaySeen ==
  ASSUME TypeOK, [ChatNext]_vars
  PROVE  [Next]_bvars
<1>1. ASSUME NEW c \in Client, Shut(c) PROVE [Next]_bvars
  <2>1. CASE closed[c]
    BY <1>1, <2>1 DEF Shut, bvars, TypeOK
  <2>2. CASE ~closed[c]
    BY <1>1, <2>2 DEF Shut, Close, Next
  <2>. QED
    BY <2>1, <2>2 DEF TypeOK
<1>2. ASSUME NEW c \in Client, Connect(c) PROVE [Next]_bvars
  BY <1>2 DEF Connect, Next, RelayStep
<1>3. ASSUME NEW c \in Client, Send(c) PROVE [Next]_bvars
  BY <1>3 DEF Next
<1>4. CASE RelayWorks
  <2>1. ASSUME NEW c \in Client, Join(c) \/ Take(c) \/ Leave(c) PROVE [Next]_bvars
    BY <2>1 DEF Next, RelayStep
  <2>2. ASSUME NEW f \in pend, Deliver(f) \/ Lose(f) PROVE [Next]_bvars
    BY <2>2 DEF Next, RelayStep
  <2>3. ASSUME NEW f \in pend, Collide({f}) PROVE [Next]_bvars
    <3>1. {f} \in SUBSET pend
      OBVIOUS
    <3>. QED
      BY <2>3, <3>1 DEF Next, RelayStep
  <2>. QED
    BY <1>4, <2>1, <2>2, <2>3 DEF RelayWorks
<1>5. ASSUME NEW c \in Client, Engine(c) \/ SendChat(c) \/ End(c) PROVE [Next]_bvars
  <2>1. Send(c) \/ Shut(c) \/ UNCHANGED bvars
    BY <1>5 DEF Engine, SendHello, HostAnswer, ConnectorReady, HandshakeFails, ShowChat,
                DropFrame, DecryptAborts, SendChat, End, Transmit
  <2>. QED
    BY <2>1, <1>1, <1>3
<1>6. CASE UNCHANGED vars
  BY <1>6 DEF vars, bvars
<1>. QED
  BY <1>2, <1>4, <1>5, <1>6 DEF ChatNext

\* The engines use the relay as its promise allows: what they do to it is what
\* clients of a room do, so SecureChat implements RoomBroadcast.
THEOREM ChatOverRelay == ChatSpec => Spec
<1>1. ChatInit => TypeOK /\ Init
  BY DEF ChatInit, Init, TypeOK, Frame
<1>2. TypeOK /\ [ChatNext]_vars => [Next]_bvars
  BY RelaySeen
<1>3. TypeOK /\ [Next]_bvars => TypeOK'
  BY TypeStep
<1>. QED
  BY <1>1, <1>2, <1>3, PTL DEF ChatSpec, Spec

-----------------------------------------------------------------------------
(* What frames carry *)
LEMMA HelloType == ASSUME NEW c \in Client PROVE Hello(c) \in Payload
<1>1. IdOf[c] \in Identity
  BY ChatAssumption
<1>2. PublicKey(c) \in Blob
  BY DEF PublicKey, Blob
<1>3. ClientMsg(PublicKey(c)) \in Signed
  BY <1>2 DEF ClientMsg, Signed
<1>. QED
  BY <1>1, <1>2, <1>3 DEF Hello, Sign, Payload

LEMMA ResponseType ==
  ASSUME NEW c \in Client, NEW h \in Client PROVE Response(PublicKey(c), h) \in Payload
<1>1. IdOf[h] \in Identity
  BY ChatAssumption
<1>2. PublicKey(c) \in Blob /\ PublicKey(c).of = c
  BY DEF PublicKey, Blob
<1>3. Ciphertext(c, h) \in Blob
  BY DEF Ciphertext, Blob
<1>4. ServerMsg(Ciphertext(c, h), PublicKey(c)) \in Signed
  BY <1>2, <1>3 DEF ServerMsg, Signed
<1>. QED
  BY <1>1, <1>2, <1>3, <1>4 DEF Response, Sign, Payload

LEMMA ChatType == ASSUME NEW k \in Key PROVE Chat(k) \in Payload /\ Chat(k).type = "chat"
BY DEF Chat, Payload

\* Neither handshake message passes for the other, nor a chat message for one:
\* the signed texts name the role.
LEMMA Apart ==
  ASSUME NEW p, NEW c, NEW k
  PROVE  /\ GoodHello(Hello(p)) /\ Hello(p).blob.of = p /\ Hello(p).id = IdOf[p]
         /\ ~GoodResponse(Hello(p), c) /\ Hello(p) # Chat(k)
<1>1. /\ Hello(p).type = "handshake" /\ Hello(p).blob = PublicKey(p) /\ Hello(p).id = IdOf[p]
      /\ Hello(p).sig = Sign(IdOf[p], ClientMsg(PublicKey(p)))
  BY DEF Hello
<1>2. PublicKey(p).of = p
  BY DEF PublicKey
<1>3. Sign(IdOf[p], ClientMsg(PublicKey(p))).msg.role = "client"
  BY DEF Sign, ClientMsg
<1>4. Sign(IdOf[p], ServerMsg(PublicKey(p), PublicKey(c))).msg.role = "server"
  BY DEF Sign, ServerMsg
<1>5. Chat(k).type = "chat"
  BY DEF Chat
<1>. QED
  BY <1>1, <1>2, <1>3, <1>4, <1>5 DEF GoodHello, GoodResponse, Verify

\* An answer is good for the connection whose public key it was made for.
LEMMA AnswerIsFor ==
  ASSUME NEW p, NEW h, NEW c, NEW k
  PROVE  /\ ~GoodHello(Response(PublicKey(p), h)) /\ Response(PublicKey(p), h) # Chat(k)
         /\ GoodResponse(Response(PublicKey(p), h), c) => p = c
         /\ Secret(Response(PublicKey(p), h).blob) = [of |-> p, by |-> h]
         /\ Response(PublicKey(p), h).id = IdOf[h]
<1>. DEFINE m == Response(PublicKey(p), h)  ct == Ciphertext(p, h)
<1>0. PublicKey(p).of = p /\ PublicKey(c).of = c
  BY DEF PublicKey
<1>1. /\ m.type = "handshake" /\ m.blob = ct /\ m.id = IdOf[h]
      /\ m.sig = Sign(IdOf[h], ServerMsg(ct, PublicKey(p)))
  BY <1>0 DEF Response
<1>2. Sign(IdOf[h], ServerMsg(ct, PublicKey(p))).msg.role = "server"
  BY DEF Sign, ServerMsg
<1>3. Sign(IdOf[h], ClientMsg(ct)).msg.role = "client"
  BY DEF Sign, ClientMsg
<1>4. /\ Sign(IdOf[h], ServerMsg(ct, PublicKey(p))).msg.pk = PublicKey(p)
      /\ Sign(IdOf[h], ServerMsg(ct, PublicKey(c))).msg.pk = PublicKey(c)
  BY DEF Sign, ServerMsg
<1>5. Chat(k).type = "chat"
  BY DEF Chat
<1>6. Secret(ct) = [of |-> p, by |-> h]
  BY DEF Secret, Ciphertext
<1>. HIDE DEF m, ct
<1>7. ~GoodHello(m)
  BY <1>1, <1>2, <1>3 DEF GoodHello, Verify
<1>8. GoodResponse(m, c) => p = c
  BY <1>0, <1>1, <1>4 DEF GoodResponse, Verify
<1>9. m # Chat(k)
  BY <1>1, <1>5
<1>. QED
  BY <1>1, <1>6, <1>7, <1>8, <1>9 DEF m

-----------------------------------------------------------------------------
(* Reading *)

\* The next frame to read was sent by another connection.
LEMMA FrontFacts ==
  ASSUME NetInv, EngineTypeOK, NEW c \in Client, Unread(c)
  PROVE  /\ rd[c] \in Nat /\ rd[c] + 1 \in 1 .. Len(got[c]) /\ Front(c) = got[c][rd[c] + 1]
         /\ Front(c).from \in Client /\ Front(c).from # c /\ Front(c).intact \in BOOLEAN
         /\ Front(c).n \in 1 .. Len(wire[Front(c).from])
         /\ Carried(c) = wire[Front(c).from][Front(c).n] /\ Carried(c) \in Payload
<1>1. rd[c] \in Nat /\ rd[c] + 1 \in 1 .. Len(got[c]) /\ Front(c) = got[c][rd[c] + 1]
  <2>1. rd[c] \in Nat /\ Len(got[c]) \in Nat
    BY DEF EngineTypeOK, NetInv, TypeOK
  <2>. QED
    BY <2>1 DEF Unread, Front
<1>2. Front(c).from \in Client /\ Front(c).n \in Nat /\ Front(c).intact \in BOOLEAN
  BY <1>1, FrameFields DEF NetInv
<1>3. Front(c).from # c /\ Front(c).n \in 1 .. taken[Front(c).from]
  BY <1>1 DEF NetInv, Arrived
<1>4. taken[Front(c).from] <= sent[Front(c).from] /\ taken[Front(c).from] \in Nat
  BY <1>2 DEF NetInv, Copies, TypeOK
<1>5. /\ sent[Front(c).from] = Len(wire[Front(c).from])
      /\ wire[Front(c).from] \in Seq(Payload)
  BY <1>2 DEF EngineTypeOK
<1>6. Len(wire[Front(c).from]) \in Nat
  BY <1>5
<1>7. Front(c).n \in 1 .. Len(wire[Front(c).from])
  BY <1>2, <1>3, <1>4, <1>5, <1>6
<1>8. wire[Front(c).from][Front(c).n] \in Payload
  BY <1>5, <1>7
<1>. QED
  BY <1>1, <1>2, <1>3, <1>7, <1>8 DEF Carried

\* What it carries says what its sender was doing.
LEMMA CarriedIs ==
  ASSUME NetInv, EngineTypeOK, Wires, NEW c \in Client, Unread(c),
         NEW p \in Client, p = Front(c).from
  PROVE  \/ Front(c).n = 1 /\ Carried(c) = Hello(p)
         \/ Front(c).n = 1 /\ IsHost(p) /\ Carried(c) = Response(PublicKey(key[p].of), p)
         \/ Front(c).n # 1 /\ SessionOn(p) /\ Carried(c) = Chat(key[p])
<1>1. Front(c).n \in 1 .. Len(wire[p]) /\ Carried(c) = wire[p][Front(c).n]
  BY FrontFacts
<1>2. CASE SessionOn(p) /\ Front(c).n # 1
  BY <1>1, <1>2 DEF Wires, WireOf
<1>3. CASE SessionOn(p) /\ Front(c).n = 1
  BY <1>1, <1>3 DEF Wires, WireOf
<1>4. CASE ~SessionOn(p)
  <2>1. wire[p] = <<Hello(p)>>
    BY <1>1, <1>4 DEF Wires, WireOf
  <2>2. Len(wire[p]) = 1 /\ wire[p][1] = Hello(p)
    BY <2>1
  <2>. QED
    BY <1>1, <2>2
<1>. QED
  BY <1>2, <1>3, <1>4

-----------------------------------------------------------------------------
(* What the two ends of a handshake do *)

\* A host that answers has read the hello of some connection, its first frame.
LEMMA HostMeets ==
  ASSUME NetInv, EngineTypeOK, Wires, Readers, NEW h \in Client, HostAnswer(h)
  PROVE  \E p \in Client :
           /\ p # h /\ ~SessionOn(h) /\ stage[h] = "listen"
           /\ got[h][1].from = p /\ got[h][1].n = 1 /\ 1 <= Len(got[h])
           /\ rd' = [rd EXCEPT ![h] = 1] /\ wire[h] = <<>>
           /\ wire' = [wire EXCEPT ![h] = <<Response(PublicKey(p), h)>>]
           /\ key' = [key EXCEPT ![h] = [of |-> p, by |-> h]]
           /\ peer' = [peer EXCEPT ![h] = IdOf[p]]
           /\ stage' = [stage EXCEPT ![h] = "ready"]
           /\ Send(h) /\ UNCHANGED shown
<1>. DEFINE p == Front(h).from
<1>1. /\ stage[h] = "listen" /\ Unread(h) /\ GoodHello(Carried(h)) /\ Send(h)
      /\ rd' = [rd EXCEPT ![h] = rd[h] + 1]
      /\ wire' = [wire EXCEPT ![h] = Append(wire[h], Response(Carried(h).blob, h))]
      /\ key' = [key EXCEPT ![h] = Secret(Ciphertext(Carried(h).blob.of, h))]
      /\ peer' = [peer EXCEPT ![h] = Carried(h).id]
      /\ stage' = [stage EXCEPT ![h] = "ready"]
      /\ UNCHANGED shown
  BY DEF HostAnswer, ReadOne, Transmit
<1>2. ~SessionOn(h) /\ wire[h] = <<>> /\ rd[h] = 0
  BY <1>1 DEF Wires, WireOf, Readers, BeforeSession
<1>3. /\ p \in Client /\ p # h /\ Front(h) = got[h][1] /\ 1 <= Len(got[h])
      /\ rd' = [rd EXCEPT ![h] = 1]
  BY <1>1, <1>2, FrontFacts
<1>4. Front(h).n = 1 /\ Carried(h) = Hello(p)
  <2>1. /\ Front(h).n = 1 \/ SessionOn(p)
        /\ \/ Front(h).n = 1 /\ Carried(h) = Hello(p)
           \/ Carried(h) = Response(PublicKey(key[p].of), p)
           \/ Carried(h) = Chat(key[p])
    BY <1>1, <1>3, CarriedIs
  <2>2. Carried(h) # Response(PublicKey(key[p].of), p)
    BY <1>1, AnswerIsFor
  <2>3. Carried(h) # Chat(key[p])
    BY <1>1 DEF GoodHello, Chat
  <2>. QED
    BY <2>1, <2>2, <2>3
<1>5. Carried(h).blob = PublicKey(p) /\ Carried(h).id = IdOf[p] /\ PublicKey(p).of = p
  BY <1>4 DEF Hello, PublicKey
<1>6. Secret(Ciphertext(p, h)) = [of |-> p, by |-> h]
  BY DEF Secret, Ciphertext
<1>7. Append(wire[h], Response(PublicKey(p), h)) = <<Response(PublicKey(p), h)>>
  BY <1>2
<1>8. /\ wire' = [wire EXCEPT ![h] = <<Response(PublicKey(p), h)>>]
      /\ key' = [key EXCEPT ![h] = [of |-> p, by |-> h]]
      /\ peer' = [peer EXCEPT ![h] = IdOf[p]]
  BY <1>1, <1>5, <1>6, <1>7
<1>9. got[h][1].from = p /\ got[h][1].n = 1
  BY <1>3, <1>4
<1>. HIDE DEF p
<1>. QED
  BY <1>1, <1>2, <1>3, <1>8, <1>9

\* A connecting side whose session begins has read the answer of a host that
\* made its session with this connection's public key.
LEMMA ConnectorMeets ==
  ASSUME NetInv, EngineTypeOK, Wires, Readers, NEW c \in Client, ConnectorReady(c)
  PROVE  \E h \in Client :
           /\ h # c /\ ~SessionOn(c) /\ stage[c] = "await"
           /\ IsHost(h) /\ key[h].of = c
           /\ got[c][1].from = h /\ got[c][1].n = 1 /\ 1 <= Len(got[c])
           /\ rd' = [rd EXCEPT ![c] = 1]
           /\ key' = [key EXCEPT ![c] = [of |-> c, by |-> h]]
           /\ peer' = [peer EXCEPT ![c] = IdOf[h]]
           /\ stage' = [stage EXCEPT ![c] = "ready"]
           /\ UNCHANGED <<bvars, wire, shown>>
<1>. DEFINE h == Front(c).from
<1>1. /\ stage[c] = "await" /\ Unread(c) /\ GoodResponse(Carried(c), c)
      /\ rd' = [rd EXCEPT ![c] = rd[c] + 1]
      /\ key' = [key EXCEPT ![c] = Secret(Carried(c).blob)]
      /\ peer' = [peer EXCEPT ![c] = Carried(c).id]
      /\ stage' = [stage EXCEPT ![c] = "ready"]
      /\ UNCHANGED <<bvars, wire, shown>>
  BY DEF ConnectorReady, ReadOne
<1>2. ~SessionOn(c) /\ rd[c] = 0
  BY <1>1 DEF Wires, WireOf, Readers, BeforeSession
<1>3. /\ h \in Client /\ h # c /\ Front(c) = got[c][1] /\ 1 <= Len(got[c])
      /\ rd' = [rd EXCEPT ![c] = 1]
  BY <1>1, <1>2, FrontFacts
<1>4. Front(c).n = 1 /\ IsHost(h) /\ Carried(c) = Response(PublicKey(key[h].of), h)
  <2>1. \/ Carried(c) = Hello(h)
        \/ Front(c).n = 1 /\ IsHost(h) /\ Carried(c) = Response(PublicKey(key[h].of), h)
        \/ Carried(c) = Chat(key[h])
    BY <1>1, <1>3, CarriedIs
  <2>2. Carried(c) # Hello(h)
    BY <1>1, Apart
  <2>3. Carried(c) # Chat(key[h])
    BY <1>1 DEF GoodResponse, Chat
  <2>. QED
    BY <2>1, <2>2, <2>3
<1>5. key[h].of = c
  BY <1>1, <1>4, AnswerIsFor
<1>6. Secret(Carried(c).blob) = [of |-> c, by |-> h] /\ Carried(c).id = IdOf[h]
  BY <1>4, <1>5, AnswerIsFor
<1>7. got[c][1].from = h /\ got[c][1].n = 1
  BY <1>3, <1>4
<1>. HIDE DEF h
<1>. QED
  BY <1>1, <1>2, <1>3, <1>4, <1>5, <1>6, <1>7

\* What c puts on its connection comes after what it has put there before.
LEMMA TransmitAppends ==
  ASSUME EngineTypeOK, NEW c \in Client, NEW m \in Payload, Transmit(c, m), TypeOK
  PROVE  /\ wire' \in [Client -> Seq(Payload)] /\ sent' \in [Client -> Nat]
         /\ \A d \in Client : sent'[d] = Len(wire'[d])
         /\ \A d \in Client \ {c} : wire'[d] = wire[d]
         /\ Len(wire[c]) \in Nat /\ Len(wire'[c]) = Len(wire[c]) + 1
         /\ \A n \in 1 .. Len(wire[c]) : wire'[c][n] = wire[c][n]
         /\ wire'[c][Len(wire[c]) + 1] = m
<1>1. /\ wire' = [wire EXCEPT ![c] = Append(wire[c], m)]
      /\ sent' = [sent EXCEPT ![c] = sent[c] + 1]
  BY DEF Transmit, Send
<1>2. /\ wire \in [Client -> Seq(Payload)] /\ sent \in [Client -> Nat]
      /\ \A d \in Client : sent[d] = Len(wire[d])
  BY DEF EngineTypeOK, TypeOK
<1>3. wire[c] \in Seq(Payload)
  BY <1>2
<1>4. /\ Append(wire[c], m) \in Seq(Payload) /\ Len(wire[c]) \in Nat
      /\ Len(Append(wire[c], m)) = Len(wire[c]) + 1
      /\ \A n \in 1 .. Len(wire[c]) : Append(wire[c], m)[n] = wire[c][n]
      /\ Append(wire[c], m)[Len(wire[c]) + 1] = m
  BY <1>3
<1>5. wire'[c] = Append(wire[c], m) /\ \A d \in Client \ {c} : wire'[d] = wire[d]
  BY <1>1, <1>2
<1>6. sent'[c] = sent[c] + 1 /\ \A d \in Client \ {c} : sent'[d] = sent[d]
  BY <1>1, <1>2
<1>7. wire' \in [Client -> Seq(Payload)] /\ sent' \in [Client -> Nat]
  BY <1>1, <1>2, <1>4
<1>8. \A d \in Client : sent'[d] = Len(wire'[d])
  BY <1>2, <1>4, <1>5, <1>6
<1>. QED
  BY <1>4, <1>5, <1>7, <1>8

-----------------------------------------------------------------------------
(* Types *)

\* Nobody reads past what has arrived.
LEMMA ReadingStep ==
  ASSUME NetInv, EngineTypeOK, [ChatNext]_vars
  PROVE  rd' \in [Client -> Nat] /\ \A c \in Client : rd'[c] <= Len(got'[c])
<1>1. \A c \in Client : /\ Len(got[c]) \in Nat /\ Len(got'[c]) \in Nat
                        /\ Len(got[c]) <= Len(got'[c])
  BY RelaySeen, GotGrows DEF NetInv
<1>2. rd \in [Client -> Nat] /\ \A c \in Client : rd[c] <= Len(got[c])
  BY DEF EngineTypeOK
<1>3. CASE UNCHANGED rd
  BY <1>1, <1>2, <1>3
<1>4. ASSUME NEW c \in Client, ReadOne(c)
      PROVE  rd' \in [Client -> Nat] /\ \A d \in Client : rd'[d] <= Len(got'[d])
  <2>1. rd[c] + 1 <= Len(got[c]) /\ rd' = [rd EXCEPT ![c] = rd[c] + 1]
    BY <1>1, <1>2, <1>4 DEF ReadOne, Unread
  <2>. QED
    BY <1>1, <1>2, <2>1
<1>5. ASSUME NEW c \in Client, Engine(c) PROVE UNCHANGED rd \/ ReadOne(c)
  BY <1>5 DEF Engine, SendHello, HostAnswer, ConnectorReady, HandshakeFails, ShowChat,
              DropFrame, DecryptAborts
<1>. QED
  BY <1>3, <1>4, <1>5 DEF ChatNext, Connect, SendChat, End, RelayWorks, evars, vars

LEMMA EngineTypeStep ==
  ASSUME NetInv, EngineTypeOK, Wires, Readers, [ChatNext]_vars
  PROVE  EngineTypeOK'
<1>0. /\ wire \in [Client -> Seq(Payload)] /\ \A d \in Client : sent[d] = Len(wire[d])
      /\ stage \in [Client -> {"off", "hello", "await", "listen", "ready", "over"}]
      /\ key \in [Client -> Key] /\ peer \in [Client -> Identity]
      /\ shown \in [Client -> Seq(Client \X Nat)] /\ TypeOK
  BY DEF EngineTypeOK, NetInv
<1>1. rd' \in [Client -> Nat] /\ \A c \in Client : rd'[c] <= Len(got'[c])
  BY ReadingStep
<1>2. ASSUME UNCHANGED <<key, peer, wire, shown, sent>>,
             stage' = stage \/ (\E c \in Client :
                \E q \in {"hello", "await", "listen", "over"} : stage' = [stage EXCEPT ![c] = q])
      PROVE  EngineTypeOK'
  <2>1. stage' \in [Client -> {"off", "hello", "await", "listen", "ready", "over"}]
    BY <1>0, <1>2
  <2>. QED
    BY <1>0, <1>1, <1>2, <2>1 DEF EngineTypeOK
<1>3. ASSUME NEW c \in Client, Connect(c) \/ HandshakeFails(c) \/ DecryptAborts(c) \/ End(c)
      PROVE  EngineTypeOK'
  <2>1. /\ UNCHANGED <<key, peer, wire, shown, sent>>
        /\ \E q \in {"hello", "await", "listen", "over"} : stage' = [stage EXCEPT ![c] = q]
    BY <1>3 DEF Connect, Open, HandshakeFails, DecryptAborts, End, Shut
  <2>. QED
    BY <1>2, <2>1
<1>4. ASSUME NEW c \in Client, SendHello(c) PROVE EngineTypeOK'
  <2>1. /\ Transmit(c, Hello(c)) /\ stage' = [stage EXCEPT ![c] = "await"]
        /\ UNCHANGED <<key, peer, shown>>
    BY <1>4 DEF SendHello
  <2>2. wire' \in [Client -> Seq(Payload)] /\ \A d \in Client : sent'[d] = Len(wire'[d])
    BY <1>0, <2>1, HelloType, TransmitAppends
  <2>. QED
    BY <1>0, <1>1, <2>1, <2>2 DEF EngineTypeOK
<1>5. ASSUME NEW c \in Client, SendChat(c) PROVE EngineTypeOK'
  <2>1. /\ Transmit(c, Chat(key[c])) /\ UNCHANGED <<stage, key, peer, shown>>
    BY <1>5 DEF SendChat
  <2>2. Chat(key[c]) \in Payload
    BY <1>0, ChatType
  <2>3. wire' \in [Client -> Seq(Payload)] /\ \A d \in Client : sent'[d] = Len(wire'[d])
    BY <1>0, <2>1, <2>2, TransmitAppends
  <2>. QED
    BY <1>0, <1>1, <2>1, <2>3 DEF EngineTypeOK
<1>6. ASSUME NEW h \in Client, HostAnswer(h) PROVE EngineTypeOK'
  <2>1. PICK p \in Client :
          /\ wire[h] = <<>> /\ wire' = [wire EXCEPT ![h] = <<Response(PublicKey(p), h)>>]
          /\ key' = [key EXCEPT ![h] = [of |-> p, by |-> h]]
          /\ peer' = [peer EXCEPT ![h] = IdOf[p]]
          /\ stage' = [stage EXCEPT ![h] = "ready"]
          /\ Send(h) /\ UNCHANGED shown
    BY <1>6, HostMeets
  <2>2. /\ sent' = [sent EXCEPT ![h] = sent[h] + 1] /\ sent \in [Client -> Nat]
        /\ sent[h] = 0
    BY <1>0, <2>1 DEF Send, TypeOK
  <2>3. <<Response(PublicKey(p), h)>> \in Seq(Payload) /\ Len(<<Response(PublicKey(p), h)>>) = 1
    BY ResponseType
  <2>4. wire' \in [Client -> Seq(Payload)] /\ \A d \in Client : sent'[d] = Len(wire'[d])
    BY <1>0, <2>1, <2>2, <2>3
  <2>5. IdOf[p] \in Identity /\ [of |-> p, by |-> h] \in Key
    BY ChatAssumption DEF Key
  <2>. QED
    BY <1>0, <1>1, <2>1, <2>4, <2>5 DEF EngineTypeOK
<1>7. ASSUME NEW c \in Client, ConnectorReady(c) PROVE EngineTypeOK'
  <2>1. PICK h \in Client :
          /\ key' = [key EXCEPT ![c] = [of |-> c, by |-> h]]
          /\ peer' = [peer EXCEPT ![c] = IdOf[h]]
          /\ stage' = [stage EXCEPT ![c] = "ready"]
          /\ UNCHANGED <<bvars, wire, shown>>
    BY <1>7, ConnectorMeets
  <2>2. IdOf[h] \in Identity /\ [of |-> c, by |-> h] \in Key /\ UNCHANGED <<wire, sent, shown>>
    BY <2>1, ChatAssumption DEF Key, bvars
  <2>. QED
    BY <1>0, <1>1, <2>1, <2>2 DEF EngineTypeOK
<1>8. ASSUME NEW c \in Client, ShowChat(c) PROVE EngineTypeOK'
  <2>1. /\ shown' = [shown EXCEPT ![c] = Append(shown[c], <<Front(c).from, Front(c).n>>)]
        /\ Unread(c) /\ UNCHANGED <<sent, stage, key, peer, wire>>
    BY <1>8 DEF ShowChat, ReadOne, bvars
  <2>2. <<Front(c).from, Front(c).n>> \in Client \X Nat
    BY <2>1, FrontFacts
  <2>3. shown' \in [Client -> Seq(Client \X Nat)]
    BY <1>0, <2>1, <2>2
  <2>. QED
    BY <1>0, <1>1, <2>1, <2>3 DEF EngineTypeOK
<1>9. ASSUME NEW c \in Client, DropFrame(c) PROVE EngineTypeOK'
  BY <1>2, <1>9 DEF DropFrame, bvars
<1>10. CASE RelayWorks
  BY <1>2, <1>10 DEF RelayWorks, evars, Join, Take, Leave, Deliver, Lose, Collide
<1>11. CASE UNCHANGED vars
  BY <1>2, <1>11 DEF vars, evars, bvars
<1>. QED
  BY <1>3, <1>4, <1>5, <1>6, <1>7, <1>8, <1>9, <1>10, <1>11 DEF ChatNext, Engine

-----------------------------------------------------------------------------
(* Sessions *)

\* A session's key and the peer's name do not change, nor does what was sent.
LEMMA SessionKept ==
  ASSUME NetInv, EngineTypeOK, Wires, Readers, [ChatNext]_vars,
         NEW c \in Client, SessionOn(c)
  PROVE  key'[c] = key[c] /\ peer'[c] = peer[c]
<1>0. key \in [Client -> Key] /\ peer \in [Client -> Identity]
  BY DEF EngineTypeOK
<1>1. CASE UNCHANGED <<key, peer>>
  BY <1>1
<1>2. ASSUME NEW h \in Client, HostAnswer(h) PROVE key'[c] = key[c] /\ peer'[c] = peer[c]
  BY <1>0, <1>2, HostMeets
<1>3. ASSUME NEW d \in Client, ConnectorReady(d) PROVE key'[c] = key[c] /\ peer'[c] = peer[c]
  BY <1>0, <1>3, ConnectorMeets
<1>4. ASSUME NEW d \in Client, Connect(d) \/ Engine(d) \/ SendChat(d) \/ End(d)
      PROVE  UNCHANGED <<key, peer>> \/ HostAnswer(d) \/ ConnectorReady(d)
  BY <1>4 DEF Connect, Engine, SendChat, End, SendHello, HandshakeFails, ShowChat, DropFrame,
              DecryptAborts
<1>. QED
  BY <1>1, <1>2, <1>3, <1>4 DEF ChatNext, RelayWorks, evars, vars

LEMMA WireGrows ==
  ASSUME NetInv, EngineTypeOK, Wires, Readers, [ChatNext]_vars, NEW c \in Client
  PROVE  /\ Len(wire[c]) \in Nat /\ Len(wire'[c]) \in Nat /\ Len(wire[c]) <= Len(wire'[c])
         /\ \A n \in 1 .. Len(wire[c]) : wire'[c][n] = wire[c][n]
<1>0. Len(wire[c]) \in Nat /\ wire \in [Client -> Seq(Payload)] /\ key \in [Client -> Key] /\ TypeOK
  BY DEF EngineTypeOK, NetInv
<1>1. CASE UNCHANGED wire
  BY <1>0, <1>1
<1>2. ASSUME NEW d \in Client, NEW m \in Payload, Transmit(d, m)
      PROVE  /\ Len(wire'[c]) \in Nat /\ Len(wire[c]) <= Len(wire'[c])
             /\ \A n \in 1 .. Len(wire[c]) : wire'[c][n] = wire[c][n]
  <2>1. CASE c = d
    BY <1>0, <1>2, <2>1, TransmitAppends
  <2>2. CASE c # d
    BY <1>0, <1>2, <2>2, TransmitAppends
  <2>. QED
    BY <2>1, <2>2
<1>3. ASSUME NEW h \in Client, HostAnswer(h)
      PROVE  /\ Len(wire'[c]) \in Nat /\ Len(wire[c]) <= Len(wire'[c])
             /\ \A n \in 1 .. Len(wire[c]) : wire'[c][n] = wire[c][n]
  <2>1. PICK p \in Client :
          wire[h] = <<>> /\ wire' = [wire EXCEPT ![h] = <<Response(PublicKey(p), h)>>]
    BY <1>3, HostMeets
  <2>2. CASE c = h
    BY <1>0, <2>1, <2>2
  <2>3. CASE c # h
    BY <1>0, <2>1, <2>3
  <2>. QED
    BY <2>2, <2>3
<1>4. ASSUME NEW d \in Client, SendHello(d)
      PROVE  Transmit(d, Hello(d)) /\ Hello(d) \in Payload
  BY <1>4, HelloType DEF SendHello
<1>5. ASSUME NEW d \in Client, SendChat(d)
      PROVE  Transmit(d, Chat(key[d])) /\ Chat(key[d]) \in Payload
  BY <1>0, <1>5, ChatType DEF SendChat
<1>6. ASSUME NEW d \in Client, Connect(d) \/ Engine(d) \/ SendChat(d) \/ End(d)
      PROVE  UNCHANGED wire \/ SendHello(d) \/ HostAnswer(d) \/ SendChat(d)
  BY <1>6 DEF Connect, Engine, End, ConnectorReady, HandshakeFails, ShowChat, DropFrame,
              DecryptAborts
<1>. QED
  BY <1>0, <1>1, <1>2, <1>3, <1>4, <1>5, <1>6 DEF ChatNext, RelayWorks, evars, vars

\* What a connection knows of its session stays so when a step does not touch it.
LEMMA WireOfKept ==
  ASSUME NetInv, EngineTypeOK, Wires, Readers, [ChatNext]_vars, NEW d \in Client,
         key'[d] = key[d], peer'[d] = peer[d], wire'[d] = wire[d],
         stage'[d] = stage[d] \/ stage'[d] = "over"
                     \/ (stage[d] = "off" /\ stage'[d] \in {"hello", "listen"})
  PROVE  WireOf(d)'
<1>1. WireOf(d)
  BY DEF Wires
<1>2. IsConnector(d) => key'[key[d].by] = key[key[d].by]
  <2>. SUFFICES ASSUME IsConnector(d) PROVE key'[key[d].by] = key[key[d].by]
    OBVIOUS
  <2>1. key[d].by \in Client
    BY DEF EngineTypeOK, Key
  <2>2. SessionOn(key[d].by)
    BY <1>1 DEF WireOf, IsConnector, SessionOn
  <2>. QED
    BY <2>1, <2>2, SessionKept
<1>. QED
  BY <1>1, <1>2 DEF WireOf, SessionOn, IsConnector, IsHost, BeforeSession

LEMMA WiresStep ==
  ASSUME NetInv, EngineTypeOK, Wires, Readers, [ChatNext]_vars
  PROVE  Wires'
<1>0. /\ wire \in [Client -> Seq(Payload)]
      /\ stage \in [Client -> {"off", "hello", "await", "listen", "ready", "over"}]
      /\ key \in [Client -> Key] /\ peer \in [Client -> Identity] /\ TypeOK
  BY DEF EngineTypeOK, NetInv
<1>1. ASSUME UNCHANGED <<key, peer, wire>>,
             \A d \in Client : \/ stage'[d] = stage[d] \/ stage'[d] = "over"
                               \/ stage[d] = "off" /\ stage'[d] \in {"hello", "listen"}
      PROVE  Wires'
  BY <1>1, WireOfKept DEF Wires
<1>2. ASSUME NEW c \in Client, Connect(c) PROVE Wires'
  <2>1. stage[c] = "off"
    BY <1>2 DEF Connect, Open, Readers
  <2>. QED
    BY <1>0, <1>1, <1>2, <2>1 DEF Connect
<1>3. ASSUME NEW c \in Client, HandshakeFails(c) \/ DecryptAborts(c) \/ End(c) PROVE Wires'
  <2>1. UNCHANGED <<key, peer, wire>> /\ stage' = [stage EXCEPT ![c] = "over"]
    BY <1>3 DEF HandshakeFails, DecryptAborts, End, Shut
  <2>. QED
    BY <1>0, <1>1, <2>1
<1>4. ASSUME NEW c \in Client, SendHello(c) PROVE Wires'
  <2>1. /\ stage[c] = "hello" /\ wire' = [wire EXCEPT ![c] = Append(wire[c], Hello(c))]
        /\ stage' = [stage EXCEPT ![c] = "await"] /\ UNCHANGED <<key, peer>>
    BY <1>4 DEF SendHello, Transmit
  <2>2. wire[c] = <<>> /\ ~SessionOn(c)
    BY <2>1 DEF Wires, WireOf, BeforeSession
  <2>3. wire'[c] = <<Hello(c)>> /\ stage'[c] = "await"
    BY <1>0, <2>1, <2>2
  <2>4. WireOf(c)'
    BY <2>1, <2>2, <2>3 DEF WireOf, SessionOn, IsConnector, IsHost, BeforeSession
  <2>5. ASSUME NEW d \in Client, d # c PROVE WireOf(d)'
    BY <1>0, <2>1, <2>5, WireOfKept
  <2>. QED
    BY <2>4, <2>5 DEF Wires
<1>5. ASSUME NEW c \in Client, SendChat(c) PROVE Wires'
  <2>1. /\ stage[c] = "ready" /\ Transmit(c, Chat(key[c])) /\ UNCHANGED <<stage, key, peer>>
    BY <1>5 DEF SendChat
  <2>2. SessionOn(c) /\ WireOf(c)
    BY <2>1 DEF Wires, WireOf
  <2>3. /\ Len(wire[c]) \in Nat /\ Len(wire'[c]) = Len(wire[c]) + 1
        /\ \A n \in 1 .. Len(wire[c]) : wire'[c][n] = wire[c][n]
        /\ wire'[c][Len(wire[c]) + 1] = Chat(key[c])
        /\ \A d \in Client \ {c} : wire'[d] = wire[d]
    BY <1>0, <2>1, ChatType, TransmitAppends
  <2>4. /\ Len(wire'[c]) >= 1 /\ wire'[c][1] = wire[c][1]
        /\ \A n \in 1 .. Len(wire'[c]) : n # 1 => wire'[c][n] = Chat(key[c])
    <3>1. Len(wire[c]) >= 1 /\ \A n \in 1 .. Len(wire[c]) : n # 1 => wire[c][n] = Chat(key[c])
      BY <2>2 DEF WireOf
    <3>. QED
      BY <2>3, <3>1
  <2>5. IsConnector(c) => key[key[c].by] = key[c]
    BY <2>2 DEF WireOf
  <2>6. WireOf(c)'
    BY <2>1, <2>2, <2>4, <2>5 DEF WireOf, SessionOn, IsConnector, IsHost, BeforeSession
  <2>7. ASSUME NEW d \in Client, d # c PROVE WireOf(d)'
    BY <2>1, <2>3, <2>7, WireOfKept
  <2>. QED
    BY <2>6, <2>7 DEF Wires
<1>6. ASSUME NEW h \in Client, HostAnswer(h) PROVE Wires'
  <2>1. PICK p \in Client :
          /\ p # h
          /\ wire' = [wire EXCEPT ![h] = <<Response(PublicKey(p), h)>>]
          /\ key' = [key EXCEPT ![h] = [of |-> p, by |-> h]]
          /\ peer' = [peer EXCEPT ![h] = IdOf[p]]
          /\ stage' = [stage EXCEPT ![h] = "ready"]
    BY <1>6, HostMeets
  <2>2. /\ wire'[h] = <<Response(PublicKey(p), h)>> /\ key'[h] = [of |-> p, by |-> h]
        /\ peer'[h] = IdOf[p] /\ stage'[h] = "ready"
    BY <1>0, <2>1
  <2>3. key'[h].of = p /\ key'[h].by = h /\ Len(wire'[h]) = 1 /\ wire'[h][1] = Response(PublicKey(p), h)
    BY <2>2
  <2>4. WireOf(h)'
    BY <2>1, <2>2, <2>3 DEF WireOf, SessionOn, IsConnector, IsHost, BeforeSession
  <2>5. ASSUME NEW d \in Client, d # h PROVE WireOf(d)'
    BY <1>0, <2>1, <2>5, WireOfKept
  <2>. QED
    BY <2>4, <2>5 DEF Wires
<1>7. ASSUME NEW c \in Client, ConnectorReady(c) PROVE Wires'
  <2>1. PICK h \in Client :
          /\ h # c /\ IsHost(h) /\ key[h].of = c /\ stage[c] = "await"
          /\ key' = [key EXCEPT ![c] = [of |-> c, by |-> h]]
          /\ peer' = [peer EXCEPT ![c] = IdOf[h]]
          /\ stage' = [stage EXCEPT ![c] = "ready"]
          /\ UNCHANGED wire
    BY <1>7, ConnectorMeets
  <2>2. /\ key'[c] = [of |-> c, by |-> h] /\ peer'[c] = IdOf[h] /\ stage'[c] = "ready"
        /\ key'[h] = key[h]
    BY <1>0, <2>1
  <2>3. key'[c].of = c /\ key'[c].by = h /\ key[h] = [of |-> c, by |-> h]
    <3>1. key[h] \in [of : Client, by : Client] /\ key[h].of = c /\ key[h].by = h
      BY <1>0, <2>1 DEF IsHost, Key
    <3>2. key[h] = [of |-> c, by |-> h]
      BY <3>1
    <3>. QED
      BY <2>2, <3>2
  <2>4. wire'[c] = <<Hello(c)>> /\ Len(wire'[c]) = 1 /\ wire'[c][1] = Hello(c)
    <3>1. wire[c] = <<Hello(c)>>
      BY <2>1 DEF Wires, WireOf
    <3>. QED
      BY <2>1, <3>1
  <2>7. key'[key'[c].by] = key'[c] /\ key'[c].by # c /\ peer'[c] = IdOf[key'[c].by]
    BY <2>1, <2>2, <2>3
  <2>5. WireOf(c)'
    BY <2>2, <2>3, <2>4, <2>7 DEF WireOf, SessionOn, IsConnector, IsHost, BeforeSession
  <2>6. ASSUME NEW d \in Client, d # c PROVE WireOf(d)'
    BY <1>0, <2>1, <2>6, WireOfKept
  <2>. QED
    BY <2>5, <2>6 DEF Wires
<1>8. ASSUME NEW c \in Client, ShowChat(c) \/ DropFrame(c) PROVE Wires'
  BY <1>1, <1>8 DEF ShowChat, DropFrame
<1>9. CASE RelayWorks
  BY <1>1, <1>9 DEF RelayWorks, evars
<1>10. CASE UNCHANGED vars
  BY <1>1, <1>10 DEF vars, evars
<1>. QED
  BY <1>2, <1>3, <1>4, <1>5, <1>6, <1>7, <1>8, <1>9, <1>10 DEF ChatNext, Engine

-----------------------------------------------------------------------------
(* What one connection reads and shows *)

\* c's engine drops a frame, or ends over it.
Drops(c) ==
  /\ Unread(c) /\ rd'[c] = rd[c] + 1 /\ key'[c] = key[c] /\ shown'[c] = shown[c]
  /\ \/ stage[c] = "ready" /\ ~Decrypts(c) /\ stage'[c] \in {"ready", "over"}
     \/ stage[c] \in {"listen", "await"} /\ stage'[c] = "over"

\* c's engine reads nothing.
Idle(c) ==
  /\ rd'[c] = rd[c] /\ key'[c] = key[c] /\ shown'[c] = shown[c]
  /\ \/ stage'[c] = stage[c] \/ stage'[c] = "over"
     \/ stage[c] \in BeforeSession /\ stage'[c] \in BeforeSession

LEMMA EngineKinds ==
  ASSUME EngineTypeOK, Readers, [ChatNext]_vars, NEW d \in Client
  PROVE  Idle(d) \/ Drops(d) \/ ShowChat(d) \/ HostAnswer(d) \/ ConnectorReady(d)
<1>0. /\ stage \in [Client -> {"off", "hello", "await", "listen", "ready", "over"}]
      /\ key \in [Client -> Key] /\ rd \in [Client -> Nat]
      /\ shown \in [Client -> Seq(Client \X Nat)]
  BY DEF EngineTypeOK
<1>1. CASE UNCHANGED evars
  BY <1>1 DEF evars, Idle
<1>2. ASSUME NEW c \in Client, Connect(c) PROVE Idle(d)
  <2>1. stage[c] = "off"
    BY <1>2 DEF Connect, Open, Readers
  <2>. QED
    BY <1>0, <1>2, <2>1 DEF Connect, Idle, BeforeSession
<1>3. ASSUME NEW c \in Client, SendHello(c) PROVE Idle(d)
  BY <1>0, <1>3 DEF SendHello, Idle, BeforeSession
<1>4. ASSUME NEW c \in Client, SendChat(c) PROVE Idle(d)
  BY <1>4 DEF SendChat, Idle
<1>5. ASSUME NEW c \in Client, End(c) PROVE Idle(d)
  BY <1>0, <1>5 DEF End, Shut, Idle
<1>6. ASSUME NEW c \in Client, c # d, HostAnswer(c) PROVE Idle(d)
  BY <1>0, <1>6 DEF HostAnswer, ReadOne, Idle
<1>7. ASSUME NEW c \in Client, c # d, ConnectorReady(c) PROVE Idle(d)
  BY <1>0, <1>7 DEF ConnectorReady, ReadOne, Idle
<1>8. ASSUME NEW c \in Client, c # d, ShowChat(c) PROVE Idle(d)
  BY <1>0, <1>8 DEF ShowChat, ReadOne, Idle
<1>9. ASSUME NEW c \in Client, HandshakeFails(c) PROVE Idle(d) \/ Drops(d)
  BY <1>0, <1>9 DEF HandshakeFails, Shut, ReadOne, Idle, Drops
<1>10. ASSUME NEW c \in Client, DecryptAborts(c) PROVE Idle(d) \/ Drops(d)
  BY <1>0, <1>10 DEF DecryptAborts, TagMismatch, Shut, ReadOne, Idle, Drops
<1>11. ASSUME NEW c \in Client, DropFrame(c) PROVE Idle(d) \/ Drops(d)
  BY <1>0, <1>11 DEF DropFrame, ReadOne, Idle, Drops
<1>. QED
  BY <1>1, <1>2, <1>3, <1>4, <1>5, <1>6, <1>7, <1>8, <1>9, <1>10, <1>11
     DEF ChatNext, Engine, RelayWorks, vars, evars

LEMMA ReadersStep ==
  ASSUME NetInv, EngineTypeOK, Wires, Readers, [ChatNext]_vars
  PROVE  Readers'
<1>. SUFFICES ASSUME NEW d \in Client
              PROVE  /\ status'[d] = "out" => stage'[d] = "off"
                     /\ stage'[d] \in BeforeSession => rd'[d] = 0
                     /\ ~SessionOn(d)' => shown'[d] = <<>>
                     /\ SessionOn(d)' => /\ rd'[d] >= 1 /\ got'[d][1].from = Partner(d)'
                                         /\ got'[d][1].n = 1
  BY DEF Readers
<1>0. /\ key \in [Client -> Key] /\ rd[d] \in Nat /\ rd \in [Client -> Nat]
      /\ stage \in [Client -> {"off", "hello", "await", "listen", "ready", "over"}]
  BY DEF EngineTypeOK
<1>1. /\ Len(got[d]) \in Nat
      /\ \A i \in 1 .. Len(got[d]) : got'[d][i] = got[d][i]
  BY RelaySeen, GotGrows DEF NetInv
<1>2. rd[d] <= Len(got[d])
  BY DEF EngineTypeOK
<1>3. SessionOn(d) => rd[d] >= 1 /\ got'[d][1].from = Partner(d) /\ got'[d][1].n = 1
  <2>. SUFFICES ASSUME SessionOn(d)
                PROVE  rd[d] >= 1 /\ got'[d][1].from = Partner(d) /\ got'[d][1].n = 1
    OBVIOUS
  <2>1. rd[d] >= 1 /\ got[d][1].from = Partner(d) /\ got[d][1].n = 1
    BY DEF Readers
  <2>2. 1 \in 1 .. Len(got[d])
    BY <1>0, <1>1, <1>2, <2>1
  <2>. QED
    BY <1>1, <2>1, <2>2
<1>4. status'[d] = "out" => stage'[d] = "off"
  <2>. SUFFICES ASSUME status'[d] = "out" PROVE stage'[d] = "off"
    OBVIOUS
  <2>1. ASSUME NEW c \in Client, Open(c) PROVE status[d] = "out" /\ d # c
    BY <2>1 DEF Open, NetInv, TypeOK
  <2>2. ASSUME UNCHANGED status PROVE status[d] = "out"
    BY <2>2
  <2>3. ASSUME NEW c \in Client, NEW q \in {"in", "gone"}, status' = [status EXCEPT ![c] = q]
        PROVE  status[d] = "out"
    BY <2>3 DEF NetInv, TypeOK
  <2>4. status[d] = "out"
    BY <2>1, <2>2, <2>3 DEF ChatNext, Connect, Engine, SendChat, End, RelayWorks, vars, bvars,
       SendHello, HostAnswer, ConnectorReady, HandshakeFails, ShowChat, DropFrame, DecryptAborts,
       Transmit, Send, Shut, Join, Take, Leave, Deliver, Lose, Collide
  <2>5. stage[d] = "off"
    BY <2>4 DEF Readers
  <2>6. ASSUME NEW c \in Client, Connect(c) PROVE stage'[d] = "off"
    BY <1>0, <2>1, <2>5, <2>6 DEF Connect
  <2>7. ASSUME NEW c \in Client, Engine(c) \/ SendChat(c) \/ End(c) PROVE stage'[d] = "off"
    <3>1. UNCHANGED stage \/ (stage[c] # "off" /\ \E q : stage' = [stage EXCEPT ![c] = q])
      BY <2>7 DEF Engine, SendChat, End, SendHello, HostAnswer, ConnectorReady, HandshakeFails,
                  ShowChat, DropFrame, DecryptAborts, Shut
    <3>. QED
      BY <1>0, <2>5, <3>1
  <2>. QED
    BY <2>5, <2>6, <2>7 DEF ChatNext, RelayWorks, evars, vars
<1>5. CASE Idle(d)
  <2>1. stage'[d] \in BeforeSession => rd'[d] = 0
    BY <1>5 DEF Idle, Readers, BeforeSession
  <2>2. ~SessionOn(d)' => shown'[d] = <<>>
    BY <1>5 DEF Idle, Readers, SessionOn
  <2>. QED
    BY <1>3, <1>4, <1>5, <2>1, <2>2 DEF Idle, SessionOn, Partner
<1>6. CASE Drops(d)
  BY <1>0, <1>3, <1>4, <1>6 DEF Drops, Readers, SessionOn, Partner, BeforeSession
<1>7. CASE ShowChat(d)
  <2>1. /\ stage'[d] = "ready" /\ key'[d] = key[d] /\ rd'[d] = rd[d] + 1 /\ stage[d] = "ready"
    BY <1>0, <1>7 DEF ShowChat, ReadOne
  <2>2. SessionOn(d)
    BY <2>1 DEF Wires, WireOf
  <2>. QED
    BY <1>0, <1>3, <1>4, <2>1, <2>2 DEF SessionOn, Partner, BeforeSession
<1>8. CASE HostAnswer(d)
  <2>1. PICK p \in Client :
          /\ p # d /\ got[d][1].from = p /\ got[d][1].n = 1 /\ 1 <= Len(got[d])
          /\ rd' = [rd EXCEPT ![d] = 1]
          /\ key' = [key EXCEPT ![d] = [of |-> p, by |-> d]]
          /\ stage' = [stage EXCEPT ![d] = "ready"]
    BY <1>8, HostMeets
  <2>2. key'[d].of = p /\ key'[d].by = d /\ rd'[d] = 1 /\ stage'[d] = "ready"
    BY <1>0, <2>1
  <2>3. got'[d][1] = got[d][1]
    BY <1>1, <2>1
  <2>. QED
    BY <1>4, <2>1, <2>2, <2>3 DEF SessionOn, Partner, BeforeSession
<1>9. CASE ConnectorReady(d)
  <2>1. PICK h \in Client :
          /\ h # d /\ got[d][1].from = h /\ got[d][1].n = 1 /\ 1 <= Len(got[d])
          /\ rd' = [rd EXCEPT ![d] = 1]
          /\ key' = [key EXCEPT ![d] = [of |-> d, by |-> h]]
          /\ stage' = [stage EXCEPT ![d] = "ready"]
    BY <1>9, ConnectorMeets
  <2>2. key'[d].of = d /\ key'[d].by = h /\ rd'[d] = 1 /\ stage'[d] = "ready"
    BY <1>0, <2>1
  <2>3. got'[d][1] = got[d][1]
    BY <1>1, <2>1
  <2>. QED
    BY <1>4, <2>1, <2>2, <2>3 DEF SessionOn, Partner, BeforeSession
<1>. QED
  BY EngineKinds, <1>5, <1>6, <1>7, <1>8, <1>9

-----------------------------------------------------------------------------
(* Key agreement, and what is shown *)
LEMMA KeysAgree ==
  ASSUME EngineTypeOK, Wires
  PROVE  KeyAgreement
<1>. SUFFICES ASSUME NEW c \in Client, stage[c] = "ready", key[c].by # c
              PROVE  LET h == key[c].by IN
                     /\ key[c].of = c /\ key[h] = key[c] /\ stage[h] \in {"ready", "over"}
                     /\ peer[c] = IdOf[h] /\ peer[h] = IdOf[c]
  BY DEF KeyAgreement
<1>. DEFINE h == key[c].by
<1>1. h \in Client /\ stage[h] \in {"off", "hello", "await", "listen", "ready", "over"}
  BY DEF EngineTypeOK, Key
<1>2. WireOf(c) /\ WireOf(h)
  BY <1>1 DEF Wires
<1>3. key[c].of = c /\ IsConnector(c)
  BY <1>2 DEF WireOf, IsConnector, IsHost
<1>4. key[h] = key[c] /\ peer[c] = IdOf[h]
  BY <1>2, <1>3 DEF WireOf
<1>5. key[h].by = h /\ key[h].of = c /\ h # c
  BY <1>3, <1>4
<1>6. SessionOn(h) /\ IsHost(h)
  BY <1>5 DEF SessionOn, IsHost
<1>7. peer[h] = IdOf[c] /\ stage[h] \in {"ready", "over"}
  BY <1>1, <1>2, <1>5, <1>6 DEF WireOf, BeforeSession
<1>. QED
  BY <1>3, <1>4, <1>7

\* The first frame of a connection is not a chat message.
LEMMA FirstIsHandshake ==
  ASSUME Wires, NEW p \in Client, Len(wire[p]) >= 1, NEW k
  PROVE  wire[p][1] # Chat(k)
<1>1. \/ wire[p] = <<>> \/ wire[p] = <<Hello(p)>>
      \/ wire[p][1] = Hello(p) \/ wire[p][1] = Response(PublicKey(key[p].of), p)
  BY DEF Wires, WireOf
<1>2. \/ wire[p][1] = Hello(p) \/ wire[p][1] = Response(PublicKey(key[p].of), p)
  BY <1>1
<1>3. Hello(p) # Chat(k)
  BY Apart
<1>4. Response(PublicKey(key[p].of), p) # Chat(k)
  BY AnswerIsFor
<1>. QED
  BY <1>2, <1>3, <1>4

\* A chat message that opens with c's key was sent by the other end of c's session.
LEMMA SameKeyPartner ==
  ASSUME EngineTypeOK, Wires, NEW c \in Client, NEW p \in Client, p # c,
         SessionOn(c), key[p] = key[c]
  PROVE  p = Partner(c)
<1>1. SessionOn(p)
  BY DEF SessionOn
<1>2. key[c].of = c \/ key[c].by = c
  BY DEF Wires, WireOf, IsConnector, IsHost
<1>3. key[p].of = p \/ key[p].by = p
  BY <1>1 DEF Wires, WireOf, IsConnector, IsHost
<1>. QED
  BY <1>1, <1>2, <1>3 DEF SessionOn, Partner

LEMMA ShowsPeer ==
  ASSUME NetInv, EngineTypeOK, Wires, NEW c \in Client, ShowChat(c)
  PROVE  /\ SessionOn(c) /\ Front(c).from = Partner(c)
         /\ Front(c).n \in 1 .. Len(wire[Front(c).from])
         /\ wire[Front(c).from][Front(c).n] = Chat(key[c])
<1>. DEFINE p == Front(c).from
<1>1. stage[c] = "ready" /\ Unread(c) /\ Carried(c) = Chat(key[c])
  BY DEF ShowChat, ReadOne, Decrypts
<1>2. SessionOn(c)
  BY <1>1 DEF Wires, WireOf
<1>3. /\ p \in Client /\ p # c /\ Front(c).n \in 1 .. Len(wire[p])
      /\ Carried(c) = wire[p][Front(c).n]
  BY <1>1, FrontFacts
<1>4. Carried(c) = Chat(key[p])
  <2>1. \/ Carried(c) = Hello(p) \/ Carried(c) = Response(PublicKey(key[p].of), p)
        \/ Carried(c) = Chat(key[p])
    BY <1>1, <1>3, CarriedIs
  <2>2. Hello(p) # Chat(key[c])
    BY Apart
  <2>3. Response(PublicKey(key[p].of), p) # Chat(key[c])
    <3>1. ASSUME NEW q  PROVE  Response(PublicKey(q), p) # Chat(key[c])
      BY AnswerIsFor
    <3>. QED
      BY <3>1
  <2>4. Carried(c) = Chat(key[c])
    BY <1>1
  <2>. HIDE DEF p
  <2>. QED
    BY <2>1, <2>2, <2>3, <2>4
<1>5. key[p] = key[c]
  BY <1>1, <1>4 DEF Chat
<1>6. p = Partner(c)
  BY <1>2, <1>3, <1>5, SameKeyPartner
<1>. HIDE DEF p
<1>. QED
  BY <1>1, <1>2, <1>3, <1>6 DEF p

\* What ShowChat does to what is shown.
LEMMA ShowAppends ==
  ASSUME NetInv, EngineTypeOK, NEW c \in Client, ShowChat(c)
  PROVE  /\ Len(shown[c]) \in Nat /\ Len(shown'[c]) = Len(shown[c]) + 1
         /\ \A i \in 1 .. Len(shown[c]) : shown'[c][i] = shown[c][i]
         /\ shown'[c][Len(shown[c]) + 1] = <<Front(c).from, Front(c).n>>
         /\ rd'[c] = rd[c] + 1 /\ key'[c] = key[c] /\ rd[c] \in Nat
<1>1. /\ shown' = [shown EXCEPT ![c] = Append(shown[c], <<Front(c).from, Front(c).n>>)]
      /\ rd' = [rd EXCEPT ![c] = rd[c] + 1] /\ UNCHANGED key /\ Unread(c)
  BY DEF ShowChat, ReadOne
<1>2. <<Front(c).from, Front(c).n>> \in Client \X Nat
  BY <1>1, FrontFacts
<1>3. shown \in [Client -> Seq(Client \X Nat)] /\ rd \in [Client -> Nat]
  BY DEF EngineTypeOK
<1>4. shown'[c] = Append(shown[c], <<Front(c).from, Front(c).n>>) /\ shown[c] \in Seq(Client \X Nat)
  BY <1>1, <1>3
<1>. QED
  BY <1>1, <1>2, <1>3, <1>4

\* Every frame that was read is one its sender has put on its connection.
LEMMA ReadFrames ==
  ASSUME NetInv, EngineTypeOK, NEW c \in Client, NEW k \in 1 .. rd[c]
  PROVE  /\ k \in 1 .. Len(got[c]) /\ got[c][k].from \in Client /\ got[c][k].n \in Nat
         /\ got[c][k].n \in 1 .. Len(wire[got[c][k].from])
<1>1. k \in 1 .. Len(got[c])
  <2>1. rd[c] \in Nat /\ rd[c] <= Len(got[c]) /\ Len(got[c]) \in Nat
    BY DEF EngineTypeOK, NetInv, TypeOK
  <2>. QED
    BY <2>1
<1>2. got[c][k].from \in Client /\ got[c][k].n \in Nat
  BY <1>1, FrameFields DEF NetInv
<1>3. got[c][k].n \in 1 .. taken[got[c][k].from]
  BY <1>1 DEF NetInv, Arrived
<1>4. taken[got[c][k].from] <= sent[got[c][k].from] /\ taken[got[c][k].from] \in Nat
  BY <1>2 DEF NetInv, Copies, TypeOK
<1>5. sent[got[c][k].from] = Len(wire[got[c][k].from]) /\ Len(wire[got[c][k].from]) \in Nat
  BY <1>2 DEF EngineTypeOK
<1>. QED
  BY <1>1, <1>2, <1>3, <1>4, <1>5

LEMMA ShownIsPeersStep ==
  ASSUME NetInv, EngineTypeOK, Wires, Readers, ShownIsPeers, Shown, [ChatNext]_vars
  PROVE  ShownIsPeers'
<1>. SUFFICES ASSUME NEW c \in Client, NEW i \in 1 .. Len(shown'[c])
              PROVE  /\ shown'[c][i][1] = Partner(c)'
                     /\ shown'[c][i][2] <= Len(wire'[shown'[c][i][1]])
                     /\ wire'[shown'[c][i][1]][shown'[c][i][2]] = Chat(key'[c])
  BY DEF ShownIsPeers
<1>1. ASSUME NEW p \in Client, NEW n \in 1 .. Len(wire[p]), SessionOn(c),
             p = Partner(c), wire[p][n] = Chat(key[c]), shown'[c][i] = <<p, n>>
      PROVE  /\ shown'[c][i][1] = Partner(c)'
             /\ shown'[c][i][2] <= Len(wire'[shown'[c][i][1]])
             /\ wire'[shown'[c][i][1]][shown'[c][i][2]] = Chat(key'[c])
  <2>1. key'[c] = key[c]
    BY <1>1, SessionKept
  <2>2. Len(wire[p]) \in Nat /\ Len(wire'[p]) \in Nat /\ n <= Len(wire'[p]) /\ wire'[p][n] = wire[p][n]
    BY WireGrows
  <2>. QED
    BY <1>1, <2>1, <2>2 DEF Partner
<1>2. ASSUME i \in 1 .. Len(shown[c]), shown'[c][i] = shown[c][i]
      PROVE  /\ shown'[c][i][1] = Partner(c)'
             /\ shown'[c][i][2] <= Len(wire'[shown'[c][i][1]])
             /\ wire'[shown'[c][i][1]][shown'[c][i][2]] = Chat(key'[c])
  <2>1. SessionOn(c)
    BY <1>2 DEF Readers
  <2>2. /\ shown[c][i][1] = Partner(c) /\ shown[c][i][2] <= Len(wire[Partner(c)])
        /\ wire[Partner(c)][shown[c][i][2]] = Chat(key[c])
    BY <1>2 DEF ShownIsPeers
  <2>3. PICK k \in 1 .. rd[c] : shown[c][i] = <<got[c][k].from, got[c][k].n>>
    BY <1>2 DEF Shown
  <2>4. got[c][k].from \in Client /\ got[c][k].n \in 1 .. Len(wire[got[c][k].from])
    BY ReadFrames
  <2>5. got[c][k].from = Partner(c) /\ wire[got[c][k].from][got[c][k].n] = Chat(key[c])
    BY <2>2, <2>3
  <2>. QED
    BY <1>1, <1>2, <2>1, <2>3, <2>4, <2>5
<1>3. CASE shown'[c] = shown[c]
  BY <1>2, <1>3
<1>4. CASE ShowChat(c)
  <2>1. CASE i \in 1 .. Len(shown[c])
    BY <1>2, <1>4, <2>1, ShowAppends
  <2>2. CASE i \notin 1 .. Len(shown[c])
    <3>1. i = Len(shown[c]) + 1 /\ shown'[c][i] = <<Front(c).from, Front(c).n>>
      BY <1>4, <2>2, ShowAppends
    <3>2. /\ SessionOn(c) /\ Front(c).from = Partner(c)
          /\ Front(c).n \in 1 .. Len(wire[Front(c).from])
          /\ wire[Front(c).from][Front(c).n] = Chat(key[c])
      BY <1>4, ShowsPeer
    <3>3. Front(c).from \in Client
      BY <1>4, FrontFacts DEF ShowChat, ReadOne
    <3>. QED
      BY <1>1, <3>1, <3>2, <3>3
  <2>. QED
    BY <2>1, <2>2
<1>5. ASSUME HostAnswer(c) \/ ConnectorReady(c) PROVE shown'[c] = shown[c]
  BY <1>5 DEF HostAnswer, ConnectorReady
<1>. QED
  BY EngineKinds, <1>3, <1>4, <1>5 DEF Idle, Drops

LEMMA ShownStep ==
  ASSUME NetInv, EngineTypeOK, Wires, Readers, ShownIsPeers, Shown, [ChatNext]_vars
  PROVE  Shown'
<1>. SUFFICES ASSUME NEW c \in Client
              PROVE  /\ \A i \in 1 .. Len(shown'[c]) : \E k \in 1 .. rd'[c] :
                          shown'[c][i] = <<got'[c][k].from, got'[c][k].n>>
                     /\ \A k \in 1 .. rd'[c] :
                          (/\ SessionOn(c)' /\ got'[c][k].intact
                           /\ wire'[got'[c][k].from][got'[c][k].n] = Chat(key'[c]))
                            => \E i \in 1 .. Len(shown'[c]) :
                                 shown'[c][i] = <<got'[c][k].from, got'[c][k].n>>
                     /\ \A i, j \in 1 .. Len(shown'[c]) :
                          i < j => shown'[c][i][2] < shown'[c][j][2]
  BY DEF Shown
<1>0. rd[c] \in Nat /\ rd'[c] \in Nat /\ Len(shown[c]) \in Nat
  BY EngineTypeStep DEF EngineTypeOK
<1>1. \A k \in 1 .. rd[c] :
        /\ got'[c][k] = got[c][k]
        /\ wire'[got[c][k].from][got[c][k].n] = wire[got[c][k].from][got[c][k].n]
  BY ReadFrames, RelaySeen, GotGrows, WireGrows DEF NetInv
<1>2. /\ \A i \in 1 .. Len(shown[c]) : \E k \in 1 .. rd[c] :
           shown[c][i] = <<got[c][k].from, got[c][k].n>>
      /\ \A k \in 1 .. rd[c] :
           (/\ SessionOn(c) /\ got[c][k].intact
            /\ wire[got[c][k].from][got[c][k].n] = Chat(key[c]))
             => \E i \in 1 .. Len(shown[c]) : shown[c][i] = <<got[c][k].from, got[c][k].n>>
      /\ \A i, j \in 1 .. Len(shown[c]) : i < j => shown[c][i][2] < shown[c][j][2]
  BY DEF Shown
<1>3. CASE Idle(c)
  <2>1. rd'[c] = rd[c] /\ shown'[c] = shown[c] /\ key'[c] = key[c] /\ (SessionOn(c)' <=> SessionOn(c))
    BY <1>3 DEF Idle, SessionOn
  <2>2. \A i \in 1 .. Len(shown'[c]) : \E k \in 1 .. rd'[c] :
          shown'[c][i] = <<got'[c][k].from, got'[c][k].n>>
    <3>. SUFFICES ASSUME NEW i \in 1 .. Len(shown[c])
                  PROVE  \E k \in 1 .. rd[c] : shown[c][i] = <<got'[c][k].from, got'[c][k].n>>
      BY <2>1
    <3>1. PICK k \in 1 .. rd[c] : shown[c][i] = <<got[c][k].from, got[c][k].n>>
      BY <1>2
    <3>. QED
      BY <1>1, <3>1
  <2>3. ASSUME NEW k \in 1 .. rd[c], SessionOn(c), got'[c][k].intact,
               wire'[got'[c][k].from][got'[c][k].n] = Chat(key[c])
        PROVE  \E i \in 1 .. Len(shown[c]) : shown[c][i] = <<got'[c][k].from, got'[c][k].n>>
    <3>1. got[c][k].intact /\ wire[got[c][k].from][got[c][k].n] = Chat(key[c])
      BY <1>1, <2>3
    <3>2. \E i \in 1 .. Len(shown[c]) : shown[c][i] = <<got[c][k].from, got[c][k].n>>
      BY <1>2, <2>3, <3>1
    <3>. QED
      BY <1>1, <3>2
  <2>. QED
    BY <1>2, <2>1, <2>2, <2>3
<1>4. CASE Drops(c)
  <2>1. /\ rd'[c] = rd[c] + 1 /\ shown'[c] = shown[c] /\ key'[c] = key[c]
        /\ SessionOn(c)' <=> SessionOn(c)
    BY <1>4 DEF Drops, SessionOn
  <2>2. /\ Front(c) = got[c][rd[c] + 1] /\ rd[c] + 1 \in 1 .. Len(got[c])
        /\ Carried(c) = wire[Front(c).from][Front(c).n]
        /\ Front(c).from \in Client /\ Front(c).n \in 1 .. Len(wire[Front(c).from])
    BY <1>4, FrontFacts DEF Drops
  <2>3. /\ got'[c][rd[c] + 1] = Front(c)
        /\ wire'[Front(c).from][Front(c).n] = wire[Front(c).from][Front(c).n]
    BY <2>2, RelaySeen, GotGrows, WireGrows DEF NetInv
  <2>4. ~(SessionOn(c) /\ Front(c).intact /\ wire[Front(c).from][Front(c).n] = Chat(key[c]))
    <3>1. CASE stage[c] = "ready"
      BY <1>4, <2>2, <3>1 DEF Drops, Decrypts
    <3>2. CASE stage[c] \in {"listen", "await"}
      BY <3>2 DEF Wires, WireOf, BeforeSession
    <3>. QED
      BY <1>4, <3>1, <3>2 DEF Drops
  <2>5. \A k \in 1 .. rd'[c] : k \in 1 .. rd[c] \/ k = rd[c] + 1
    BY <1>0, <2>1
  <2>6. 1 .. rd[c] \subseteq 1 .. rd'[c]
    BY <1>0, <2>1
  <2>7. \A i \in 1 .. Len(shown'[c]) : \E k \in 1 .. rd'[c] :
          shown'[c][i] = <<got'[c][k].from, got'[c][k].n>>
    <3>. SUFFICES ASSUME NEW i \in 1 .. Len(shown[c])
                  PROVE  \E k \in 1 .. rd'[c] : shown[c][i] = <<got'[c][k].from, got'[c][k].n>>
      BY <2>1
    <3>1. PICK k \in 1 .. rd[c] : shown[c][i] = <<got[c][k].from, got[c][k].n>>
      BY <1>2
    <3>. QED
      BY <1>1, <2>6, <3>1
  <2>8. \A k \in 1 .. rd'[c] :
          (/\ SessionOn(c)' /\ got'[c][k].intact
           /\ wire'[got'[c][k].from][got'[c][k].n] = Chat(key'[c]))
            => \E i \in 1 .. Len(shown'[c]) : shown'[c][i] = <<got'[c][k].from, got'[c][k].n>>
    BY <1>1, <1>2, <2>1, <2>3, <2>4, <2>5
  <2>. QED
    BY <1>2, <2>1, <2>7, <2>8
<1>5. CASE ShowChat(c)
  <2>1. /\ SessionOn(c) /\ Front(c).from = Partner(c)
    BY <1>5, ShowsPeer
  <2>2. /\ Len(shown'[c]) = Len(shown[c]) + 1
        /\ \A i \in 1 .. Len(shown[c]) : shown'[c][i] = shown[c][i]
        /\ shown'[c][Len(shown[c]) + 1] = <<Front(c).from, Front(c).n>>
        /\ rd'[c] = rd[c] + 1 /\ key'[c] = key[c]
    BY <1>5, ShowAppends
  <2>3. Front(c) = got[c][rd[c] + 1] /\ rd[c] + 1 \in 1 .. Len(got[c]) /\ Front(c).n \in Nat
    <3>1. /\ Front(c) = got[c][rd[c] + 1] /\ rd[c] + 1 \in 1 .. Len(got[c])
      BY <1>5, FrontFacts DEF ShowChat, ReadOne
    <3>. QED
      BY <3>1, FrameFields DEF NetInv
  <2>4. got'[c][rd[c] + 1] = Front(c)
    BY <2>3, RelaySeen, GotGrows DEF NetInv
  <2>5. \A k \in 1 .. rd'[c] : k \in 1 .. rd[c] \/ k = rd[c] + 1
    BY <1>0, <2>2
  <2>6. 1 .. rd[c] \subseteq 1 .. rd'[c] /\ rd[c] + 1 \in 1 .. rd'[c]
    BY <1>0, <2>2
  <2>7. /\ \A i \in 1 .. Len(shown'[c]) : i \in 1 .. Len(shown[c]) \/ i = Len(shown[c]) + 1
        /\ 1 .. Len(shown[c]) \subseteq 1 .. Len(shown'[c])
        /\ Len(shown[c]) + 1 \in 1 .. Len(shown'[c])
    BY <1>0, <2>2
  <2>8. \A i \in 1 .. Len(shown'[c]) : \E k \in 1 .. rd'[c] :
          shown'[c][i] = <<got'[c][k].from, got'[c][k].n>>
    <3>. TAKE i \in 1 .. Len(shown'[c])
    <3>1. CASE i \in 1 .. Len(shown[c])
      <4>1. PICK k \in 1 .. rd[c] : shown[c][i] = <<got[c][k].from, got[c][k].n>>
        BY <1>2, <3>1
      <4>. QED
        BY <1>1, <2>2, <2>6, <3>1, <4>1
    <3>2. CASE i = Len(shown[c]) + 1
      BY <2>2, <2>4, <2>6, <3>2
    <3>. QED
      BY <2>7, <3>1, <3>2
  <2>9. \A k \in 1 .. rd'[c] :
          (/\ SessionOn(c)' /\ got'[c][k].intact
           /\ wire'[got'[c][k].from][got'[c][k].n] = Chat(key'[c]))
            => \E i \in 1 .. Len(shown'[c]) : shown'[c][i] = <<got'[c][k].from, got'[c][k].n>>
    <3>. SUFFICES ASSUME NEW k \in 1 .. rd'[c], got'[c][k].intact,
                         wire'[got'[c][k].from][got'[c][k].n] = Chat(key'[c])
                  PROVE  \E i \in 1 .. Len(shown'[c]) :
                           shown'[c][i] = <<got'[c][k].from, got'[c][k].n>>
      OBVIOUS
    <3>1. CASE k \in 1 .. rd[c]
      <4>1. PICK i \in 1 .. Len(shown[c]) : shown[c][i] = <<got[c][k].from, got[c][k].n>>
        BY <1>1, <1>2, <2>1, <2>2, <3>1
      <4>. QED
        BY <1>1, <2>2, <2>7, <3>1, <4>1
    <3>2. CASE k = rd[c] + 1
      BY <2>2, <2>4, <2>7, <3>2
    <3>. QED
      BY <2>5, <3>1, <3>2
  <2>10. \A i, j \in 1 .. Len(shown'[c]) : i < j => shown'[c][i][2] < shown'[c][j][2]
    <3>. SUFFICES ASSUME NEW i \in 1 .. Len(shown'[c]), NEW j \in 1 .. Len(shown'[c]), i < j
                  PROVE  shown'[c][i][2] < shown'[c][j][2]
      OBVIOUS
    <3>1. i \in 1 .. Len(shown[c])
      BY <1>0, <2>2
    <3>2. CASE j \in 1 .. Len(shown[c])
      BY <1>2, <2>2, <3>1, <3>2
    <3>3. CASE j = Len(shown[c]) + 1
      <4>1. PICK k \in 1 .. rd[c] : shown[c][i] = <<got[c][k].from, got[c][k].n>>
        BY <1>2, <3>1
      <4>2. shown[c][i][1] = Partner(c)
        BY <3>1 DEF ShownIsPeers
      <4>3. got[c][k].from = got[c][rd[c] + 1].from
        BY <2>1, <2>3, <4>1, <4>2
      <4>4. k \in 1 .. Len(got[c]) /\ k < rd[c] + 1
        BY <1>0, ReadFrames
      <4>5. got[c][k].n < got[c][rd[c] + 1].n
        BY <2>3, <4>3, <4>4 DEF NetInv, FramesInOrder
      <4>. QED
        BY <2>2, <2>3, <3>1, <3>3, <4>1, <4>5
    <3>. QED
      BY <2>7, <3>2, <3>3
  <2>. QED
    BY <2>8, <2>9, <2>10
<1>6. ASSUME NEW p \in Client, NEW q, p # c, ~SessionOn(c), 1 <= Len(got[c]),
             got[c][1].from = p, got[c][1].n = 1,
             rd' = [rd EXCEPT ![c] = 1], UNCHANGED shown
      PROVE  /\ \A i \in 1 .. Len(shown'[c]) : \E k \in 1 .. rd'[c] :
                  shown'[c][i] = <<got'[c][k].from, got'[c][k].n>>
             /\ \A k \in 1 .. rd'[c] : wire'[got'[c][k].from][got'[c][k].n] # Chat(q)
             /\ \A i, j \in 1 .. Len(shown'[c]) : i < j => shown'[c][i][2] < shown'[c][j][2]
  <2>1. rd'[c] = 1 /\ shown'[c] = <<>>
    BY <1>6 DEF EngineTypeOK, Readers
  <2>2. got'[c][1] = got[c][1]
    <3>1. 1 \in 1 .. Len(got[c])
      BY <1>6 DEF NetInv, TypeOK
    <3>. QED
      BY <3>1, RelaySeen, GotGrows DEF NetInv
  <2>3. Len(wire[p]) >= 1 /\ 1 \in 1 .. Len(wire[p])
    <3>1. 1 \in 1 .. Len(got[c])
      BY <1>6 DEF NetInv, TypeOK
    <3>2. 1 \in 1 .. taken[p]
      BY <1>6, <3>1 DEF NetInv, Arrived
    <3>3. /\ taken[p] <= sent[p] /\ sent[p] = Len(wire[p])
          /\ sent[p] \in Nat /\ taken[p] \in Nat
      BY DEF NetInv, Copies, EngineTypeOK, TypeOK
    <3>. QED
      BY <3>2, <3>3
  <2>4. wire[p][1] # Chat(q)
    BY <2>3, FirstIsHandshake
  <2>5. wire'[p][1] # Chat(q)
    BY <2>3, <2>4, WireGrows
  <2>6. ASSUME NEW k \in 1 .. rd'[c]
        PROVE  wire'[got'[c][k].from][got'[c][k].n] # Chat(q)
    <3>1. k = 1
      BY <2>1
    <3>. QED
      BY <1>6, <2>2, <2>5, <3>1
  <2>7. 1 .. Len(shown'[c]) = {}
    BY <2>1
  <2>. QED
    BY <2>6, <2>7
<1>7. CASE HostAnswer(c)
  <2>1. PICK p \in Client : /\ p # c /\ ~SessionOn(c) /\ 1 <= Len(got[c])
                           /\ got[c][1].from = p /\ got[c][1].n = 1
                           /\ rd' = [rd EXCEPT ![c] = 1] /\ UNCHANGED shown
    BY <1>7, HostMeets
  <2>. QED
    BY <1>6, <2>1
<1>8. CASE ConnectorReady(c)
  <2>1. PICK p \in Client : /\ p # c /\ ~SessionOn(c) /\ 1 <= Len(got[c])
                           /\ got[c][1].from = p /\ got[c][1].n = 1
                           /\ rd' = [rd EXCEPT ![c] = 1] /\ UNCHANGED shown
    BY <1>8, ConnectorMeets
  <2>. QED
    BY <1>6, <2>1
<1>. QED
  BY EngineKinds, <1>3, <1>4, <1>5, <1>7, <1>8

-----------------------------------------------------------------------------
(* The theorems *)
LEMMA ChatStart == ChatInit => ChatInv
<1>. SUFFICES ASSUME ChatInit PROVE ChatInv
  OBVIOUS
<1>1. NetInv
  BY NetStart DEF ChatInit
<1>2. EngineTypeOK
  BY ChatAssumption DEF ChatInit, Init, EngineTypeOK, Key
<1>3. Wires /\ Readers
  BY DEF ChatInit, Wires, WireOf, Readers, SessionOn, IsConnector, IsHost
<1>4. ShownIsPeers /\ Shown
  BY DEF ChatInit, ShownIsPeers, Shown
<1>. QED
  BY <1>1, <1>2, <1>3, <1>4 DEF ChatInv

LEMMA ChatStep ==
  ASSUME ChatInv, [ChatNext]_vars
  PROVE  ChatInv'
<1>1. NetInv'
  BY RelaySeen, NetStep DEF ChatInv, NetInv
<1>. QED
  BY <1>1, EngineTypeStep, WiresStep, ReadersStep, ShownIsPeersStep, ShownStep DEF ChatInv

LEMMA ChatHolds == ChatSpec => []ChatInv
BY ChatStart, ChatStep, PTL DEF ChatSpec

\* Types of everything the engines and the relay keep, and that nobody reads
\* more than has arrived, for any number of connections.
THEOREM ChatTypeCorrect == ChatSpec => []ChatTypeOK
<1>1. ChatInv => ChatTypeOK
  BY DEF ChatInv, NetInv, ChatTypeOK
<1>. QED
  BY <1>1, ChatHolds, PTL

\* Whoever connects, answers, fails or quits in whatever order, and whatever the
\* relay spoils: a connecting side with a session shares its key with the host
\* it names, and with nobody else made it (client and server handshake).
THEOREM KeysAgreed == ChatSpec => []KeyAgreement
<1>1. ChatInv => KeyAgreement
  BY KeysAgree DEF ChatInv
<1>. QED
  BY <1>1, ChatHolds, PTL

\* No message is shown (parseAndDecryptMessage succeeds) but one the other end
\* of the session sent with the session's key.
THEOREM OnlyPeersShown == ChatSpec => []ShownIsPeers
<1>1. ChatInv => ShownIsPeers
  BY DEF ChatInv
<1>. QED
  BY <1>1, ChatHolds, PTL

LEMMA InOrderShown ==
  ASSUME ChatInv
  PROVE  ShownInOrder
<1>0. NetInv /\ EngineTypeOK /\ Wires /\ Readers /\ ShownIsPeers /\ Shown
  BY DEF ChatInv
<1>. SUFFICES ASSUME NEW c \in Client, NEW j \in 1 .. Len(shown[c]),
                     NEW n \in 1 .. shown[c][j][2] - 1,
                     wire[shown[c][j][1]][n].type = "chat"
              PROVE  \/ SpoiltFor(c, shown[c][j][1], n)
                     \/ \E i \in 1 .. Len(shown[c]) : shown[c][i] = <<shown[c][j][1], n>>
  BY <1>0 DEF ShownInOrder, Shown
<1>1. PICK z \in 1 .. rd[c] : shown[c][j] = <<got[c][z].from, got[c][z].n>>
  BY <1>0 DEF Shown
<1>2. PICK p \in Client : p = got[c][z].from /\ got[c][z].n \in 1 .. Len(wire[p])
  BY <1>0, ReadFrames
<1>3. /\ z \in 1 .. Len(got[c]) /\ rd[c] \in Nat /\ rd[c] <= Len(got[c]) /\ Len(got[c]) \in Nat
      /\ Len(wire[p]) \in Nat
  <2>1. got[c] \in Seq(Frame)
    BY <1>0 DEF NetInv, TypeOK
  <2>2. wire[p] \in Seq(Payload) /\ rd[c] \in Nat /\ rd[c] <= Len(got[c])
    BY <1>0 DEF EngineTypeOK
  <2>3. Len(got[c]) \in Nat /\ Len(wire[p]) \in Nat
    BY <2>1, <2>2
  <2>. QED
    BY <2>2, <2>3
<1>4. shown[c][j][1] = p /\ shown[c][j][2] = got[c][z].n
  BY <1>1, <1>2
<1>5. /\ n \in Nat /\ 1 <= n /\ n < got[c][z].n /\ got[c][z].n \in Nat
      /\ n \in 1 .. Len(wire[p]) /\ Len(wire[p]) > 1
  <2>1. n \in 1 .. got[c][z].n - 1
    BY <1>4
  <2>2. ASSUME NEW L \in Nat, NEW g \in 1 .. L, n \in 1 .. g - 1
        PROVE  n \in Nat /\ 1 <= n /\ n < g /\ g \in Nat /\ n \in 1 .. L /\ L > 1
    BY <2>2
  <2>. QED
    BY <1>2, <1>3, <2>1, <2>2
<1>6. /\ p = Partner(c) /\ wire[p][got[c][z].n] = Chat(key[c]) /\ SessionOn(c)
  <2>1. p = Partner(c) /\ wire[p][got[c][z].n] = Chat(key[c])
    BY <1>0, <1>4 DEF ShownIsPeers
  <2>2. shown[c] # <<>>
    <3>1. Len(<<>>) = 0
      OBVIOUS
    <3>. QED
      BY <3>1
  <2>3. SessionOn(c)
    BY <1>0, <2>2 DEF Readers
  <2>. QED
    BY <2>1, <2>3
<1>7. SessionOn(p) /\ key[p] = key[c]
  <2>1. got[c][z].n # 1 /\ got[c][z].n \in 1 .. Len(wire[p])
    BY <1>2, <1>5
  <2>2. SessionOn(p)
    <3>1. wire[p] # <<>> /\ wire[p] # <<Hello(p)>>
      <4>1. Len(wire[p]) # 0 /\ Len(wire[p]) # 1
        <5>1. ASSUME NEW L \in Nat, L > 1  PROVE  L # 0 /\ L # 1
          BY <5>1
        <5>. QED
          BY <1>3, <1>5, <5>1
      <4>2. Len(<<>>) = 0 /\ Len(<<Hello(p)>>) = 1
        OBVIOUS
      <4>. QED
        BY <4>1, <4>2
    <3>. QED
      BY <1>0, <3>1 DEF Wires, WireOf
  <2>3. wire[p][got[c][z].n] = Chat(key[p])
    BY <1>0, <2>1, <2>2 DEF Wires, WireOf
  <2>4. Chat(key[p]).key = Chat(key[c]).key
    BY <1>6, <2>3
  <2>. QED
    BY <2>2, <2>4 DEF Chat
<1>8. wire[p][n] = Chat(key[c])
  <2>1. n # 1
    <3>1. wire[p][1] = Hello(p) \/ wire[p][1] = Response(PublicKey(key[p].of), p)
      BY <1>0, <1>7 DEF Wires, WireOf
    <3>2. wire[p][1].type = "handshake"
      BY <3>1 DEF Hello, Response
    <3>. QED
      BY <1>4, <3>2
  <2>. QED
    BY <1>0, <1>5, <1>7, <2>1 DEF Wires, WireOf
\* Frame 1 of p has arrived, and so have all up to the last one shown.
<1>9. PICK k \in 1 .. Len(got[c]) : got[c][k].from = p /\ got[c][k].n = n
  <2>1. got[c][1].from = p /\ got[c][1].n = 1 /\ 1 \in 1 .. Len(got[c])
    BY <1>0, <1>3, <1>6 DEF Readers
  <2>2. n \in got[c][1].n .. got[c][z].n
    BY <1>3, <1>5, <2>1
  <2>3. Has(c, p, n)
    BY <1>0, <1>2, <1>3, <2>1, <2>2 DEF NetInv, FramesComplete
  <2>. QED
    BY <2>3 DEF Has
<1>10. k \in 1 .. rd[c]
  <2>1. ASSUME z < k  PROVE  FALSE
    <3>1. got[c][z].n < got[c][k].n
      BY <1>0, <1>2, <1>3, <1>9, <2>1 DEF NetInv, FramesInOrder
    <3>. QED
      BY <1>5, <1>9, <3>1
  <2>2. k \in Nat /\ z \in Nat /\ 1 <= k
    BY <1>3, <1>9
  <2>. QED
    BY <1>3, <2>1, <2>2
<1>11. CASE got[c][k].intact
  <2>1. \E i \in 1 .. Len(shown[c]) : shown[c][i] = <<got[c][k].from, got[c][k].n>>
    <3>1. wire[got[c][k].from][got[c][k].n] = Chat(key[c])
      BY <1>8, <1>9
    <3>2. SessionOn(c)
      BY <1>6
    <3>. QED
      BY <1>0, <1>10, <1>11, <3>1, <3>2 DEF Shown
  <2>. QED
    BY <1>4, <1>9, <2>1
<1>12. CASE ~got[c][k].intact
  BY <1>4, <1>9, <1>10, <1>12 DEF SpoiltFor
<1>. QED
  BY <1>11, <1>12

\* The user sees the peer's messages in the order they were sent, none twice,
\* and none missing in between but those that the relay spoilt: the relay keeps
\* order and completeness, and the receive loop never skips a good message.
THEOREM OrderShown == ChatSpec => []ShownInOrder
BY InOrderShown, ChatHolds, PTL
=============================================================================
