--------------------------- MODULE TcpDemoProofs ---------------------------
(***************************************************************************)
(* Theorems about the TCP transport between the two demo programs, for any *)
(* lengths of frames, of their header and of the stream's buffer: the      *)
(* types, and that it implements the channel of whole frames.              *)
(*                                                                         *)
(* A direction carries at most one frame at a time, because the handshake  *)
(* goes back and forth (Turns): what recv has read of it, what has arrived,*)
(* what is in flight and what is left to write are consecutive runs of its *)
(* units (Stream).                                                         *)
(***************************************************************************)
EXTENDS TcpDemo, SequenceTheorems, TLAPS

Size(f) == Header + Body[f]

\* The units of f from after the k-th one on, as many as the sequence has.
Run(units, f, k) == \A i \in 1 .. Len(units) : units[i] = <<f, k + i>>

Written(e) == Len(buf[e]) + Len(inbox[e]) + Len(flight[e])

\* Of frame f, b is read, n has arrived, m is in flight and o is left to write;
\* s are the frames sent, g is how many were got.  Nothing is missing unless
\* the direction failed or its sender is gone.
Carries(f, b, n, m, o, s, g, place, st) ==
  /\ Run(b, f, 0)
  /\ Run(n, f, Len(b))
  /\ Run(m, f, Len(b) + Len(n))
  /\ Run(o, f, Size(f) - Len(o))
  /\ Len(b) < Size(f) /\ Len(b) + Len(n) + Len(m) + Len(o) <= Size(f)
  /\ \/ /\ Len(s) = g
        /\ o = <<>> => Len(b) + Len(n) + Len(m) < Size(f)
        /\ o # <<>> => place = f
        /\ o # <<>> /\ st # "failed" => Len(b) + Len(n) + Len(m) + Len(o) = Size(f)
     \/ /\ Len(s) = g + 1 /\ s[Len(s)] = f
        /\ o = <<>>
        /\ st # "failed" => Len(b) + Len(n) + Len(m) = Size(f)

Stream(e) ==
  \E f \in Frame : Carries(f, buf[e], inbox[e], flight[e], out[e], sent[e], Len(got[e]), pc[e], state[e])

\* Nothing is on its way in direction e.
Idle(e) ==
  /\ out[e] = <<>> /\ buf[e] = <<>> /\ inbox[e] = <<>> /\ flight[e] = <<>>
  /\ Len(sent[e]) = Len(got[e])

\* The server speaks when the hello has been read, the client speaks again
\* when it has read the response.
Answering ==
  \/ pc[server] \in {"answer", "response", "message"}
  \/ sent[server] # <<>> \/ Written(server) > 0

Turns ==
  /\ pc[client] = "start" => Idle(client)
  /\ pc[client] \in {"start", "hello"} => sent[client] = <<>> /\ ~Answering
  /\ pc[server] \in {"start", "listen", "hello", "answer"} => Idle(server) /\ sent[server] = <<>>
  /\ pc[client] \in {"response", "typing"} /\ Answering => Idle(client)
  /\ pc[client] = "typing" => sent[server] # <<>>

\* Each main goes to its own places only.
Places == pc[client] \notin {"answer", "listen"} /\ pc[server] # "typing"

\* What recv returned are the frames sent, whole and in order.
Whole(e) == \A i \in 1 .. Len(got[e]) : got[e][i] = Bytes(sent[e][i])

GivenUp == \A e \in End : gaveup[Other(e)] => pc[e] \in {"close", "over", "killed"}

DemoInv ==
  /\ DemoTypeOK /\ Places
  /\ \A e \in End : Stream(e) /\ Whole(e)
  /\ Turns
  /\ GivenUp

-----------------------------------------------------------------------------
(* Constants *)

LEMMA TwoEnds ==
  /\ client \in End /\ server \in End /\ client # server
  /\ \A e \in End : e = client \/ e = server
  /\ Other(client) = server /\ Other(server) = client
<1>1. End = {client, server} /\ client # server
  BY DemoAssumption
<1>2. Other(client) = server
  <2>1. \E x \in End : x # client
    BY <1>1
  <2>. QED
    BY <1>1, <2>1 DEF Other
<1>3. Other(server) = client
  <2>1. \E x \in End : x # server
    BY <1>1
  <2>. QED
    BY <1>1, <2>1 DEF Other
<1>. QED
  BY <1>1, <1>2, <1>3

LEMMA SizeIs ==
  \A f \in Frame : Size(f) \in Nat /\ Size(f) > Header /\ Header \in Nat \ {0}
<1>. TAKE f \in Frame
<1>1. Body[f] \in Nat \ {0} /\ Header \in Nat \ {0}
  BY FramingAssumption
<1>. QED
  BY <1>1 DEF Size

LEMMA BytesAre ==
  \A f \in Frame : /\ Bytes(f) \in Seq(Unit) /\ Len(Bytes(f)) = Size(f)
                   /\ \A i \in 1 .. Size(f) : Bytes(f)[i] = <<f, i>>
<1>. TAKE f \in Frame
<1>1. Bytes(f) = [i \in 1 .. Size(f) |-> <<f, i>>]
  BY DEF Bytes, Size
<1>2. Size(f) \in Nat
  BY SizeIs
<1>3. \A i \in 1 .. Size(f) : <<f, i>> \in Unit
  <2>. TAKE i \in 1 .. Size(f)
  <2>1. <<f, i>> \in {<<f, j>> : j \in 1 .. Header + Body[f]}
    BY DEF Size
  <2>. QED
    BY <2>1 DEF Unit
<1>4. Bytes(f) \in [1 .. Size(f) -> Unit]
  BY <1>1, <1>3
<1>. QED
  BY <1>1, <1>2, <1>4, LenProperties

\* A run loses its first unit, or gets the next one.
LEMMA RunTail ==
  ASSUME NEW q \in Seq(Unit), q # <<>>, NEW f, NEW k \in Nat, Run(q, f, k)
  PROVE  /\ Head(q) \in Unit /\ Head(q) = <<f, k + 1>>
         /\ Tail(q) \in Seq(Unit) /\ Run(Tail(q), f, k + 1)
         /\ Len(Tail(q)) = Len(q) - 1 /\ Len(q) >= 1 /\ Len(q) \in Nat
<1>1. /\ Head(q) \in Unit /\ Tail(q) \in Seq(Unit) /\ Head(q) = q[1]
      /\ Len(Tail(q)) = Len(q) - 1 /\ Len(q) \in Nat /\ Len(q) >= 1
      /\ \A i \in 1 .. Len(Tail(q)) : Tail(q)[i] = q[i + 1]
  BY HeadTailProperties, EmptySeq, LenProperties
<1>2. q[1] = <<f, k + 1>>
  BY <1>1 DEF Run
<1>3. ASSUME NEW i \in 1 .. Len(Tail(q)) PROVE Tail(q)[i] = <<f, (k + 1) + i>>
  <2>1. i + 1 \in 1 .. Len(q) /\ k + (i + 1) = (k + 1) + i
    BY <1>1
  <2>. QED
    BY <1>1, <2>1 DEF Run
<1>. QED
  BY <1>1, <1>2, <1>3 DEF Run

LEMMA RunAppend ==
  ASSUME NEW q \in Seq(Unit), NEW f, NEW k \in Nat, Run(q, f, k),
         NEW u \in Unit, u = <<f, k + Len(q) + 1>>
  PROVE  /\ Append(q, u) \in Seq(Unit) /\ Run(Append(q, u), f, k)
         /\ Len(Append(q, u)) = Len(q) + 1
<1>1. /\ Append(q, u) \in Seq(Unit) /\ Len(Append(q, u)) = Len(q) + 1 /\ Len(q) \in Nat
      /\ \A i \in 1 .. Len(q) : Append(q, u)[i] = q[i]
      /\ Append(q, u)[Len(q) + 1] = u
  BY AppendProperties, LenProperties
<1>2. ASSUME NEW i \in 1 .. Len(Append(q, u)) PROVE Append(q, u)[i] = <<f, k + i>>
  <2>1. i \in 1 .. Len(q) \/ i = Len(q) + 1
    BY <1>1
  <2>2. CASE i \in 1 .. Len(q)
    BY <1>1, <2>2 DEF Run
  <2>3. CASE i = Len(q) + 1
    <3>1. k + i = k + Len(q) + 1
      BY <1>1, <2>3
    <3>. QED
      BY <1>1, <2>3, <3>1
  <2>. QED
    BY <2>1, <2>2, <2>3
<1>. QED
  BY <1>1, <1>2 DEF Run

\* What a sequence says of its length and its ends, for the types.
LEMMA SeqFacts ==
  ASSUME NEW q \in Seq(Unit)
  PROVE  /\ Len(q) \in Nat /\ (q = <<>> <=> Len(q) = 0)
         /\ q # <<>> => /\ Head(q) \in Unit /\ Tail(q) \in Seq(Unit)
                        /\ Len(Tail(q)) = Len(q) - 1
         /\ \A u \in Unit : Append(q, u) \in Seq(Unit) /\ Len(Append(q, u)) = Len(q) + 1
BY HeadTailProperties, EmptySeq, LenProperties, AppendProperties

-----------------------------------------------------------------------------
(* Types *)

LEMMA Speaking ==
  \A e \in End : /\ Sending(e) => pc[e] \in Frame /\ ~Receiving(e)
                 /\ Receiving(e) => pc[e] \in Frame
<1>1. client # server /\ Frame = {"hello", "response", "message"}
  BY DemoAssumption
<1>. QED
  BY <1>1, TwoEnds DEF Sending, Receiving, Sends, Receives

LEMMA PlacesStep ==
  ASSUME DemoTypeOK, Places, [DemoNext]_vars
  PROVE  /\ Places'
         /\ pc' \in [End -> {"start", "listen", "answer", "typing", "close", "over", "killed"} \cup Frame]
<1>. DEFINE Place == {"start", "listen", "answer", "typing", "close", "over", "killed"} \cup Frame
            Fits == /\ pc' \in [End -> Place]
                    /\ pc'[client] \notin {"answer", "listen"} /\ pc'[server] # "typing"
<1>. SUFFICES Fits
  BY DEF Places
<1>0. /\ pc \in [End -> Place]
      /\ client \in End /\ server \in End /\ client # server /\ \A e \in End : e = client \/ e = server
      /\ Frame = {"hello", "response", "message"}
  BY TwoEnds, DemoAssumption DEF DemoTypeOK
<1>. HIDE DEF Place
<1>1. ASSUME NEW e \in End, NEW q \in Place, pc' = [pc EXCEPT ![e] = q],
             e = client => q \notin {"answer", "listen"}, e = server => q # "typing"
      PROVE  Fits
  BY <1>0, <1>1 DEF Places
<1>2. ASSUME pc' = pc PROVE Fits
  BY <1>0, <1>2 DEF Places
<1>3. {"start", "listen", "answer", "typing", "close", "over", "killed", "hello", "response", "message"}
        \subseteq Place
  BY <1>0 DEF Place
<1>. HIDE DEF Fits
<1>4. CASE Listen
  BY <1>4, <1>0, <1>1, <1>3 DEF Listen, Goto
<1>5. CASE Connect
  BY <1>5, <1>0, <1>3 DEF Connect, Fits
<1>6. CASE Lose
  BY <1>6, <1>2 DEF Lose, BothFail
<1>7. ASSUME NEW e \in End, StartFails(e) \/ SendFails(e) \/ GetFails(e) \/ Close(e) \/ Die(e)
      PROVE  Fits
  BY <1>7, <1>1, <1>3 DEF StartFails, SendFails, GetFails, Close, Die, Goto
<1>8. ASSUME NEW e \in End, Put(e) PROVE Fits
  BY <1>8, <1>1, <1>2, <1>3 DEF Put, AfterSend, Goto
<1>9. ASSUME NEW e \in End, Get(e) PROVE Fits
  <2>1. Receiving(e) /\ (pc' = pc \/ pc' = [pc EXCEPT ![e] = AfterRecv(e)]
                                  \/ pc' = [pc EXCEPT ![e] = "close"])
    BY <1>9 DEF Get, Goto
  <2>2. /\ e = client => AfterRecv(e) \notin {"answer", "listen"}
        /\ e = server => AfterRecv(e) # "typing"
        /\ AfterRecv(e) \in {"answer", "typing", "close"}
    BY <2>1, <1>0 DEF AfterRecv, Receiving, Receives
  <2>. QED
    BY <2>1, <2>2, <1>1, <1>2, <1>3
<1>10. ASSUME NEW e \in End, Speak(e) PROVE Fits
  BY <1>10, <1>1, <1>3 DEF Speak, Goto
<1>11. ASSUME NEW e \in End, Kernel(e) PROVE Fits
  BY <1>11, <1>2 DEF Kernel, Reset, BothFail
<1>12. CASE UNCHANGED vars
  BY <1>12, <1>2 DEF vars
<1>. QED
  BY <1>4, <1>5, <1>6, <1>7, <1>8, <1>9, <1>10, <1>11, <1>12 DEF DemoNext, Program

LEMMA StreamTypeStep ==
  ASSUME DemoTypeOK, [DemoNext]_vars
  PROVE  StreamTypeOK'
<1>0. StreamTypeOK
  BY DEF DemoTypeOK
<1>14. Capacity \in Nat
  BY FramingAssumption
<1>1. ASSUME UNCHANGED streamVars PROVE StreamTypeOK'
  BY <1>0, <1>1 DEF StreamTypeOK, streamVars
<1>2. ASSUME NEW e \in End, NEW f \in Frame, BeginSend(e, f) PROVE StreamTypeOK'
  BY <1>0, <1>2, BytesAre DEF StreamTypeOK, BeginSend
<1>3. ASSUME NEW e \in End, NEW f \in Frame, WriteUnit(e, f) PROVE StreamTypeOK'
  <2>1. /\ out[e] \in Seq(Unit) /\ out[e] # <<>> /\ flight[e] \in Seq(Unit)
        /\ Len(flight[e]) \in Nat /\ Len(inbox[e]) \in Nat
    BY <1>0, <1>3, SeqFacts DEF StreamTypeOK, WriteUnit
  <2>2. Head(out[e]) \in Unit /\ Tail(out[e]) \in Seq(Unit)
    BY <2>1, SeqFacts
  <2>3. /\ Append(flight[e], Head(out[e])) \in Seq(Unit)
        /\ Len(Append(flight[e], Head(out[e]))) = Len(flight[e]) + 1
    BY <2>1, <2>2, SeqFacts
  <2>4. out' = [out EXCEPT ![e] = Tail(out[e])] /\ out' \in [End -> Seq(Unit)]
    BY <1>0, <1>3, <2>2 DEF StreamTypeOK, WriteUnit
  <2>5. sent' \in [End -> Seq(Frame)]
    BY <1>0, <1>3, AppendProperties DEF StreamTypeOK, WriteUnit
  <2>6. /\ flight' \in [End -> Seq(Unit)]
        /\ \A d \in End : Len(flight'[d]) + Len(inbox[d]) <= Capacity
    <3>1. CASE flight' = flight
      BY <1>0, <3>1 DEF StreamTypeOK
    <3>2. CASE /\ Len(flight[e]) + Len(inbox[e]) < Capacity
               /\ flight' = [flight EXCEPT ![e] = Append(flight[e], Head(out[e]))]
      <4>1. Len(flight[e]) + 1 + Len(inbox[e]) <= Capacity
        <5>1. \A a, b, c \in Nat : a + b < c => a + 1 + b <= c
          OBVIOUS
        <5>. QED
          BY <3>2, <2>1, <1>14, <5>1
      <4>. QED
        BY <1>0, <3>2, <4>1, <2>3 DEF StreamTypeOK
    <3>. QED
      BY <1>3, <3>1, <3>2 DEF WriteUnit
  <2>. QED
    BY <1>0, <1>3, <2>4, <2>5, <2>6 DEF StreamTypeOK, WriteUnit
<1>4. ASSUME NEW e \in End, Arrive(e) PROVE StreamTypeOK'
  <2>1. /\ flight[e] \in Seq(Unit) /\ flight[e] # <<>> /\ inbox[e] \in Seq(Unit)
        /\ Len(flight[e]) \in Nat /\ Len(inbox[e]) \in Nat
    BY <1>0, <1>4, SeqFacts DEF StreamTypeOK, Arrive
  <2>2. /\ Head(flight[e]) \in Unit /\ Tail(flight[e]) \in Seq(Unit)
        /\ Len(Tail(flight[e])) = Len(flight[e]) - 1
    BY <2>1, SeqFacts
  <2>3. /\ Append(inbox[e], Head(flight[e])) \in Seq(Unit)
        /\ Len(Append(inbox[e], Head(flight[e]))) = Len(inbox[e]) + 1
    BY <2>1, <2>2, SeqFacts
  <2>4. Len(Tail(flight[e])) + Len(Append(inbox[e], Head(flight[e]))) = Len(flight[e]) + Len(inbox[e])
    <3>1. \A a, b \in Nat : (a - 1) + (b + 1) = a + b
      OBVIOUS
    <3>. QED
      BY <2>1, <2>2, <2>3, <3>1
  <2>. QED
    BY <1>0, <1>4, <2>2, <2>3, <2>4 DEF StreamTypeOK, Arrive
<1>5. ASSUME NEW e \in End, ReadUnit(e) PROVE StreamTypeOK'
  <2>1. /\ inbox[e] \in Seq(Unit) /\ inbox[e] # <<>> /\ buf[e] \in Seq(Unit) /\ <<>> \in Seq(Unit)
        /\ Len(flight[e]) \in Nat /\ Len(inbox[e]) \in Nat
    BY <1>0, <1>5, SeqFacts DEF StreamTypeOK, ReadUnit
  <2>2. /\ Head(inbox[e]) \in Unit /\ Tail(inbox[e]) \in Seq(Unit)
        /\ Len(Tail(inbox[e])) = Len(inbox[e]) - 1
    BY <2>1, SeqFacts
  <2>3. Append(buf[e], Head(inbox[e])) \in Seq(Unit)
    BY <2>1, <2>2, SeqFacts
  <2>4. /\ inbox' \in [End -> Seq(Unit)]
        /\ \A d \in End : Len(flight[d]) + Len(inbox'[d]) <= Capacity
    <3>1. inbox' = [inbox EXCEPT ![e] = Tail(inbox[e])]
      BY <1>5 DEF ReadUnit
    <3>2. Len(flight[e]) + Len(Tail(inbox[e])) <= Capacity
      <4>1. Len(flight[e]) + Len(inbox[e]) <= Capacity
        BY <1>0 DEF StreamTypeOK
      <4>. QED
        <5>1. \A a, b, c \in Nat : a + b <= c => a + (b - 1) <= c
          OBVIOUS
        <5>. QED
          BY <4>1, <2>1, <2>2, <1>14, <5>1
    <3>. QED
      BY <1>0, <2>2, <3>1, <3>2 DEF StreamTypeOK
  <2>5. buf' \in [End -> Seq(Unit)]
    BY <1>0, <1>5, <2>1, <2>3 DEF StreamTypeOK, ReadUnit
  <2>6. got' \in [End -> Seq(Seq(Unit))]
    <3>1. Append(got[e], Append(buf[e], Head(inbox[e]))) \in Seq(Seq(Unit))
      BY <1>0, <2>3, AppendProperties DEF StreamTypeOK
    <3>. QED
      BY <1>0, <1>5, <3>1 DEF StreamTypeOK, ReadUnit
  <2>. QED
    BY <1>0, <1>5, <2>4, <2>5, <2>6 DEF StreamTypeOK, ReadUnit
<1>6. ASSUME NEW e \in End, RecvFails(e) PROVE StreamTypeOK'
  BY <1>0, <1>6 DEF StreamTypeOK, RecvFails
<1>7. ASSUME BothFail PROVE StreamTypeOK'
  BY <1>0, <1>7 DEF StreamTypeOK, BothFail
<1>8. ASSUME NEW e \in End, Close(e) \/ SendFails(e) \/ Die(e) PROVE StreamTypeOK'
  <2>1. <<>> \in Seq(Unit)
    BY EmptySeq
  <2>. QED
    BY <1>0, <1>8, <2>1 DEF StreamTypeOK, Close, SendFails, Die
<1>9. {"hello", "response", "message"} \subseteq Frame
  BY DemoAssumption
<1>10. ASSUME NEW e \in End, Program(e) PROVE StreamTypeOK'
  <2>1. CASE Put(e)
    BY <2>1, <1>3, Speaking DEF Put
  <2>2. CASE Get(e) \/ GetFails(e)
    BY <2>2, <1>5, <1>6, TwoEnds DEF Get, GetFails
  <2>3. CASE Speak(e)
    BY <2>3, <1>2, <1>9 DEF Speak
  <2>. QED
    BY <1>8, <1>10, <2>1, <2>2, <2>3 DEF Program
<1>11. ASSUME NEW e \in End, StartFails(e) \/ Kernel(e) \/ Die(e) PROVE StreamTypeOK'
  BY <1>1, <1>4, <1>7, <1>8, <1>11 DEF StartFails, Kernel, Reset
<1>12. CASE Listen \/ Connect \/ Lose
  BY <1>1, <1>2, <1>7, <1>9, <1>12, TwoEnds DEF Listen, Connect, Lose
<1>13. CASE UNCHANGED vars
  BY <1>1, <1>13 DEF vars
<1>. QED
  BY <1>10, <1>11, <1>12, <1>13 DEF DemoNext

LEMMA DemoTypeStep ==
  ASSUME DemoTypeOK, Places, [DemoNext]_vars
  PROVE  DemoTypeOK'
<1>. DEFINE Place == {"start", "listen", "answer", "typing", "close", "over", "killed"} \cup Frame
            Held == \A e \in End : out'[e] # <<>> => <<e, pc'[e]>> \in Sends
<1>1. StreamTypeOK' /\ pc' \in [End -> Place]
  BY StreamTypeStep, PlacesStep
<1>2. printed' \in BOOLEAN
  BY DEF DemoTypeOK, DemoNext, Listen, Connect, Lose, BothFail, StartFails, Program, Put, SendFails, Get,
         GetFails, Speak, Close, Kernel, Reset, Die, vars
<1>3. /\ \A e \in End : out[e] # <<>> => <<e, pc[e]>> \in Sends
      /\ out \in [End -> Seq(Unit)] /\ pc \in [End -> Place]
  BY DEF DemoTypeOK, StreamTypeOK, Sending
<1>4. /\ client \in End /\ server \in End /\ client # server /\ \A e \in End : e = client \/ e = server
      /\ Frame = {"hello", "response", "message"}
  BY TwoEnds, DemoAssumption
<1>. HIDE DEF Place
<1>5. ASSUME NEW e \in End, pc' = [pc EXCEPT ![e] = pc'[e]], out' = [out EXCEPT ![e] = out'[e]],
             out'[e] # <<>> => <<e, pc'[e]>> \in Sends
      PROVE  Held
  BY <1>3, <1>5
<1>6. ASSUME pc' = pc, out' = out PROVE Held
  BY <1>3, <1>6
<1>7. ASSUME NEW e \in End, pc' = [pc EXCEPT ![e] = pc'[e]], out' = out, <<e, pc[e]>> \notin Sends PROVE Held
  <2>1. out[e] = <<>>
    BY <1>3, <1>7
  <2>2. out' = [out EXCEPT ![e] = out'[e]]
    BY <1>3, <1>7
  <2>. QED
    BY <1>5, <1>7, <2>1, <2>2
<1>. HIDE DEF Held
<1>8. ASSUME Listen PROVE Held
  <2>1. pc[server] = "start" /\ pc' = [pc EXCEPT ![server] = "listen"] /\ out' = out
    BY <1>8 DEF Listen, Goto, streamVars
  <2>2. <<server, pc[server]>> \notin Sends
    BY <2>1 DEF Sends
  <2>3. pc' = [pc EXCEPT ![server] = pc'[server]]
    BY <1>3, <1>4, <2>1
  <2>. QED
    BY <1>4, <1>7, <2>1, <2>2, <2>3
<1>9. ASSUME Connect PROVE Held
  <2>1. out[server] = <<>>
    BY <1>3, <1>4, <1>9 DEF Connect, Sends
  <2>2. pc'[client] = "hello" /\ out'[server] = out[server]
    BY <1>3, <1>4, <1>9 DEF Connect, BeginSend
  <2>3. <<client, pc'[client]>> \in Sends
    BY <2>2 DEF Sends
  <2>. QED
    BY <1>4, <2>1, <2>2, <2>3 DEF Held
<1>10. ASSUME Lose PROVE Held
  BY <1>6, <1>10 DEF Lose, BothFail
<1>11. ASSUME NEW e \in End, StartFails(e) \/ GetFails(e) \/ Close(e) PROVE Held
  BY <1>3, <1>4, <1>7, <1>11 DEF StartFails, GetFails, RecvFails, Close, Goto, streamVars, Sends, Receiving, Receives
<1>12. ASSUME NEW e \in End, SendFails(e) \/ Die(e) PROVE Held
  BY <1>3, <1>5, <1>12 DEF SendFails, Die, Goto
<1>13. ASSUME NEW e \in End, Put(e) PROVE Held
  <2>1. CASE out'[e] = <<>>
    BY <1>3, <1>5, <1>13, <2>1 DEF Put, WriteUnit, Goto
  <2>2. CASE out'[e] # <<>>
    BY <1>3, <1>5, <1>13, <2>2 DEF Put, WriteUnit, Sending
  <2>. QED
    BY <2>1, <2>2
<1>14. ASSUME NEW e \in End, Get(e) PROVE Held
  <2>1. out' = out /\ (pc' = pc \/ pc' = [pc EXCEPT ![e] = pc'[e]]) /\ Receiving(e)
    BY <1>3, <1>14 DEF Get, ReadUnit, Goto
  <2>2. <<e, pc[e]>> \notin Sends
    BY <2>1, Speaking DEF Sending
  <2>. QED
    BY <1>6, <1>7, <2>1, <2>2
<1>15. ASSUME NEW e \in End, Speak(e) PROVE Held
  <2>1. \/ e = server /\ pc' = [pc EXCEPT ![e] = "response"]
        \/ e = client /\ pc' = [pc EXCEPT ![e] = "message"]
    BY <1>4, <1>15 DEF Speak, Goto, Places
  <2>2. out' = [out EXCEPT ![e] = out'[e]]
    BY <1>3, <1>15 DEF Speak, BeginSend
  <2>3. <<e, pc'[e]>> \in Sends /\ pc' = [pc EXCEPT ![e] = pc'[e]]
    BY <1>3, <2>1 DEF Sends
  <2>. QED
    BY <1>5, <2>2, <2>3
<1>16. ASSUME NEW e \in End, Kernel(e) PROVE Held
  BY <1>6, <1>16 DEF Kernel, Arrive, Reset, BothFail
<1>17. ASSUME UNCHANGED vars PROVE Held
  BY <1>6, <1>17 DEF vars, streamVars
<1>18. Held
  BY <1>8, <1>9, <1>10, <1>11, <1>12, <1>13, <1>14, <1>15, <1>16, <1>17 DEF DemoNext, Program
<1>. QED
  BY <1>1, <1>2, <1>18 DEF Held, Place, DemoTypeOK, Sending

LEMMA StreamTypes ==
  ASSUME DemoTypeOK, NEW d \in End
  PROVE  /\ buf[d] \in Seq(Unit) /\ inbox[d] \in Seq(Unit)
         /\ flight[d] \in Seq(Unit) /\ out[d] \in Seq(Unit)
         /\ sent[d] \in Seq(Frame) /\ got[d] \in Seq(Seq(Unit)) /\ Len(got[d]) \in Nat
         /\ (out[d] # <<>>) => Sending(d)
<1>1. /\ buf[d] \in Seq(Unit) /\ inbox[d] \in Seq(Unit)
      /\ flight[d] \in Seq(Unit) /\ out[d] \in Seq(Unit)
      /\ sent[d] \in Seq(Frame) /\ got[d] \in Seq(Seq(Unit))
      /\ (out[d] # <<>>) => Sending(d)
  BY DEF DemoTypeOK, StreamTypeOK
<1>. QED
  BY <1>1, LenProperties

-----------------------------------------------------------------------------
(* What each step does to the frame a direction carries *)

\* A place or a state that changes, and a send that is given up.
LEMMA CarriesOn ==
  ASSUME NEW f \in Frame, NEW b \in Seq(Unit), NEW n \in Seq(Unit), NEW m \in Seq(Unit), NEW o \in Seq(Unit),
         NEW s \in Seq(Frame), NEW g \in Nat, NEW place, NEW st,
         Carries(f, b, n, m, o, s, g, place, st), NEW q, NEW su, su # "failed" => st # "failed"
  PROVE  /\ Carries(f, b, n, m, <<>>, s, g, q, su)
         /\ o = <<>> \/ q = place => Carries(f, b, n, m, o, s, g, q, su)
<1>. USE DEF Carries
<1>1. /\ Len(b) \in Nat /\ Len(n) \in Nat /\ Len(m) \in Nat /\ Len(o) \in Nat /\ Size(f) \in Nat
      /\ o # <<>> => Len(o) >= 1
  BY SeqFacts, SizeIs
<1>2. Len(<<>>) = 0 /\ Run(<<>>, f, Size(f) - 0)
  BY EmptySeq DEF Run
<1>3. Carries(f, b, n, m, <<>>, s, g, q, su)
  BY <1>1, <1>2
<1>. QED
  BY <1>3

\* A send of a frame begins when the direction carries nothing.
LEMMA CarriesNext ==
  ASSUME NEW f \in Frame, NEW s \in Seq(Frame), NEW st
  PROVE  Carries(f, <<>>, <<>>, <<>>, Bytes(f), s, Len(s), f, st)
<1>1. Size(f) \in Nat /\ Size(f) > 0
  BY SizeIs
<1>2. Len(Bytes(f)) = Size(f) /\ Bytes(f) # <<>> /\ \A i \in 1 .. Size(f) : Bytes(f)[i] = <<f, i>>
  BY <1>1, BytesAre, EmptySeq
<1>3. Run(Bytes(f), f, Size(f) - Len(Bytes(f)))
  BY <1>1, <1>2 DEF Run
<1>4. Len(<<>>) = 0 /\ \A k : Run(<<>>, f, k)
  BY EmptySeq DEF Run
<1>. QED
  BY <1>1, <1>2, <1>3, <1>4 DEF Carries

\* The kernel takes a unit.
LEMMA CarriesWritten ==
  ASSUME DemoTypeOK, NEW d \in End, NEW f \in Frame,
         Carries(f, buf[d], inbox[d], flight[d], out[d], sent[d], Len(got[d]), pc[d], state[d]),
         out[d] # <<>>, NEW q, Len(out[d]) = 1 \/ q = pc[d]
  PROVE  /\ pc[d] = f /\ Len(sent[d]) = Len(got[d]) /\ (Tail(out[d]) = <<>> <=> Len(out[d]) = 1)
         /\ Carries(f, buf[d], inbox[d],
                    IF state[d] = "failed" THEN flight[d] ELSE Append(flight[d], Head(out[d])),
                    Tail(out[d]),
                    IF Len(out[d]) = 1 THEN Append(sent[d], f) ELSE sent[d],
                    Len(got[d]), q, state[d])
<1>. DEFINE b == buf[d]
            n == inbox[d]
            m == flight[d]
            o == out[d]
            s == sent[d]
            g == Len(got[d])
            place == pc[d]
            st == state[d]
<1>0. /\ b \in Seq(Unit) /\ n \in Seq(Unit) /\ m \in Seq(Unit) /\ o \in Seq(Unit)
      /\ s \in Seq(Frame) /\ g \in Nat
      /\ Carries(f, b, n, m, o, s, g, place, st) /\ o # <<>> /\ (Len(o) = 1 \/ q = place)
  BY StreamTypes
<1>. HIDE DEF b, n, m, o, s, g, place, st
<1>. USE <1>0
<1>1. /\ Len(b) \in Nat /\ Len(n) \in Nat /\ Len(m) \in Nat /\ Len(o) \in Nat /\ Size(f) \in Nat
      /\ Len(o) >= 1
  BY SeqFacts, SizeIs
<1>2. /\ place = f /\ Len(s) = g
      /\ Len(b) < Size(f) /\ Len(b) + Len(n) + Len(m) + Len(o) <= Size(f)
      /\ st # "failed" => Len(b) + Len(n) + Len(m) + Len(o) = Size(f)
  BY DEF Carries
<1>3. Size(f) - Len(o) \in Nat /\ Run(o, f, Size(f) - Len(o))
  BY <1>1, <1>2 DEF Carries
<1>4. /\ Head(o) \in Unit /\ Head(o) = <<f, (Size(f) - Len(o)) + 1>>
      /\ Tail(o) \in Seq(Unit) /\ Len(Tail(o)) = Len(o) - 1 /\ Run(Tail(o), f, (Size(f) - Len(o)) + 1)
  BY <1>3, RunTail
<1>5. Run(Tail(o), f, Size(f) - Len(Tail(o)))
  <2>1. (Size(f) - Len(o)) + 1 = Size(f) - Len(Tail(o))
    BY <1>1, <1>4
  <2>. QED
    BY <1>4, <2>1
<1>6. Tail(o) = <<>> <=> Len(o) = 1
  <2>1. Tail(o) = <<>> <=> Len(Tail(o)) = 0
    BY <1>4, SeqFacts
  <2>2. \A k \in Nat : k - 1 = 0 <=> k = 1
    OBVIOUS
  <2>. QED
    BY <1>1, <1>4, <2>1, <2>2
<1>7. Run(b, f, 0) /\ Run(n, f, Len(b)) /\ Run(m, f, Len(b) + Len(n))
  BY DEF Carries
<1>8. st # "failed" => /\ Run(Append(m, Head(o)), f, Len(b) + Len(n))
                       /\ Len(Append(m, Head(o))) = Len(m) + 1
  <2>. HAVE st # "failed"
  <2>1. Len(b) + Len(n) \in Nat /\ (Size(f) - Len(o)) + 1 = (Len(b) + Len(n)) + Len(m) + 1
    BY <1>1, <1>2
  <2>2. Head(o) = <<f, (Len(b) + Len(n)) + Len(m) + 1>>
    BY <1>4, <2>1
  <2>. QED
    BY <1>4, <1>7, <2>1, <2>2, RunAppend
<1>9. Len(Append(s, f)) = Len(s) + 1 /\ Append(s, f)[Len(Append(s, f))] = f
  BY AppendProperties
<1>10. ASSUME st # "failed"
       PROVE  /\ Len(o) # 1 => Carries(f, b, n, Append(m, Head(o)), Tail(o), s, g, q, st)
              /\ Len(o) = 1 => Carries(f, b, n, Append(m, Head(o)), Tail(o), Append(s, f), g, q, st)
  <2>1. /\ Len(b) + Len(n) + Len(Append(m, Head(o))) + Len(Tail(o)) = Size(f)
        /\ Len(o) = 1 => Len(b) + Len(n) + Len(Append(m, Head(o))) = Size(f)
    <3>1. /\ Len(Append(m, Head(o))) = Len(m) + 1 /\ Len(Tail(o)) = Len(o) - 1
          /\ Len(b) + Len(n) + Len(m) + Len(o) = Size(f)
      BY <1>2, <1>4, <1>8, <1>10
    <3>2. Len(b) + Len(n) + (Len(m) + 1) + (Len(o) - 1) = Len(b) + Len(n) + Len(m) + Len(o)
      BY <1>1
    <3>3. Len(o) = 1 => Len(b) + Len(n) + (Len(m) + 1) = Len(b) + Len(n) + Len(m) + Len(o)
      BY <1>1
    <3>. QED
      BY <3>1, <3>2, <3>3
  <2>2. Len(b) + Len(n) + Len(Append(m, Head(o))) + Len(Tail(o)) <= Size(f)
    BY <1>1, <2>1
  <2>. QED
    BY <1>2, <1>5, <1>6, <1>7, <1>8, <1>9, <1>10, <2>1, <2>2 DEF Carries
<1>11. ASSUME st = "failed"
       PROVE  /\ Len(o) # 1 => Carries(f, b, n, m, Tail(o), s, g, q, st)
              /\ Len(o) = 1 => Carries(f, b, n, m, Tail(o), Append(s, f), g, q, st)
  <2>1. Len(b) + Len(n) + Len(m) + Len(Tail(o)) <= Size(f)
    BY <1>1, <1>2, <1>4
  <2>. QED
    BY <1>2, <1>5, <1>6, <1>7, <1>9, <1>11, <2>1 DEF Carries
<1>. QED
  BY <1>2, <1>6, <1>10, <1>11 DEF b, n, m, o, s, g, place, st

\* A unit arrives.
LEMMA CarriesArrived ==
  ASSUME DemoTypeOK, NEW d \in End, NEW f \in Frame,
         Carries(f, buf[d], inbox[d], flight[d], out[d], sent[d], Len(got[d]), pc[d], state[d]),
         flight[d] # <<>>
  PROVE  /\ Carries(f, buf[d], Append(inbox[d], Head(flight[d])), Tail(flight[d]), out[d],
                    sent[d], Len(got[d]), pc[d], state[d])
         /\ Len(Append(inbox[d], Head(flight[d]))) + Len(Tail(flight[d])) = Len(inbox[d]) + Len(flight[d])
<1>. DEFINE b == buf[d]
            n == inbox[d]
            m == flight[d]
            o == out[d]
            s == sent[d]
            g == Len(got[d])
            place == pc[d]
            st == state[d]
<1>0. /\ b \in Seq(Unit) /\ n \in Seq(Unit) /\ m \in Seq(Unit) /\ o \in Seq(Unit)
      /\ s \in Seq(Frame) /\ g \in Nat
      /\ Carries(f, b, n, m, o, s, g, place, st) /\ m # <<>>
  BY StreamTypes
<1>. HIDE DEF b, n, m, o, s, g, place, st
<1>. USE <1>0
<1>1. Len(b) \in Nat /\ Len(n) \in Nat /\ Len(m) \in Nat
  BY SeqFacts
<1>2. Len(b) + Len(n) \in Nat /\ Run(m, f, Len(b) + Len(n)) /\ Run(n, f, Len(b))
  BY <1>1 DEF Carries
<1>3. /\ Head(m) \in Unit /\ Head(m) = <<f, Len(b) + Len(n) + 1>>
      /\ Tail(m) \in Seq(Unit) /\ Len(Tail(m)) = Len(m) - 1 /\ Run(Tail(m), f, Len(b) + Len(n) + 1)
  BY <1>2, RunTail
<1>4. Run(Append(n, Head(m)), f, Len(b)) /\ Len(Append(n, Head(m))) = Len(n) + 1
  BY <1>1, <1>2, <1>3, RunAppend
<1>5. Run(Tail(m), f, Len(b) + Len(Append(n, Head(m))))
  <2>1. Len(b) + Len(Append(n, Head(m))) = Len(b) + Len(n) + 1
    BY <1>1, <1>4
  <2>. QED
    BY <1>3, <2>1
<1>6. /\ Len(b) + Len(Append(n, Head(m))) + Len(Tail(m)) = Len(b) + Len(n) + Len(m)
      /\ Len(Append(n, Head(m))) + Len(Tail(m)) = Len(n) + Len(m)
  BY <1>1, <1>3, <1>4
<1>7. Carries(f, b, Append(n, Head(m)), Tail(m), o, s, g, place, st)
  BY <1>4, <1>5, <1>6 DEF Carries
<1>. QED
  BY <1>6, <1>7 DEF b, n, m, o, s, g, place, st

\* recv reads a unit: it is the last one of a frame exactly if the whole frame
\* has been written, and then it is the frame after those got before.
LEMMA CarriesRead ==
  ASSUME DemoTypeOK, NEW d \in End, NEW f \in Frame,
         Carries(f, buf[d], inbox[d], flight[d], out[d], sent[d], Len(got[d]), pc[d], state[d]),
         inbox[d] # <<>>
  PROVE  LET units == Append(buf[d], Head(inbox[d])) IN
         /\ ~Complete(units) => /\ Carries(f, units, Tail(inbox[d]), flight[d], out[d], sent[d],
                                           Len(got[d]), pc[d], state[d])
                                /\ Len(units) + Len(Tail(inbox[d])) = Len(buf[d]) + Len(inbox[d])
         /\ Complete(units) => /\ units = Bytes(f) /\ Len(sent[d]) = Len(got[d]) + 1 /\ sent[d][Len(got[d]) + 1] = f
                               /\ Tail(inbox[d]) = <<>> /\ flight[d] = <<>> /\ out[d] = <<>>
                               /\ Carries(f, <<>>, <<>>, <<>>, <<>>, sent[d], Len(got[d]) + 1, pc[d], state[d])
<1>. DEFINE b == buf[d]
            n == inbox[d]
            m == flight[d]
            o == out[d]
            s == sent[d]
            g == Len(got[d])
            place == pc[d]
            st == state[d]
<1>0. /\ b \in Seq(Unit) /\ n \in Seq(Unit) /\ m \in Seq(Unit) /\ o \in Seq(Unit)
      /\ s \in Seq(Frame) /\ g \in Nat
      /\ Carries(f, b, n, m, o, s, g, place, st) /\ n # <<>>
  BY StreamTypes
<1>. HIDE DEF b, n, m, o, s, g, place, st
<1>. USE <1>0
<1>. DEFINE units == Append(b, Head(n))
<1>1. /\ Len(b) \in Nat /\ Len(n) \in Nat /\ Len(m) \in Nat /\ Len(o) \in Nat
      /\ Size(f) \in Nat /\ Header \in Nat /\ Header > 0 /\ Size(f) > Header
  BY SeqFacts, SizeIs
<1>2. Run(b, f, 0) /\ Run(n, f, Len(b)) /\ Run(m, f, Len(b) + Len(n)) /\ Run(o, f, Size(f) - Len(o))
  BY DEF Carries
<1>3. /\ Head(n) \in Unit /\ Head(n) = <<f, Len(b) + 1>>
      /\ Tail(n) \in Seq(Unit) /\ Len(Tail(n)) = Len(n) - 1 /\ Run(Tail(n), f, Len(b) + 1) /\ Len(n) >= 1
  BY <1>1, <1>2, RunTail
<1>4. units \in Seq(Unit) /\ Run(units, f, 0) /\ Len(units) = Len(b) + 1
  <2>1. Head(n) = <<f, 0 + Len(b) + 1>>
    BY <1>1, <1>3
  <2>2. Head(n) \in Unit /\ Run(b, f, 0)
    BY <1>2, <1>3
  <2>3. ASSUME NEW k \in Nat, Run(b, f, k), Head(n) = <<f, k + Len(b) + 1>>
        PROVE  Append(b, Head(n)) \in Seq(Unit) /\ Run(Append(b, Head(n)), f, k)
               /\ Len(Append(b, Head(n))) = Len(b) + 1
    BY <2>2, <2>3, RunAppend
  <2>. QED
    BY <2>1, <2>2, <2>3
<1>5. Run(Tail(n), f, Len(units)) /\ Run(m, f, Len(units) + Len(Tail(n)))
  <2>1. Len(units) + Len(Tail(n)) = Len(b) + Len(n)
    BY <1>1, <1>3, <1>4
  <2>. QED
    BY <1>2, <1>3, <1>4, <2>1
<1>6. units[1] = <<f, 1>>
  <2>1. 1 \in 1 .. Len(units) /\ 0 + 1 = 1
    BY <1>1, <1>4
  <2>. QED
    BY <1>4, <2>1 DEF Run
<1>7. Complete(units) <=> Len(units) = Size(f)
  BY <1>1, <1>4, <1>6 DEF Complete, Size
<1>8. Len(b) < Size(f) /\ Len(b) + Len(n) + Len(m) + Len(o) <= Size(f)
  BY DEF Carries
<1>9. /\ Len(units) + Len(Tail(n)) = Len(b) + Len(n)
      /\ Len(units) + Len(Tail(n)) + Len(m) = Len(b) + Len(n) + Len(m)
  BY <1>1, <1>3, <1>4
<1>. HIDE DEF units
<1>10. ASSUME ~Complete(units) PROVE Carries(f, units, Tail(n), m, o, s, g, place, st)
  <2>1. Len(units) < Size(f)
    BY <1>1, <1>4, <1>7, <1>8, <1>10
  <2>. QED
    BY <1>2, <1>4, <1>5, <1>9, <2>1 DEF Carries
<1>11. ASSUME Complete(units)
       PROVE  /\ units = Bytes(f) /\ Len(s) = g + 1 /\ s[g + 1] = f
              /\ Tail(n) = <<>> /\ m = <<>> /\ o = <<>>
              /\ Carries(f, <<>>, <<>>, <<>>, <<>>, s, g + 1, place, st)
  <2>1. Len(n) = 1 /\ Len(m) = 0 /\ Len(o) = 0 /\ Len(b) + Len(n) + Len(m) = Size(f)
    <3>1. ASSUME NEW x \in Nat, NEW y \in Nat, NEW z \in Nat, NEW w \in Nat, NEW k \in Nat,
                 y >= 1, x + 1 = k, x + y + z + w <= k
          PROVE  y = 1 /\ z = 0 /\ w = 0 /\ x + y + z = k
      BY <3>1
    <3>2. Len(b) + 1 = Size(f)
      BY <1>4, <1>7, <1>11
    <3>. QED
      BY <1>1, <1>3, <1>8, <3>1, <3>2
  <2>2. Tail(n) = <<>> /\ m = <<>> /\ o = <<>>
    <3>1. Len(Tail(n)) = 0
      BY <1>3, <2>1
    <3>. QED
      BY <1>3, <2>1, <3>1, SeqFacts
  <2>3. Len(s) = g + 1 /\ s[Len(s)] = f
    BY <1>1, <2>1, <2>2 DEF Carries
  <2>4. units = Bytes(f)
    <3>1. Len(units) = Size(f) /\ \A i \in 1 .. Size(f) : units[i] = <<f, i>>
      BY <1>1, <1>4, <1>7, <1>11 DEF Run
    <3>. QED
      BY <1>4, <3>1, BytesAre, SeqEqual
  <2>5. Len(<<>>) = 0 /\ \A k : Run(<<>>, f, k)
    BY EmptySeq DEF Run
  <2>6. Carries(f, <<>>, <<>>, <<>>, <<>>, s, g + 1, place, st)
    BY <1>1, <2>3, <2>5 DEF Carries
  <2>. QED
    BY <2>2, <2>3, <2>4, <2>6
<1>. QED
  BY <1>9, <1>10, <1>11 DEF units, b, n, m, o, s, g, place, st

-----------------------------------------------------------------------------
(* The streams *)

\* A direction that a step leaves alone, but for the place and the state of its
\* sender and a send that is given up.
LEMMA StreamStays ==
  ASSUME DemoTypeOK, NEW d \in End, Stream(d), Whole(d),
         buf'[d] = buf[d], inbox'[d] = inbox[d], flight'[d] = flight[d],
         sent'[d] = sent[d], got'[d] = got[d],
         out'[d] = <<>> \/ (out'[d] = out[d] /\ pc'[d] = pc[d]),
         state'[d] # "failed" => state[d] # "failed"
  PROVE  Stream(d)' /\ Whole(d)'
<1>0. /\ buf[d] \in Seq(Unit) /\ inbox[d] \in Seq(Unit) /\ flight[d] \in Seq(Unit) /\ out[d] \in Seq(Unit)
      /\ sent[d] \in Seq(Frame) /\ Len(got[d]) \in Nat
  BY StreamTypes
<1>1. PICK f \in Frame :
        Carries(f, buf[d], inbox[d], flight[d], out[d], sent[d], Len(got[d]), pc[d], state[d])
  BY DEF Stream
<1>2. /\ Carries(f, buf[d], inbox[d], flight[d], <<>>, sent[d], Len(got[d]), pc'[d], state'[d])
      /\ Carries(f, buf[d], inbox[d], flight[d], out[d], sent[d], Len(got[d]), pc[d], state'[d])
  BY <1>0, <1>1, CarriesOn
<1>3. Carries(f, buf'[d], inbox'[d], flight'[d], out'[d], sent'[d], Len(got'[d]), pc'[d], state'[d])
  <2>1. CASE out'[d] = <<>>
    BY <1>2, <2>1
  <2>2. CASE out'[d] = out[d] /\ pc'[d] = pc[d]
    BY <1>2, <2>2
  <2>. QED
    BY <2>1, <2>2
<1>. QED
  BY <1>3 DEF Stream, Whole

LEMMA StreamBegins ==
  ASSUME DemoTypeOK, NEW d \in End, Idle(d), Whole(d), NEW f \in Frame, BeginSend(d, f), pc'[d] = f
  PROVE  Stream(d)' /\ Whole(d)'
<1>1. /\ out'[d] = Bytes(f)
      /\ UNCHANGED <<flight, inbox, buf, state, sent, got>>
  BY DEF BeginSend, DemoTypeOK, StreamTypeOK
<1>2. /\ flight[d] = <<>> /\ inbox[d] = <<>> /\ buf[d] = <<>>
      /\ Len(got[d]) = Len(sent[d]) /\ sent[d] \in Seq(Frame)
  BY StreamTypes DEF Idle
<1>3. Carries(f, <<>>, <<>>, <<>>, Bytes(f), sent[d], Len(sent[d]), f, state[d])
  BY <1>2, CarriesNext
<1>4. Carries(f, buf'[d], inbox'[d], flight'[d], out'[d], sent'[d], Len(got'[d]), pc'[d], state'[d])
  BY <1>1, <1>2, <1>3
<1>. QED
  BY <1>1, <1>4 DEF Stream, Whole

LEMMA StreamWrites ==
  ASSUME DemoTypeOK, NEW d \in End, Stream(d), Whole(d), Put(d)
  PROVE  /\ Stream(d)' /\ Whole(d)'
         /\ Len(out[d]) = 1 <=> out'[d] = <<>>
         /\ Len(sent[d]) = Len(got[d])
<1>0. /\ buf[d] \in Seq(Unit) /\ inbox[d] \in Seq(Unit) /\ flight[d] \in Seq(Unit) /\ out[d] \in Seq(Unit)
      /\ sent[d] \in Seq(Frame) /\ Len(got[d]) \in Nat
  BY StreamTypes
<1>1. PICK f \in Frame :
        Carries(f, buf[d], inbox[d], flight[d], out[d], sent[d], Len(got[d]), pc[d], state[d])
  BY DEF Stream
<1>2. /\ out[d] # <<>> /\ out' = [out EXCEPT ![d] = Tail(out[d])]
      /\ sent' = IF Len(out[d]) = 1 THEN [sent EXCEPT ![d] = Append(sent[d], pc[d])] ELSE sent
      /\ UNCHANGED <<inbox, buf, state, got>>
      /\ \/ state[d] = "open" /\ flight' = [flight EXCEPT ![d] = Append(flight[d], Head(out[d]))]
         \/ state[d] = "failed" /\ flight' = flight
      /\ out'[d] # <<>> => pc' = pc
  BY DEF Put, WriteUnit
<1>3. /\ out'[d] = Tail(out[d])
      /\ sent'[d] = IF Len(out[d]) = 1 THEN Append(sent[d], pc[d]) ELSE sent[d]
      /\ \/ state[d] # "failed" /\ flight'[d] = Append(flight[d], Head(out[d]))
         \/ state[d] = "failed" /\ flight'[d] = flight[d]
  BY <1>2 DEF DemoTypeOK, StreamTypeOK
<1>5. /\ pc[d] = f /\ Len(sent[d]) = Len(got[d]) /\ (Tail(out[d]) = <<>> <=> Len(out[d]) = 1)
      /\ Carries(f, buf[d], inbox[d],
                 IF state[d] = "failed" THEN flight[d] ELSE Append(flight[d], Head(out[d])),
                 Tail(out[d]),
                 IF Len(out[d]) = 1 THEN Append(sent[d], f) ELSE sent[d],
                 Len(got[d]), pc'[d], state[d])
  <2>1. out[d] # <<>>
    BY <1>2
  <2>2. Len(out[d]) = 1 \/ pc'[d] = pc[d]
    <3>1. Tail(out[d]) = <<>> <=> Len(out[d]) = 1
      BY <1>1, <2>1, CarriesWritten
    <3>. QED
      BY <1>2, <1>3, <3>1
  <2>. QED
    BY <1>1, <2>1, <2>2, CarriesWritten
<1>6. Carries(f, buf'[d], inbox'[d], flight'[d], out'[d], sent'[d], Len(got'[d]), pc'[d], state'[d])
  <2>1. flight'[d] = IF state[d] = "failed" THEN flight[d] ELSE Append(flight[d], Head(out[d]))
    BY <1>3
  <2>2. sent'[d] = IF Len(out[d]) = 1 THEN Append(sent[d], f) ELSE sent[d]
    BY <1>3, <1>5
  <2>. QED
    BY <1>2, <1>3, <1>5, <2>1, <2>2
<1>7. Whole(d)'
  <2>1. \A i \in 1 .. Len(got[d]) : Append(sent[d], pc[d])[i] = sent[d][i]
    <3>1. sent[d] \in Seq(Frame) /\ pc[d] \in Frame
      BY <1>5, StreamTypes
    <3>. QED
      BY <1>5, <3>1, AppendProperties
  <2>. QED
    BY <1>2, <1>3, <2>1 DEF Whole
<1>. QED
  BY <1>3, <1>5, <1>6, <1>7 DEF Stream

LEMMA StreamArrives ==
  ASSUME DemoTypeOK, NEW d \in End, Stream(d), Whole(d), Arrive(d), UNCHANGED pc
  PROVE  /\ Stream(d)' /\ Whole(d)'
         /\ Len(inbox'[d]) + Len(flight'[d]) = Len(inbox[d]) + Len(flight[d])
<1>0. /\ buf[d] \in Seq(Unit) /\ inbox[d] \in Seq(Unit) /\ flight[d] \in Seq(Unit) /\ out[d] \in Seq(Unit)
      /\ sent[d] \in Seq(Frame) /\ Len(got[d]) \in Nat
  BY StreamTypes
<1>1. PICK f \in Frame :
        Carries(f, buf[d], inbox[d], flight[d], out[d], sent[d], Len(got[d]), pc[d], state[d])
  BY DEF Stream
<1>2. /\ flight[d] # <<>>
      /\ inbox'[d] = Append(inbox[d], Head(flight[d])) /\ flight'[d] = Tail(flight[d])
      /\ UNCHANGED <<out, buf, state, sent, got>>
  BY DEF Arrive, DemoTypeOK, StreamTypeOK
<1>3. /\ Carries(f, buf[d], Append(inbox[d], Head(flight[d])), Tail(flight[d]), out[d],
                 sent[d], Len(got[d]), pc[d], state[d])
      /\ Len(Append(inbox[d], Head(flight[d]))) + Len(Tail(flight[d])) = Len(inbox[d]) + Len(flight[d])
  <2>1. flight[d] # <<>>
    BY <1>2
  <2>. QED
    BY <1>1, <2>1, CarriesArrived
<1>4. Carries(f, buf'[d], inbox'[d], flight'[d], out'[d], sent'[d], Len(got'[d]), pc'[d], state'[d])
  BY <1>2, <1>3
<1>. QED
  BY <1>2, <1>3, <1>4 DEF Stream, Whole

\* What recv returns is the frame sent after those it returned before, and then
\* the direction carries nothing.
LEMMA StreamReads ==
  ASSUME DemoTypeOK, NEW d \in End, Stream(d), Whole(d), ReadUnit(d), pc'[d] = pc[d]
  PROVE  /\ Stream(d)' /\ Whole(d)'
         /\ \/ got' = got /\ Len(buf'[d]) + Len(inbox'[d]) = Len(buf[d]) + Len(inbox[d])
            \/ /\ Len(sent[d]) = Len(got[d]) + 1
               /\ got' = [got EXCEPT ![d] = Append(got[d], Bytes(sent[d][Len(got[d]) + 1]))]
               /\ Idle(d)'
<1>0. /\ buf[d] \in Seq(Unit) /\ inbox[d] \in Seq(Unit) /\ flight[d] \in Seq(Unit) /\ out[d] \in Seq(Unit)
      /\ sent[d] \in Seq(Frame) /\ Len(got[d]) \in Nat
  BY StreamTypes
<1>1. PICK f \in Frame :
        Carries(f, buf[d], inbox[d], flight[d], out[d], sent[d], Len(got[d]), pc[d], state[d])
  BY DEF Stream
<1>. DEFINE units == Append(buf[d], Head(inbox[d]))
<1>2. /\ inbox[d] # <<>> /\ inbox'[d] = Tail(inbox[d])
      /\ UNCHANGED <<out, flight, state, sent>>
      /\ Complete(units) => /\ got' = [got EXCEPT ![d] = Append(got[d], units)]
                            /\ got'[d] = Append(got[d], units) /\ buf'[d] = <<>>
      /\ ~Complete(units) => got' = got /\ buf'[d] = units
  BY DEF ReadUnit, DemoTypeOK, StreamTypeOK
<1>3. /\ ~Complete(units) => /\ Carries(f, units, Tail(inbox[d]), flight[d], out[d], sent[d], Len(got[d]),
                                        pc[d], state[d])
                             /\ Len(units) + Len(Tail(inbox[d])) = Len(buf[d]) + Len(inbox[d])
      /\ Complete(units) => /\ units = Bytes(f) /\ Len(sent[d]) = Len(got[d]) + 1
                            /\ sent[d][Len(got[d]) + 1] = f
                            /\ Tail(inbox[d]) = <<>> /\ flight[d] = <<>> /\ out[d] = <<>>
                            /\ Carries(f, <<>>, <<>>, <<>>, <<>>, sent[d], Len(got[d]) + 1, pc[d], state[d])
  <2>1. inbox[d] # <<>>
    BY <1>2
  <2>. QED
    BY <1>1, <2>1, CarriesRead
<1>. HIDE DEF units
<1>4. CASE ~Complete(units)
  <2>1. Carries(f, buf'[d], inbox'[d], flight'[d], out'[d], sent'[d], Len(got'[d]), pc'[d], state'[d])
    BY <1>2, <1>3, <1>4
  <2>2. Len(buf'[d]) + Len(inbox'[d]) = Len(buf[d]) + Len(inbox[d])
    BY <1>2, <1>3, <1>4
  <2>. QED
    BY <1>2, <1>4, <2>1, <2>2 DEF Stream, Whole
<1>5. CASE Complete(units)
  <2>1. /\ Len(Append(got[d], units)) = Len(got[d]) + 1
        /\ \A i \in 1 .. Len(got[d]) : Append(got[d], units)[i] = got[d][i]
        /\ Append(got[d], units)[Len(got[d]) + 1] = units
    BY StreamTypes, AppendProperties
  <2>2. Carries(f, buf'[d], inbox'[d], flight'[d], out'[d], sent'[d], Len(got'[d]), pc'[d], state'[d])
    BY <1>2, <1>3, <1>5, <2>1
  <2>3. Idle(d)'
    BY <1>2, <1>3, <1>5, <2>1 DEF Idle
  <2>4. Whole(d)'
    <3>. SUFFICES ASSUME NEW i \in 1 .. Len(got'[d]) PROVE got'[d][i] = Bytes(sent'[d][i])
      BY DEF Whole
    <3>1. i \in 1 .. Len(got[d]) \/ i = Len(got[d]) + 1
      BY <1>2, <1>5, <2>1, StreamTypes
    <3>2. CASE i \in 1 .. Len(got[d])
      BY <1>2, <1>5, <2>1, <3>2 DEF Whole
    <3>3. CASE i = Len(got[d]) + 1
      BY <1>2, <1>3, <1>5, <2>1, <3>3
    <3>. QED
      BY <3>1, <3>2, <3>3
  <2>. QED
    BY <1>2, <1>3, <1>5, <2>2, <2>3, <2>4 DEF Stream
<1>. QED
  BY <1>4, <1>5

LEMMA StreamsKept ==
  ASSUME DemoInv, [DemoNext]_vars, NEW d \in End
  PROVE  Stream(d)' /\ Whole(d)'
<1>0. /\ DemoTypeOK /\ Stream(d) /\ Whole(d)
      /\ client \in End /\ server \in End /\ client # server
      /\ \A e \in End : /\ Other(e) \in End /\ Other(e) # e
                        /\ e # d => Other(e) = d
                        /\ e = client \/ e = server
      /\ {"hello", "response", "message"} = Frame
  BY TwoEnds, DemoAssumption DEF DemoInv
<1>1. /\ buf \in [End -> Seq(Unit)] /\ inbox \in [End -> Seq(Unit)] /\ flight \in [End -> Seq(Unit)]
      /\ out \in [End -> Seq(Unit)] /\ sent \in [End -> Seq(Frame)] /\ got \in [End -> Seq(Seq(Unit))]
      /\ state \in [End -> {"open", "closed", "failed"}]
      /\ pc \in [End -> {"start", "listen", "answer", "typing", "close", "over", "killed"} \cup Frame]
      /\ ~Sending(d) => out[d] = <<>>
  BY <1>0 DEF DemoTypeOK, StreamTypeOK
<1>2. ASSUME buf'[d] = buf[d], inbox'[d] = inbox[d], flight'[d] = flight[d],
             sent'[d] = sent[d], got'[d] = got[d],
             out'[d] = <<>> \/ (out'[d] = out[d] /\ pc'[d] = pc[d]),
             state'[d] # "failed" => state[d] # "failed"
      PROVE  Stream(d)' /\ Whole(d)'
  BY <1>0, <1>2, StreamStays
<1>3. ASSUME UNCHANGED streamVars, out[d] = <<>> \/ pc'[d] = pc[d]
      PROVE  Stream(d)' /\ Whole(d)'
  BY <1>2, <1>3 DEF streamVars
<1>4. ASSUME NEW e \in End, StartFails(e) PROVE Stream(d)' /\ Whole(d)'
  <2>1. out[d] = <<>> \/ pc'[d] = pc[d]
    BY <1>1, <1>4 DEF StartFails, Goto, Sending, Sends
  <2>. QED
    BY <1>3, <1>4, <2>1 DEF StartFails
<1>5. ASSUME Listen PROVE Stream(d)' /\ Whole(d)'
  <2>1. out[d] = <<>> \/ pc'[d] = pc[d]
    BY <1>1, <1>5 DEF Listen, Goto, Sending, Sends
  <2>. QED
    BY <1>3, <1>5, <2>1 DEF Listen
<1>6. ASSUME Connect PROVE Stream(d)' /\ Whole(d)'
  <2>1. CASE d = client
    <3>1. Idle(client) /\ pc'[client] = "hello" /\ "hello" \in Frame /\ BeginSend(client, "hello")
      BY <1>0, <1>6 DEF Connect, DemoInv, Turns
    <3>. QED
      BY <1>0, <2>1, <3>1, StreamBegins
  <2>2. CASE d = server
    <3>1. out[d] = <<>>
      BY <1>0, <1>1, <1>6, <2>2 DEF Connect, Sending, Sends
    <3>2. out'[d] = out[d] /\ UNCHANGED <<flight, inbox, buf, state, sent, got>>
      BY <1>0, <1>1, <1>6, <2>2 DEF Connect, BeginSend
    <3>. QED
      BY <1>2, <3>1, <3>2
  <2>. QED
    BY <1>0, <2>1, <2>2
<1>7. ASSUME BothFail PROVE Stream(d)' /\ Whole(d)'
  BY <1>1, <1>2, <1>7 DEF BothFail
<1>8. ASSUME NEW e \in End, Put(e) PROVE Stream(d)' /\ Whole(d)'
  <2>1. CASE e = d
    BY <1>0, <1>8, <2>1, StreamWrites
  <2>2. CASE e # d
    <3>1. /\ UNCHANGED <<inbox, buf, state, got>>
          /\ out'[d] = out[d] /\ sent'[d] = sent[d] /\ flight'[d] = flight[d]
      BY <1>1, <1>8, <2>2 DEF Put, WriteUnit
    <3>2. pc'[d] = pc[d]
      BY <1>1, <1>8, <2>2 DEF Put, Goto
    <3>. QED
      BY <1>2, <3>1, <3>2
  <2>. QED
    BY <2>1, <2>2
<1>9. ASSUME NEW e \in End, SendFails(e) \/ Die(e) PROVE Stream(d)' /\ Whole(d)'
  <2>1. /\ UNCHANGED <<flight, inbox, buf, sent, got>>
        /\ out' = [out EXCEPT ![e] = <<>>]
        /\ pc' = [pc EXCEPT ![e] = pc'[e]]
        /\ state' = state \/ state' = [state EXCEPT ![e] =
                                         IF Connected(e) /\ state[e] = "open" THEN "closed" ELSE state[e]]
    BY <1>1, <1>9 DEF SendFails, Die, Goto
  <2>2. out'[d] = <<>> \/ (out'[d] = out[d] /\ pc'[d] = pc[d])
    BY <1>1, <2>1
  <2>3. state'[d] # "failed" => state[d] # "failed"
    BY <1>1, <2>1
  <2>. QED
    BY <1>2, <2>1, <2>2, <2>3
<1>10. ASSUME NEW e \in End, Get(e) PROVE Stream(d)' /\ Whole(d)'
  <2>1. Receiving(e) /\ ReadUnit(Other(e)) /\ (pc' = pc \/ pc' = [pc EXCEPT ![e] = pc'[e]])
    BY <1>1, <1>10 DEF Get, Goto
  <2>2. CASE e = d
    <3>1. out[d] = <<>>
      BY <1>1, <2>1, <2>2, Speaking
    <3>2. /\ UNCHANGED <<out, flight, state, sent>>
          /\ inbox'[d] = inbox[d] /\ buf'[d] = buf[d] /\ got'[d] = got[d]
      <4>1. ASSUME NEW x \in End, x # d, ReadUnit(x)
            PROVE  /\ UNCHANGED <<out, flight, state, sent>>
                   /\ inbox'[d] = inbox[d] /\ buf'[d] = buf[d] /\ got'[d] = got[d]
        <5>1. UNCHANGED <<out, flight, state, sent>> /\ inbox'[d] = inbox[d]
          BY <1>1, <4>1 DEF ReadUnit
        <5>2. buf'[d] = buf[d] /\ got'[d] = got[d]
          BY <1>1, <4>1 DEF ReadUnit
        <5>. QED
          BY <5>1, <5>2
      <4>. QED
        BY <1>0, <2>1, <2>2, <4>1
    <3>. QED
      BY <1>2, <3>1, <3>2
  <2>3. CASE e # d
    <3>1. pc'[d] = pc[d] /\ ReadUnit(d)
      BY <1>0, <1>1, <2>1, <2>3
    <3>. QED
      BY <1>0, <3>1, StreamReads
  <2>. QED
    BY <2>2, <2>3
<1>11. ASSUME NEW e \in End, GetFails(e) PROVE Stream(d)' /\ Whole(d)'
  <2>1. Receiving(e) /\ pc' = [pc EXCEPT ![e] = "close"]
        /\ UNCHANGED <<out, flight, inbox, buf, state, sent, got>>
    BY <1>11 DEF GetFails, RecvFails, Goto
  <2>2. out[d] = <<>> \/ pc'[d] = pc[d]
    BY <1>1, <2>1, Speaking
  <2>. QED
    BY <1>2, <2>1, <2>2
<1>12. ASSUME NEW e \in End, Speak(e) PROVE Stream(d)' /\ Whole(d)'
  <2>1. PICK f \in Frame : pc' = [pc EXCEPT ![e] = f] /\ BeginSend(e, f)
    BY <1>0, <1>12 DEF Speak, Goto
  <2>2. CASE e = d
    <3>1. Idle(d)
      BY <1>0, <1>12, <2>2 DEF Speak, DemoInv, Places, Turns, Answering
    <3>2. pc'[d] = f
      BY <1>1, <2>1, <2>2
    <3>. QED
      BY <1>0, <2>1, <2>2, <3>1, <3>2, StreamBegins
  <2>3. CASE e # d
    <3>1. pc'[d] = pc[d] /\ out'[d] = out[d] /\ UNCHANGED <<flight, inbox, buf, state, sent, got>>
      BY <1>1, <2>1, <2>3 DEF BeginSend
    <3>. QED
      BY <1>2, <3>1
  <2>. QED
    BY <2>2, <2>3
<1>13. ASSUME NEW e \in End, Close(e) PROVE Stream(d)' /\ Whole(d)'
  <2>1. out[d] = <<>> \/ pc'[d] = pc[d]
    BY <1>1, <1>13 DEF Close, Goto, Sending, Sends
  <2>2. UNCHANGED <<out, flight, inbox, buf, sent, got>> /\ (state'[d] # "failed" => state[d] # "failed")
    BY <1>1, <1>13 DEF Close
  <2>. QED
    BY <1>2, <2>1, <2>2
<1>14. ASSUME NEW e \in End, Arrive(e), UNCHANGED <<pc, printed>> PROVE Stream(d)' /\ Whole(d)'
  <2>1. CASE e = d
    BY <1>0, <1>14, <2>1, StreamArrives
  <2>2. CASE e # d
    BY <1>1, <1>2, <1>14, <2>2 DEF Arrive
  <2>. QED
    BY <2>1, <2>2
<1>15. ASSUME UNCHANGED vars PROVE Stream(d)' /\ Whole(d)'
  BY <1>3, <1>15 DEF vars
<1>. QED
  BY <1>4, <1>5, <1>6, <1>7, <1>8, <1>9, <1>10, <1>11, <1>12, <1>13, <1>14, <1>15
     DEF DemoNext, Program, Kernel, Lose, Reset

-----------------------------------------------------------------------------
(* Whose turn it is *)

\* Steps that put nothing into a direction and take nothing out of it.
LEMMA TurnsStay ==
  ASSUME DemoTypeOK, Turns, UNCHANGED <<flight, inbox, buf, sent, got>>,
         \A e \in End : out'[e] = out[e] \/ out'[e] = <<>>,
         \A e \in End : pc'[e] = pc[e] \/ pc'[e] \in {"close", "over", "killed"}
                                       \/ (pc[e] = "start" /\ pc'[e] = "listen" /\ e = server)
  PROVE  Turns'
<1>0. client \in End /\ server \in End /\ client # server
  BY TwoEnds
<1>1. \A e \in End : Idle(e) => Idle(e)'
  BY DEF Idle
<1>2. Answering' => Answering
  BY <1>0 DEF Answering, Written
<1>. QED
  BY <1>0, <1>1, <1>2 DEF Turns

\* Steps of a direction that carries something.
LEMMA BusyFacts ==
  ASSUME DemoInv, NEW d \in End, ~Idle(d)
  PROVE  /\ d = client => /\ pc[client] # "start"
                          /\ ~(pc[client] \in {"response", "typing"} /\ Answering)
         /\ d = server => pc[server] \notin {"start", "listen", "hello", "answer"}
BY DEF DemoInv, Turns

LEMMA TurnsStep ==
  ASSUME DemoInv, [DemoNext]_vars
  PROVE  Turns'
<1>0. /\ DemoTypeOK /\ Turns /\ Places
      /\ client \in End /\ server \in End /\ client # server
      /\ Other(client) = server /\ Other(server) = client
      /\ \A e \in End : e = client \/ e = server
      /\ {"hello", "response", "message"} = Frame
  BY TwoEnds, DemoAssumption DEF DemoInv
<1>1. /\ buf \in [End -> Seq(Unit)] /\ inbox \in [End -> Seq(Unit)] /\ flight \in [End -> Seq(Unit)]
      /\ out \in [End -> Seq(Unit)] /\ sent \in [End -> Seq(Frame)] /\ got \in [End -> Seq(Seq(Unit))]
      /\ pc \in [End -> {"start", "listen", "answer", "typing", "close", "over", "killed"} \cup Frame]
      /\ \A e \in End : ~Sending(e) => out[e] = <<>>
  BY DEF DemoInv, DemoTypeOK, StreamTypeOK
<1>2. ASSUME NEW e \in End, StartFails(e) \/ SendFails(e) \/ GetFails(e) \/ Close(e) \/ Die(e)
      PROVE  Turns'
  <2>1. /\ UNCHANGED <<flight, inbox, buf, sent, got>>
        /\ out' = out \/ out' = [out EXCEPT ![e] = <<>>]
        /\ \E q \in {"close", "over", "killed"} : pc' = [pc EXCEPT ![e] = q]
    BY <1>2 DEF StartFails, SendFails, GetFails, RecvFails, Close, Die, Goto, streamVars
  <2>2. \A x \in End : out'[x] = out[x] \/ out'[x] = <<>>
    BY <1>1, <2>1
  <2>3. \A x \in End : pc'[x] = pc[x] \/ pc'[x] \in {"close", "over", "killed"}
    BY <1>1, <2>1
  <2>. QED
    BY <1>0, <2>1, <2>2, <2>3, TurnsStay
<1>3. ASSUME BothFail \/ UNCHANGED vars PROVE Turns'
  <2>1. UNCHANGED <<flight, inbox, buf, sent, got, out, pc>>
    BY <1>3 DEF BothFail, vars, streamVars
  <2>. QED
    BY <1>0, <2>1, TurnsStay
<1>4. ASSUME Listen PROVE Turns'
  <2>1. /\ UNCHANGED <<flight, inbox, buf, sent, got, out>>
        /\ pc[server] = "start" /\ pc' = [pc EXCEPT ![server] = "listen"]
    BY <1>4 DEF Listen, Goto, streamVars
  <2>2. \A x \in End : pc'[x] = pc[x] \/ (pc[x] = "start" /\ pc'[x] = "listen" /\ x = server)
    BY <1>1, <2>1
  <2>. QED
    BY <1>0, <2>1, <2>2, TurnsStay
<1>5. ASSUME Connect PROVE Turns'
  <2>1. /\ UNCHANGED <<flight, inbox, buf, sent, got>> /\ out'[server] = out[server]
        /\ pc[client] = "start" /\ pc[server] = "listen"
        /\ pc'[client] = "hello" /\ pc'[server] = "hello"
    BY <1>0, <1>1, <1>5 DEF Connect, BeginSend
  <2>2. Idle(server) /\ sent[server] = <<>> /\ sent[client] = <<>> /\ ~Answering
    BY <1>0, <2>1 DEF Turns
  <2>3. Idle(server)' /\ ~Answering'
    BY <2>1, <2>2 DEF Idle, Answering, Written
  <2>. QED
    BY <2>1, <2>2, <2>3 DEF Turns
<1>6. ASSUME NEW e \in End, Put(e) PROVE Turns'
  <2>1. /\ Sending(e) /\ UNCHANGED <<inbox, buf, got>>
        /\ \A x \in End : x # e => /\ out'[x] = out[x] /\ sent'[x] = sent[x] /\ flight'[x] = flight[x]
                                   /\ pc'[x] = pc[x]
        /\ out'[e] = <<>> => pc'[e] = AfterSend(e)
        /\ out'[e] # <<>> => pc'[e] = pc[e]
    BY <1>1, <1>6 DEF Put, WriteUnit, Goto
  <2>2. /\ sent'[e] = IF Len(out[e]) = 1 THEN Append(sent[e], pc[e]) ELSE sent[e]
        /\ Len(out[e]) = 1 <=> out'[e] = <<>>
    <3>1. sent'[e] = IF Len(out[e]) = 1 THEN Append(sent[e], pc[e]) ELSE sent[e]
      BY <1>1, <1>6 DEF Put, WriteUnit
    <3>2. Stream(e) /\ Whole(e)
      BY DEF DemoInv
    <3>. QED
      BY <1>0, <1>6, <3>1, <3>2, StreamWrites
  <2>3. CASE e = client
    <3>1. pc[client] \in {"hello", "message"} /\ (out'[client] = <<>> => pc'[client] \in {"response", "close"})
      BY <1>0, <2>1, <2>3 DEF Sending, Sends, AfterSend
    <3>2. out'[client] = <<>> /\ pc[client] = "message" => pc'[client] = "close"
      BY <2>1, <2>3 DEF AfterSend
    <3>3. Idle(server)' = Idle(server) /\ Answering' = Answering /\ pc'[server] = pc[server] /\ sent'[server] = sent[server]
      BY <1>0, <2>1, <2>3 DEF Idle, Answering, Written
    <3>4. CASE out'[client] = <<>>
      BY <1>0, <2>1, <2>3, <3>1, <3>2, <3>3, <3>4 DEF Turns
    <3>5. CASE out'[client] # <<>>
      BY <1>0, <2>1, <2>2, <2>3, <3>1, <3>3, <3>5 DEF Turns
    <3>. QED
      BY <3>4, <3>5
  <2>4. CASE e = server
    <3>1. pc[server] = "response" /\ pc'[server] \in {"response", "message"}
      BY <1>0, <2>1, <2>4 DEF Sending, Sends, AfterSend
    <3>2. Idle(client)' = Idle(client) /\ pc'[client] = pc[client] /\ sent'[client] = sent[client]
      BY <1>0, <2>1, <2>4 DEF Idle
    <3>3. Answering /\ Answering'
      BY <3>1 DEF Answering
    <3>4. sent[server] # <<>> => sent'[server] # <<>>
      <4>1. sent[server] \in Seq(Frame) /\ pc[server] \in Frame
        BY <1>0, <1>1, <3>1
      <4>2. Append(sent[server], pc[server]) # <<>>
        BY <4>1, AppendProperties
      <4>. QED
        BY <2>2, <2>4, <4>2
    <3>. QED
      BY <1>0, <3>1, <3>2, <3>3, <3>4 DEF Turns
  <2>. QED
    BY <1>0, <2>3, <2>4
<1>7. ASSUME NEW e \in End, Get(e) PROVE Turns'
  <2>. DEFINE d == Other(e)
  <2>1. /\ Receiving(e) /\ ReadUnit(d) /\ d \in End /\ d # e
        /\ got' = got => pc' = pc
        /\ pc'[e] \in {pc[e], AfterRecv(e), "close"}
        /\ got' # got => pc'[e] \in {AfterRecv(e), "close"}
        /\ pc'[d] = pc[d]
    <3>1. d \in End /\ d # e
      BY <1>0
    <3>2. /\ Receiving(e) /\ ReadUnit(d)
          /\ got'[d] = got[d] => pc' = pc
          /\ got'[d] # got[d] => pc' = [pc EXCEPT ![e] = AfterRecv(e)] \/ pc' = [pc EXCEPT ![e] = "close"]
      BY <1>7 DEF Get, Goto
    <3>3. got' # got => got'[d] # got[d]
      BY <1>1, <3>1, <3>2 DEF ReadUnit
    <3>. QED
      BY <1>1, <3>1, <3>2, <3>3
  <2>. HIDE DEF d
  <2>2. /\ inbox[d] # <<>> /\ ~Idle(d)
        /\ UNCHANGED <<out, flight, sent>>
        /\ inbox'[e] = inbox[e] /\ buf'[e] = buf[e] /\ got'[e] = got[e]
    <3>1. inbox[d] # <<>> /\ UNCHANGED <<out, flight, sent>> /\ inbox'[e] = inbox[e]
      BY <1>1, <2>1 DEF ReadUnit
    <3>2. buf'[e] = buf[e] /\ got'[e] = got[e]
      BY <1>1, <2>1 DEF ReadUnit
    <3>. QED
      BY <3>1, <3>2 DEF Idle
  <2>3. \/ got' = got /\ Len(buf'[d]) + Len(inbox'[d]) = Len(buf[d]) + Len(inbox[d])
        \/ got' # got /\ Len(sent[d]) = Len(got[d]) + 1 /\ Idle(d)'
    <3>1. Stream(d) /\ Whole(d)
      BY <2>1 DEF DemoInv
    <3>2. \/ got' = got /\ Len(buf'[d]) + Len(inbox'[d]) = Len(buf[d]) + Len(inbox[d])
          \/ Len(sent[d]) = Len(got[d]) + 1 /\ Idle(d)'
      BY <1>0, <2>1, <3>1, StreamReads
    <3>3. Len(sent[d]) = Len(got[d]) + 1 /\ Idle(d)' => got' # got
      <4>1. Len(got[d]) \in Nat
        BY <1>1, <2>1, LenProperties
      <4>. QED
        BY <2>2, <4>1 DEF Idle
    <3>. QED
      BY <3>2, <3>3
  <2>4. Idle(e)' = Idle(e)
    BY <2>2 DEF Idle
  <2>5. /\ d = client => /\ pc[client] # "start"
                         /\ ~(pc[client] \in {"response", "typing"} /\ Answering)
        /\ d = server => pc[server] \notin {"start", "listen", "hello", "answer"}
    BY <2>1, <2>2, BusyFacts
  <2>6. Len(sent[d]) = Len(got[d]) + 1 => sent[d] # <<>>
    <3>1. Len(got[d]) \in Nat
      BY <1>1, <2>1, LenProperties
    <3>. QED
      BY <3>1, EmptySeq
  <2>7. CASE d = client
    <3>1. e = server
      BY <1>0, <2>1, <2>7
    <3>2. pc[server] \in {"hello", "message"} /\ AfterRecv(server) \in {"answer", "close"}
          /\ (pc[server] = "message" => AfterRecv(server) = "close")
      BY <1>0, <2>1, <3>1 DEF Receiving, Receives, AfterRecv
    <3>3. CASE got' = got
      <4>1. pc' = pc /\ sent' = sent /\ Answering' = Answering
        BY <2>1, <2>2, <3>1, <3>3 DEF Answering, Written
      <4>. QED
        BY <1>0, <2>4, <2>5, <2>7, <3>1, <4>1 DEF Turns
    <3>4. CASE got' # got /\ Idle(client)' /\ sent[client] # <<>>
      BY <1>0, <2>1, <2>2, <2>4, <2>7, <3>1, <3>2, <3>4 DEF Turns
    <3>. QED
      BY <2>3, <2>6, <2>7, <3>3, <3>4
  <2>8. CASE d = server
    <3>1. e = client
      BY <1>0, <2>1, <2>8
    <3>2. pc[client] = "response" /\ AfterRecv(client) = "typing"
      BY <1>0, <2>1, <3>1 DEF Receiving, Receives, AfterRecv
    <3>3. Answering
      <4>1. /\ Len(buf[server]) \in Nat /\ Len(inbox[server]) \in Nat /\ Len(flight[server]) \in Nat
            /\ Len(inbox[server]) # 0
        <5>1. inbox[server] \in Seq(Unit) /\ inbox[server] # <<>>
          BY <1>0, <1>1, <2>2, <2>8
        <5>2. buf[server] \in Seq(Unit) /\ flight[server] \in Seq(Unit)
          BY <1>0, <1>1
        <5>3. Len(inbox[server]) \in Nat /\ Len(inbox[server]) # 0
          BY <5>1, LenProperties, EmptySeq
        <5>4. Len(buf[server]) \in Nat /\ Len(flight[server]) \in Nat
          BY <5>2, LenProperties
        <5>. QED
          BY <5>3, <5>4
      <4>2. \A a, b, c \in Nat : b # 0 => a + b + c > 0
        OBVIOUS
      <4>3. Len(buf[server]) + Len(inbox[server]) + Len(flight[server]) > 0
        BY <4>1, <4>2
      <4>. QED
        BY <4>3 DEF Answering, Written
    <3>4. Idle(client) /\ Idle(client)'
      BY <1>0, <2>4, <3>1, <3>2, <3>3 DEF Turns
    <3>5. got' # got => sent'[server] # <<>>
      BY <2>2, <2>3, <2>6, <2>8
    <3>. QED
      BY <1>0, <2>1, <2>2, <2>5, <2>8, <3>1, <3>2, <3>4, <3>5 DEF Turns
  <2>. QED
    BY <1>0, <2>1, <2>7, <2>8
<1>8. ASSUME NEW e \in End, Speak(e) PROVE Turns'
  <2>1. CASE e = server
    <3>1. /\ pc[server] = "answer" /\ pc' = [pc EXCEPT ![server] = "response"] /\ BeginSend(server, "response")
      BY <1>0, <1>8, <2>1 DEF Speak, Goto, Places
    <3>2. /\ pc'[server] = "response" /\ pc'[client] = pc[client]
          /\ UNCHANGED <<flight, inbox, buf, sent, got>> /\ out'[client] = out[client]
      BY <1>0, <1>1, <3>1 DEF BeginSend
    <3>3. Answering /\ Idle(client)' = Idle(client)
      BY <3>1, <3>2 DEF Answering, Idle
    <3>. QED
      BY <1>0, <3>2, <3>3 DEF Turns
  <2>2. CASE e = client
    <3>1. /\ pc' = [pc EXCEPT ![client] = "message"] /\ BeginSend(client, "message")
      BY <1>0, <1>8, <2>2 DEF Speak, Goto, Places
    <3>2. /\ pc'[client] = "message" /\ pc'[server] = pc[server]
          /\ UNCHANGED <<flight, inbox, buf, sent, got>> /\ out'[server] = out[server]
      BY <1>0, <1>1, <3>1 DEF BeginSend
    <3>3. Idle(server)' = Idle(server)
      BY <3>2 DEF Idle
    <3>. QED
      BY <1>0, <3>2, <3>3 DEF Turns
  <2>. QED
    BY <1>0, <2>1, <2>2
<1>9. ASSUME NEW d \in End, Arrive(d), UNCHANGED <<pc, printed>> PROVE Turns'
  <2>1. /\ flight[d] # <<>> /\ UNCHANGED <<out, buf, sent, got>> /\ pc' = pc
        /\ \A x \in End : x # d => inbox'[x] = inbox[x] /\ flight'[x] = flight[x]
    BY <1>1, <1>9 DEF Arrive
  <2>2. ~Idle(d)
    BY <2>1 DEF Idle
  <2>3. Len(inbox'[d]) + Len(flight'[d]) = Len(inbox[d]) + Len(flight[d])
    <3>1. Stream(d) /\ Whole(d)
      BY DEF DemoInv
    <3>. QED
      BY <1>0, <1>9, <3>1, StreamArrives
  <2>4. /\ d = client => /\ pc[client] # "start"
                         /\ ~(pc[client] \in {"response", "typing"} /\ Answering)
        /\ d = server => pc[server] \notin {"start", "listen", "hello", "answer"}
    BY <2>2, BusyFacts
  <2>5. \A x \in End : x # d => Idle(x)' = Idle(x)
    BY <2>1 DEF Idle
  <2>6. Answering' = Answering
    <3>1. CASE d = client
      BY <1>0, <2>1, <3>1 DEF Answering, Written
    <3>2. CASE d = server
      <4>1. Written(server)' = Written(server)
        <5>1. /\ Len(buf[server]) \in Nat /\ Len(inbox[server]) \in Nat /\ Len(flight[server]) \in Nat
              /\ Len(inbox'[server]) \in Nat /\ Len(flight'[server]) \in Nat
          <6>1. inbox'[server] \in Seq(Unit) /\ flight'[server] \in Seq(Unit)
            BY <1>0, StreamTypeStep DEF DemoInv, StreamTypeOK
          <6>2. buf[server] \in Seq(Unit) /\ inbox[server] \in Seq(Unit) /\ flight[server] \in Seq(Unit)
            BY <1>0, <1>1
          <6>3. /\ Len(buf[server]) \in Nat /\ Len(inbox[server]) \in Nat /\ Len(flight[server]) \in Nat
            BY <6>2, LenProperties
          <6>4. Len(inbox'[server]) \in Nat /\ Len(flight'[server]) \in Nat
            BY <6>1, LenProperties
          <6>. QED
            BY <6>3, <6>4
        <5>2. buf'[server] = buf[server]
          BY <2>1
        <5>3. Len(inbox'[server]) + Len(flight'[server]) = Len(inbox[server]) + Len(flight[server])
          BY <2>3, <3>2
        <5>4. \A a, b, c, n, m \in Nat : n + m = b + c => a + n + m = a + b + c
          OBVIOUS
        <5>5. Len(buf[server]) + Len(inbox'[server]) + Len(flight'[server])
                = Len(buf[server]) + Len(inbox[server]) + Len(flight[server])
          <6>. DEFINE a == Len(buf[server])
                      b == Len(inbox[server])
                      c == Len(flight[server])
                      n == Len(inbox'[server])
                      m == Len(flight'[server])
          <6>1. a \in Nat /\ b \in Nat /\ c \in Nat /\ n \in Nat /\ m \in Nat /\ n + m = b + c
            BY <5>1, <5>3
          <6>. HIDE DEF a, b, c, n, m
          <6>2. a + n + m = a + b + c
            BY <6>1, <5>4
          <6>. QED
            BY <6>2 DEF a, b, c, n, m
        <5>. QED
          BY <5>2, <5>5 DEF Written
      <4>. QED
        BY <2>1, <4>1 DEF Answering
    <3>. QED
      BY <1>0, <3>1, <3>2
  <2>. QED
    BY <1>0, <2>1, <2>4, <2>5, <2>6 DEF Turns
<1>. QED
  BY <1>2, <1>3, <1>4, <1>5, <1>6, <1>7, <1>8, <1>9 DEF DemoNext, Program, Kernel, Lose, Reset

LEMMA GivenUpStep ==
  ASSUME DemoInv, [DemoNext]_vars
  PROVE  GivenUp'
<1>. DEFINE Done == {"close", "over", "killed"}
            Given == /\ gaveup'[client] => pc'[server] \in Done
                     /\ gaveup'[server] => pc'[client] \in Done
<1>0. /\ gaveup \in [End -> BOOLEAN]
      /\ pc \in [End -> {"start", "listen", "answer", "typing", "close", "over", "killed"} \cup Frame]
      /\ client \in End /\ server \in End /\ client # server
      /\ Other(client) = server /\ Other(server) = client
      /\ \A e \in End : e = client \/ e = server
      /\ Frame = {"hello", "response", "message"}
  BY TwoEnds, DemoAssumption DEF DemoInv, DemoTypeOK, StreamTypeOK
<1>1. (gaveup[client] => pc[server] \in Done) /\ (gaveup[server] => pc[client] \in Done)
  BY <1>0 DEF DemoInv, GivenUp
<1>. SUFFICES Given
  BY <1>0 DEF GivenUp
<1>2. ASSUME UNCHANGED gaveup, NEW e \in End, pc' = [pc EXCEPT ![e] = pc'[e]],
             pc[e] \notin Done \/ pc'[e] \in Done
      PROVE  Given
  BY <1>0, <1>1, <1>2
<1>3. ASSUME UNCHANGED <<gaveup, pc>> PROVE Given
  BY <1>1, <1>3
<1>. HIDE DEF Given
<1>4. ASSUME NEW e \in End, StartFails(e) \/ Put(e) \/ SendFails(e) \/ Get(e) \/ Speak(e) \/ Close(e) \/ Die(e)
      PROVE  Given
  <2>1. UNCHANGED gaveup
    BY <1>4 DEF StartFails, Put, WriteUnit, SendFails, Get, ReadUnit, Speak, BeginSend, Close, Die, streamVars
  <2>2. pc' = pc \/ pc' = [pc EXCEPT ![e] = pc'[e]]
    BY <1>0, <1>4 DEF StartFails, Put, SendFails, Get, Speak, Close, Die, Goto
  <2>3. pc[e] \notin Done \/ pc'[e] \in Done
    BY <1>0, <1>4 DEF StartFails, Put, Sending, Sends, SendFails, Get, Receiving, Receives, Speak, Close, Die, Goto
  <2>. QED
    BY <1>2, <1>3, <2>1, <2>2, <2>3
<1>5. ASSUME NEW e \in End, GetFails(e) PROVE Given
  <2>1. gaveup' = [gaveup EXCEPT ![Other(e)] = TRUE] /\ pc' = [pc EXCEPT ![e] = "close"] /\ Receiving(e)
    BY <1>5 DEF GetFails, RecvFails, Goto
  <2>. QED
    BY <1>0, <1>1, <2>1 DEF Given
<1>6. ASSUME Listen PROVE Given
  <2>1. UNCHANGED gaveup /\ pc[server] = "start" /\ pc' = [pc EXCEPT ![server] = "listen"]
    BY <1>6 DEF Listen, Goto, streamVars
  <2>. QED
    BY <1>0, <1>1, <2>1 DEF Given
<1>7. ASSUME Connect PROVE Given
  BY <1>1, <1>7 DEF Connect, BeginSend, Given
<1>8. ASSUME BothFail \/ UNCHANGED vars PROVE Given
  BY <1>3, <1>8 DEF BothFail, vars, streamVars
<1>9. ASSUME NEW e \in End, Arrive(e), UNCHANGED <<pc, printed>> PROVE Given
  BY <1>3, <1>9 DEF Arrive
<1>. QED
  BY <1>4, <1>5, <1>6, <1>7, <1>8, <1>9 DEF DemoNext, Program, Kernel, Lose, Reset

LEMMA DemoStarts == DemoInit => DemoInv
<1>. SUFFICES ASSUME DemoInit PROVE DemoInv
  OBVIOUS
<1>1. /\ out = [e \in End |-> <<>>] /\ flight = [e \in End |-> <<>>]
      /\ inbox = [e \in End |-> <<>>] /\ buf = [e \in End |-> <<>>]
      /\ state = [e \in End |-> "open"] /\ sent = [e \in End |-> <<>>]
      /\ got = [e \in End |-> <<>>] /\ gaveup = [e \in End |-> FALSE]
      /\ pc = [e \in End |-> "start"] /\ printed = FALSE
  BY DEF DemoInit, StreamInit
<1>2. /\ <<>> \in Seq(Unit) /\ <<>> \in Seq(Frame) /\ <<>> \in Seq(Seq(Unit)) /\ Len(<<>>) = 0
      /\ Capacity \in Nat /\ "hello" \in Frame
  BY FramingAssumption, DemoAssumption, EmptySeq
<1>3. client \in End /\ server \in End /\ \A e \in End : Other(e) \in End
  BY TwoEnds
<1>4. DemoTypeOK
  <2>1. \A e \in End : Len(flight[e]) + Len(inbox[e]) <= Capacity /\ out[e] = <<>>
    <3>. TAKE e \in End
    <3>1. Len(flight[e]) = 0 /\ Len(inbox[e]) = 0 /\ out[e] = <<>>
      BY <1>1, <1>2
    <3>2. 0 + 0 <= Capacity
      BY <1>2
    <3>. QED
      BY <3>1, <3>2
  <2>2. /\ out \in [End -> Seq(Unit)] /\ flight \in [End -> Seq(Unit)]
        /\ inbox \in [End -> Seq(Unit)] /\ buf \in [End -> Seq(Unit)]
    BY <1>1, <1>2
  <2>3. sent \in [End -> Seq(Frame)] /\ got \in [End -> Seq(Seq(Unit))]
    BY <1>1, <1>2
  <2>4. /\ state \in [End -> {"open", "closed", "failed"}] /\ gaveup \in [End -> BOOLEAN]
        /\ pc \in [End -> {"start", "listen", "answer", "typing", "close", "over", "killed"} \cup Frame]
        /\ printed \in BOOLEAN
    BY <1>1
  <2>. QED
    BY <2>1, <2>2, <2>3, <2>4 DEF DemoTypeOK, StreamTypeOK
<1>5. Places
  BY <1>1, <1>3 DEF Places
<1>6. ASSUME NEW e \in End PROVE Stream(e) /\ Whole(e) /\ Idle(e)
  <2>1. /\ out[e] = <<>> /\ flight[e] = <<>> /\ inbox[e] = <<>> /\ buf[e] = <<>>
        /\ sent[e] = <<>> /\ got[e] = <<>>
    BY <1>1
  <2>2. Size("hello") \in Nat /\ Size("hello") > 0
    BY <1>2, SizeIs
  <2>3. \A f, k : Run(<<>>, f, k)
    BY <1>2 DEF Run
  <2>4. \A q, st : Carries("hello", <<>>, <<>>, <<>>, <<>>, <<>>, 0, q, st)
    BY <1>2, <2>2, <2>3 DEF Carries
  <2>5. Stream(e)
    BY <1>2, <2>1, <2>4 DEF Stream
  <2>. QED
    BY <1>2, <2>1, <2>5 DEF Whole, Idle
<1>7. Turns
  <2>1. Written(server) = 0
    BY <1>1, <1>2, <1>3 DEF Written
  <2>2. ~Answering
    BY <1>1, <1>3, <2>1 DEF Answering
  <2>. QED
    BY <1>1, <1>3, <1>6, <2>2 DEF Turns
<1>8. GivenUp
  BY <1>1, <1>3 DEF GivenUp
<1>. QED
  BY <1>4, <1>5, <1>6, <1>7, <1>8 DEF DemoInv

LEMMA DemoInvHolds == DemoSpec => []DemoInv
<1>1. ASSUME DemoInv, [DemoNext]_vars PROVE DemoInv'
  <2>1. DemoTypeOK'
    BY <1>1, DemoTypeStep DEF DemoInv
  <2>2. Places'
    BY <1>1, PlacesStep DEF DemoInv
  <2>3. \A e \in End : Stream(e)' /\ Whole(e)'
    BY <1>1, StreamsKept
  <2>4. Turns' /\ GivenUp'
    BY <1>1, TurnsStep, GivenUpStep
  <2>. QED
    BY <2>1, <2>2, <2>3, <2>4 DEF DemoInv
<1>. QED
  BY <1>1, DemoStarts, PTL DEF DemoSpec

\* At every moment the two programs and the stream between them have their
\* types: an end that has something left to write is at the send that writes
\* it, and a direction never holds more than the stream's buffer takes.
THEOREM DemoTypeCorrect == DemoSpec => []DemoTypeOK
<1>1. DemoInv => DemoTypeOK
  BY DEF DemoInv
<1>. QED
  BY <1>1, DemoInvHolds, PTL

-----------------------------------------------------------------------------
(* The channel of whole frames *)

gotFrames == [e \in End |-> [i \in 1 .. Len(got[e]) |-> FrameOf(got[e][i])]]

LEMMA FrameOfBytes == \A f \in Frame : FrameOf(Bytes(f)) = f
<1>. TAKE f \in Frame
<1>1. ASSUME NEW g \in Frame, Bytes(f) = Bytes(g) PROVE f = g
  <2>1. 1 \in 1 .. Size(f) /\ 1 \in 1 .. Size(g)
    BY SizeIs
  <2>2. Bytes(f)[1] = <<f, 1>> /\ Bytes(g)[1] = <<g, 1>>
    BY <2>1, BytesAre
  <2>. QED
    BY <1>1, <2>2
<1>. QED
  BY <1>1 DEF FrameOf

LEMMA FramesGot ==
  ASSUME DemoInv, NEW e \in End
  PROVE  /\ gotFrames[e] = [i \in 1 .. Len(got[e]) |-> sent[e][i]]
         /\ Len(gotFrames[e]) = Len(got[e]) /\ Len(got[e]) \in Nat
         /\ Len(got[e]) <= Len(sent[e]) /\ gotFrames[e] \in Seq(Frame)
<1>1. DemoTypeOK /\ Stream(e) /\ Whole(e)
  BY DEF DemoInv
<1>2. Len(got[e]) \in Nat /\ sent[e] \in Seq(Frame) /\ Len(sent[e]) \in Nat
  BY <1>1, StreamTypes, LenProperties
<1>3. Len(got[e]) <= Len(sent[e])
  <2>1. Len(sent[e]) = Len(got[e]) \/ Len(sent[e]) = Len(got[e]) + 1
    BY <1>1 DEF Stream, Carries
  <2>. QED
    BY <1>2, <2>1
<1>4. \A i \in 1 .. Len(got[e]) : sent[e][i] \in Frame /\ FrameOf(got[e][i]) = sent[e][i]
  <2>. TAKE i \in 1 .. Len(got[e])
  <2>1. i \in 1 .. Len(sent[e])
    BY <1>2, <1>3
  <2>2. sent[e][i] \in Frame
    BY <1>2, <2>1, ElementOfSeq
  <2>3. got[e][i] = Bytes(sent[e][i])
    BY <1>1 DEF Whole
  <2>. QED
    BY <2>2, <2>3, FrameOfBytes
<1>5. gotFrames[e] = [i \in 1 .. Len(got[e]) |-> sent[e][i]]
  BY <1>4 DEF gotFrames
<1>6. gotFrames[e] \in [1 .. Len(got[e]) -> Frame]
  BY <1>4, <1>5
<1>. QED
  BY <1>2, <1>3, <1>5, <1>6, LenProperties

LEMMA FramesGotNext ==
  DemoInv' => \A e \in End : (gotFrames[e] = [i \in 1 .. Len(got[e]) |-> sent[e][i]])'
<1>1. DemoInv => \A e \in End : gotFrames[e] = [i \in 1 .. Len(got[e]) |-> sent[e][i]]
  BY FramesGot
<1>2. DemoInv' => (\A e \in End : gotFrames[e] = [i \in 1 .. Len(got[e]) |-> sent[e][i]])'
  BY <1>1, PTL
<1>. QED
  BY <1>2

\* What is left of a direction that its sender closed is nothing.
LEMMA AllGot ==
  ASSUME DemoInv, NEW e \in End, state[e] # "failed", inbox[e] = <<>>, flight[e] = <<>>
  PROVE  gotFrames[e] = sent[e]
<1>1. DemoTypeOK /\ Stream(e)
  BY DEF DemoInv
<1>2. buf[e] \in Seq(Unit) /\ Len(got[e]) \in Nat /\ sent[e] \in Seq(Frame)
  BY <1>1, StreamTypes
<1>3. Len(buf[e]) \in Nat /\ Len(<<>>) = 0
  BY <1>2, LenProperties, EmptySeq
<1>4. Len(sent[e]) = Len(got[e])
  <2>1. PICK f \in Frame :
          Carries(f, buf[e], inbox[e], flight[e], out[e], sent[e], Len(got[e]), pc[e], state[e])
    BY <1>1 DEF Stream
  <2>2. Size(f) \in Nat
    BY SizeIs
  <2>3. Len(buf[e]) < Size(f) /\ Len(buf[e]) + 0 + 0 # Size(f)
    BY <1>3, <2>1, <2>2 DEF Carries
  <2>. QED
    BY <1>3, <2>1, <2>3 DEF Carries
<1>5. gotFrames[e] = [i \in 1 .. Len(sent[e]) |-> sent[e][i]]
  BY <1>4, FramesGot
<1>. QED
  BY <1>2, <1>5, LenProperties

LEMMA ChannelStarts == DemoInit => Frames!ChannelInit
<1>. SUFFICES ASSUME DemoInit PROVE Frames!ChannelInit
  OBVIOUS
<1>1. /\ sent = [e \in End |-> <<>>] /\ got = [e \in End |-> <<>>]
      /\ state = [e \in End |-> "open"] /\ gaveup = [e \in End |-> FALSE]
  BY DEF DemoInit, StreamInit
<1>2. gotFrames = [e \in End |-> <<>>]
  <2>1. ASSUME NEW e \in End PROVE [i \in 1 .. Len(got[e]) |-> FrameOf(got[e][i])] = <<>>
    <3>1. got[e] = <<>> /\ Len(got[e]) = 0
      BY <1>1, EmptySeq
    <3>2. [i \in 1 .. Len(got[e]) |-> FrameOf(got[e][i])] \in [1 .. 0 -> {FrameOf(got[e][i]) : i \in 1 .. 0}]
      BY <3>1
    <3>. QED
      BY <3>2, EmptySeq
  <2>. QED
    BY <2>1 DEF gotFrames
<1>. QED
  BY <1>1, <1>2 DEF Frames!ChannelInit, gotFrames

\* A step that the channel does not show.
LEMMA ChannelStays ==
  ASSUME UNCHANGED <<sent, got, state, gaveup>>
  PROVE  UNCHANGED Frames!chvars
<1>1. gotFrames' = gotFrames
  BY DEF gotFrames
<1>. QED
  BY <1>1 DEF Frames!chvars, gotFrames

\* The last unit of a frame is written: the frame is sent.
LEMMA ChannelSends ==
  ASSUME DemoInv, NEW e \in End, Put(e)
  PROVE  Frames!SendFrame(e) \/ UNCHANGED Frames!chvars
<1>1. /\ sent' = [sent EXCEPT ![e] = Append(sent[e], pc[e])] \/ sent' = sent
      /\ UNCHANGED <<got, state, gaveup>> /\ state[e] # "closed" /\ pc[e] \in Frame
  BY Speaking DEF Put, WriteUnit
<1>2. gotFrames' = gotFrames
  BY <1>1 DEF gotFrames
<1>3. CASE sent' = sent
  BY <1>1, <1>3, ChannelStays
<1>4. CASE sent' = [sent EXCEPT ![e] = Append(sent[e], pc[e])]
  BY <1>1, <1>2, <1>4 DEF Frames!SendFrame, gotFrames
<1>. QED
  BY <1>1, <1>3, <1>4

\* The last unit of a frame is read: the frame is received.
LEMMA ChannelReceives ==
  ASSUME DemoInv, DemoInv', NEW e \in End, Get(e)
  PROVE  Frames!RecvFrame(Other(e)) \/ UNCHANGED Frames!chvars
<1>. DEFINE d == Other(e)
<1>1. d \in End /\ d # e /\ Other(d) = e /\ DemoTypeOK /\ Stream(d) /\ Whole(d)
  BY TwoEnds DEF DemoInv
<1>2. /\ ReadUnit(d) /\ pc'[d] = pc[d] /\ pc[e] \in Frame
      /\ UNCHANGED <<sent, state, gaveup>>
  <2>1. pc' = pc \/ \E q : pc' = [pc EXCEPT ![e] = q]
    BY DEF Get, Goto
  <2>2. pc'[d] = pc[d]
    BY <1>1, <2>1 DEF DemoTypeOK
  <2>3. ReadUnit(d) /\ pc[e] \in Frame
    BY Speaking DEF Get
  <2>4. UNCHANGED <<sent, state, gaveup>>
    BY <2>3 DEF ReadUnit
  <2>. QED
    BY <2>2, <2>3, <2>4
<1>. HIDE DEF d
<1>3. ~gaveup[d]
  <2>1. pc[e] \notin {"close", "over", "killed"}
    BY <1>2, DemoAssumption
  <2>2. ~gaveup[Other(e)]
    BY <2>1 DEF DemoInv, GivenUp
  <2>. QED
    BY <2>2 DEF d
<1>4. CASE got' = got
  BY <1>2, <1>4, ChannelStays DEF d
<1>5. CASE /\ Len(sent[d]) = Len(got[d]) + 1
           /\ got' = [got EXCEPT ![d] = Append(got[d], Bytes(sent[d][Len(got[d]) + 1]))]
  <2>. DEFINE n == Len(got[d])
              f == sent[d][n + 1]
  <2>1. n \in Nat /\ got[d] \in Seq(Seq(Unit)) /\ sent[d] \in Seq(Frame) /\ got \in [End -> Seq(Seq(Unit))]
    BY <1>1, StreamTypes DEF DemoTypeOK, StreamTypeOK
  <2>2. f \in Frame
    BY <1>5, <2>1, ElementOfSeq
  <2>3. /\ got'[d] = Append(got[d], Bytes(f)) /\ Len(got'[d]) = n + 1
        /\ \A x \in End : x # d => got'[x] = got[x]
    <3>1. got' = [got EXCEPT ![d] = Append(got[d], Bytes(f))]
      BY <1>5
    <3>2. Bytes(f) \in Seq(Unit)
      BY <2>2, BytesAre
    <3>3. Len(Append(got[d], Bytes(f))) = n + 1
      BY <2>1, <3>2, AppendProperties
    <3>. QED
      BY <1>1, <2>1, <3>1, <3>3
  <2>4. /\ gotFrames[d] = [i \in 1 .. n |-> sent[d][i]]
        /\ gotFrames'[d] = [i \in 1 .. n + 1 |-> sent[d][i]]
        /\ Len(gotFrames[d]) = n /\ gotFrames[d] \in Seq(Frame)
    <3>1. gotFrames[d] = [i \in 1 .. n |-> sent[d][i]] /\ Len(gotFrames[d]) = n /\ gotFrames[d] \in Seq(Frame)
      BY <1>1, FramesGot
    <3>2. (gotFrames[d] = [i \in 1 .. Len(got[d]) |-> sent[d][i]])'
      BY <1>1, FramesGotNext
    <3>. QED
      BY <1>2, <2>3, <3>1, <3>2
  <2>5. gotFrames'[d] = Append(gotFrames[d], f)
    BY <2>1, <2>2, <2>4, AppendProperties
  <2>6. \A x \in End : x # d => gotFrames'[x] = gotFrames[x]
    BY <2>3 DEF gotFrames
  <2>7. gotFrames' = [gotFrames EXCEPT ![d] = Append(@, sent[d][Len(@) + 1])]
    BY <1>1, <2>4, <2>5, <2>6 DEF gotFrames
  <2>8. Len(gotFrames[d]) < Len(sent[d])
    BY <1>5, <2>1, <2>4
  <2>9. Frames!RecvFrame(d)
    BY <1>2, <1>3, <2>7, <2>8 DEF Frames!RecvFrame, gotFrames
  <2>. QED
    BY <2>9 DEF d
<1>. QED
  BY <1>1, <1>2, <1>4, <1>5, StreamReads

\* recv returns false: nothing more comes out of this direction.
LEMMA ChannelGivesUp ==
  ASSUME DemoInv, NEW e \in End, GetFails(e)
  PROVE  Frames!GiveUp(Other(e))
<1>1. Other(e) \in End
  BY TwoEnds
<1>2. /\ \/ state[Other(e)] = "failed"
         \/ state[Other(e)] = "closed" /\ flight[Other(e)] = <<>> /\ inbox[Other(e)] = <<>>
      /\ gaveup' = [gaveup EXCEPT ![Other(e)] = TRUE]
      /\ UNCHANGED <<sent, got, state>>
  BY DEF GetFails, RecvFails
<1>3. state[Other(e)] = "failed" \/ (state[Other(e)] = "closed" /\ gotFrames[Other(e)] = sent[Other(e)])
  BY <1>1, <1>2, AllGot
<1>4. gotFrames' = gotFrames
  BY <1>2 DEF gotFrames
<1>. QED
  BY <1>2, <1>3, <1>4 DEF Frames!GiveUp, gotFrames

\* The socket is closed, by the program or for it.
LEMMA ChannelCloses ==
  ASSUME DemoInv, NEW e \in End, Close(e) \/ Die(e)
  PROVE  Frames!CloseChannel(e) \/ UNCHANGED Frames!chvars
<1>1. state \in [End -> {"open", "closed", "failed"}]
  BY DEF DemoInv, DemoTypeOK, StreamTypeOK
<1>2. /\ state' = state \/ (state[e] = "open" /\ state' = [state EXCEPT ![e] = "closed"])
      /\ UNCHANGED <<sent, got, gaveup>>
  BY <1>1 DEF Close, Die
<1>3. gotFrames' = gotFrames
  BY <1>2 DEF gotFrames
<1>4. CASE state' = state
  BY <1>2, <1>4, ChannelStays
<1>5. CASE state[e] = "open" /\ state' = [state EXCEPT ![e] = "closed"]
  BY <1>2, <1>3, <1>5 DEF Frames!CloseChannel, gotFrames
<1>. QED
  BY <1>2, <1>4, <1>5

LEMMA ChannelFails ==
  ASSUME BothFail
  PROVE  Frames!FailChannels(End)
<1>1. state' = [e \in End |-> "failed"] /\ UNCHANGED <<sent, got, gaveup>>
  BY DEF BothFail
<1>2. gotFrames' = gotFrames
  BY <1>1 DEF gotFrames
<1>3. state' = [e \in End |-> IF e \in End THEN "failed" ELSE state[e]]
  BY <1>1
<1>. QED
  BY <1>1, <1>2, <1>3 DEF Frames!FailChannels, gotFrames

\* transport.h's promise, kept by the length-prefixed frames on a byte stream:
\* however the stream splits and joins what is written, and wherever a program
\* is killed or the connection fails, recv returns whole frames in the order
\* they were sent, and returns false only on a direction that has failed, or
\* that was closed and has nothing left to read.
THEOREM FramesStayWhole == DemoSpec => WholeFrames
<1>1. ASSUME DemoInv, DemoInv', [DemoNext]_vars PROVE [Frames!ChannelNext]_Frames!chvars
  <2>1. \A e \in End : Other(e) \in End
    BY TwoEnds
  <2>2. ASSUME UNCHANGED <<sent, got, state, gaveup>> PROVE [Frames!ChannelNext]_Frames!chvars
    BY <2>2, ChannelStays
  <2>3. ASSUME NEW e \in End,
               \/ Frames!SendFrame(e) \/ Frames!RecvFrame(e) \/ Frames!GiveUp(e)
               \/ Frames!CloseChannel(e) \/ UNCHANGED Frames!chvars
        PROVE  [Frames!ChannelNext]_Frames!chvars
    BY <2>3 DEF Frames!ChannelNext
  <2>4. ASSUME BothFail PROVE [Frames!ChannelNext]_Frames!chvars
    <3>1. End \in SUBSET End
      OBVIOUS
    <3>. QED
      BY <2>4, <3>1, ChannelFails DEF Frames!ChannelNext
  <2>5. ASSUME Listen \/ Connect \/ UNCHANGED vars PROVE UNCHANGED <<sent, got, state, gaveup>>
    BY <2>5 DEF Listen, Connect, BeginSend, vars, streamVars
  <2>6. ASSUME NEW e \in End, \/ StartFails(e) \/ SendFails(e) \/ Speak(e) \/ Arrive(e)
        PROVE  UNCHANGED <<sent, got, state, gaveup>>
    BY <2>6 DEF StartFails, SendFails, Speak, BeginSend, Arrive, streamVars
  <2>7. ASSUME NEW e \in End, Put(e) PROVE [Frames!ChannelNext]_Frames!chvars
    BY <1>1, <2>3, <2>7, ChannelSends
  <2>8. ASSUME NEW e \in End, Get(e) PROVE [Frames!ChannelNext]_Frames!chvars
    BY <1>1, <2>1, <2>3, <2>8, ChannelReceives
  <2>9. ASSUME NEW e \in End, GetFails(e) PROVE [Frames!ChannelNext]_Frames!chvars
    BY <1>1, <2>1, <2>3, <2>9, ChannelGivesUp
  <2>10. ASSUME NEW e \in End, Close(e) \/ Die(e) PROVE [Frames!ChannelNext]_Frames!chvars
    BY <1>1, <2>3, <2>10, ChannelCloses
  <2>. QED
    BY <1>1, <2>2, <2>4, <2>5, <2>6, <2>7, <2>8, <2>9, <2>10 DEF DemoNext, Program, Kernel, Lose, Reset
<1>. QED
  BY <1>1, DemoInvHolds, ChannelStarts, PTL DEF DemoSpec, WholeFrames, Frames!ChannelSpec
=============================================================================
