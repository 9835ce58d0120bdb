------------------------------ MODULE TcpDemo ------------------------------
(***************************************************************************)
(* client.cpp and server.cpp, the two demo programs: one TCP connection, a *)
(* handshake, one message from the client, and the end.  Their engines are *)
(* SecureChat's; here a handshake step or a decryption succeeds when the   *)
(* frame that recv returned is the whole expected one.                     *)
(***************************************************************************)
EXTENDS TcpFraming

CONSTANTS client, server

ASSUME DemoAssumption ==
  client # server /\ End = {client, server} /\ Frame = {"hello", "response", "message"}

VARIABLES
  pc,      \* where each program is; in a send or recv, which frame it is about
  printed  \* "[server] Decrypted" is out

vars == <<streamVars, pc, printed>>

Other(e) == CHOOSE x \in End : x # e

Sends == {<<client, "hello">>, <<server, "response">>, <<client, "message">>}
Receives == {<<server, "hello">>, <<client, "response">>, <<server, "message">>}

Sending(e) == <<e, pc[e]>> \in Sends
Receiving(e) == <<e, pc[e]>> \in Receives
Connected(e) == pc[e] \in Frame \cup {"answer", "typing", "close"}
HasEnded(e) == pc[e] \in {"over", "killed"}

DemoTypeOK ==
  /\ StreamTypeOK
  /\ pc \in [End -> {"start", "listen", "answer", "typing", "close", "over", "killed"} \cup Frame]
  /\ printed \in BOOLEAN
  /\ \A e \in End : out[e] # <<>> => Sending(e)

DemoInit == StreamInit /\ pc = [e \in End |-> "start"] /\ printed = FALSE

Goto(e, place) == pc' = [pc EXCEPT ![e] = place]

-----------------------------------------------------------------------------
(* Before the connection *)

\* loadOrCreateIdentity, connect or listen_and_accept fails.
StartFails(e) ==
  /\ pc[e] \in {"start", "listen"}
  /\ Goto(e, "over")
  /\ UNCHANGED <<streamVars, printed>>

Listen ==
  /\ pc[server] = "start"
  /\ Goto(server, "listen")
  /\ UNCHANGED <<streamVars, printed>>

Connect ==
  /\ pc[client] = "start" /\ pc[server] = "listen"
  /\ pc' = [e \in End |-> "hello"]
  /\ BeginSend(client, "hello")
  /\ UNCHANGED printed

-----------------------------------------------------------------------------
(* The two mains *)
AfterSend(e) ==
  IF pc[e] = "hello" THEN "response" ELSE IF pc[e] = "response" THEN "message" ELSE "close"

Put(e) ==
  /\ Sending(e)
  /\ WriteUnit(e, pc[e])
  /\ IF out'[e] = <<>> THEN Goto(e, AfterSend(e)) ELSE UNCHANGED pc
  /\ UNCHANGED printed

\* Fault: what is left of the frame is not forgotten.
SendGivesUp(e) ==
  /\ Sending(e) /\ state[e] = "failed"
  /\ Goto(e, "close")
  /\ UNCHANGED <<streamVars, printed>>

\* write throws: send returns false and main returns.
SendFails(e) ==
  /\ Sending(e) /\ state[e] = "failed"
  /\ Goto(e, "close")
  /\ out' = [out EXCEPT ![e] = <<>>]
  /\ UNCHANGED <<flight, inbox, buf, state, sent, got, gaveup, printed>>

AfterRecv(e) ==
  IF pc[e] = "hello" THEN "answer" ELSE IF pc[e] = "response" THEN "typing" ELSE "close"

\* A frame that is the expected one is accepted; any other ends the program.
Get(e) ==
  LET d == Other(e)
      accepted == got'[d] # got[d] /\ got'[d][Len(got'[d])] = Bytes(pc[e])
  IN
  /\ Receiving(e)
  /\ ReadUnit(d)
  /\ IF got'[d] = got[d] THEN UNCHANGED pc
     ELSE Goto(e, IF accepted THEN AfterRecv(e) ELSE "close")
  /\ printed' = (printed \/ (accepted /\ pc[e] = "message"))

GetFails(e) ==
  /\ Receiving(e)
  /\ RecvFails(Other(e))
  /\ Goto(e, "close")
  /\ UNCHANGED printed

\* The host's part of the handshake; the user types a line, and an empty one is
\* replaced by a greeting.
Speak(e) ==
  \/ pc[e] = "answer" /\ Goto(e, "response") /\ BeginSend(e, "response") /\ UNCHANGED printed
  \/ pc[e] = "typing" /\ Goto(e, "message") /\ BeginSend(e, "message") /\ UNCHANGED printed

\* Fault: what has not arrived is discarded.
CloseHard(e) ==
  /\ pc[e] = "close"
  /\ Goto(e, "over")
  /\ flight' = [flight EXCEPT ![e] = <<>>]
  /\ state' = [state EXCEPT ![e] = IF @ = "open" THEN "closed" ELSE @]
  /\ UNCHANGED <<out, inbox, buf, sent, got, gaveup, printed>>

\* TcpTransport::close, by main or by the destructor: what is written arrives.
Close(e) ==
  /\ pc[e] = "close"
  /\ Goto(e, "over")
  /\ state' = [state EXCEPT ![e] = IF @ = "open" THEN "closed" ELSE @]
  /\ UNCHANGED <<out, flight, inbox, buf, sent, got, gaveup, printed>>

-----------------------------------------------------------------------------
(* The network, and processes that die *)

\* The kernel closes the connection of a process that dies.
Die(e) ==
  /\ ~HasEnded(e)
  /\ Goto(e, "killed")
  /\ out' = [out EXCEPT ![e] = <<>>]
  /\ state' = [state EXCEPT ![e] = IF Connected(e) /\ @ = "open" THEN "closed" ELSE @]
  /\ UNCHANGED <<flight, inbox, buf, sent, got, gaveup, printed>>

BothFail ==
  /\ state' = [e \in End |-> "failed"]
  /\ UNCHANGED <<out, flight, inbox, buf, sent, got, gaveup, pc, printed>>

\* Data for a program that is gone is answered with a reset.
Reset(e) ==
  /\ HasEnded(Other(e)) /\ flight[e] \o inbox[e] # <<>> /\ state[e] # "failed"
  /\ BothFail

\* The network fails, in a way that both ends are told of.
Lose == (\E e \in End : Connected(e) /\ state[e] # "failed") /\ BothFail

Program(e) == Put(e) \/ SendFails(e) \/ Get(e) \/ GetFails(e) \/ Speak(e) \/ Close(e)

Kernel(e) == (Arrive(e) /\ UNCHANGED <<pc, printed>>) \/ Reset(e)

DemoNext ==
  \/ Listen \/ Connect \/ Lose
  \/ \E e \in End : StartFails(e) \/ Program(e) \/ Kernel(e) \/ Die(e)

DemoSpec == DemoInit /\ [][DemoNext]_vars

\* Both programs run, their user types the line that is asked for, and what is
\* written arrives or is answered with a reset, unless the network fails.
DemoFairness == \A e \in End : WF_vars(Program(e)) /\ WF_vars(Kernel(e))

FairDemoSpec == DemoSpec /\ DemoFairness

-----------------------------------------------------------------------------
(* Correctness *)

\* transport.h: "send one framed message (length-prefixed)", "receive one framed
\* message": whatever the stream does to the bytes, and wherever a program is
\* killed, the transport is a channel of whole frames.
FrameOf(units) ==
  IF \E f \in Frame : units = Bytes(f) THEN CHOOSE f \in Frame : units = Bytes(f) ELSE "torn"

Frames == INSTANCE FrameChannel WITH
  got <- [e \in End |-> [i \in 1 .. Len(got[e]) |-> FrameOf(got[e][i])]]

WholeFrames == Frames!ChannelSpec

\* client.cpp says "Sent" and closes at once: the server still prints the
\* message, unless it is killed or the connection fails.
SentIsPrinted ==
  (\E i \in 1 .. Len(sent[client]) : sent[client][i] = "message")
    ~> (printed \/ pc[server] = "killed" \/ state[client] = "failed")

\* Once connected, no program waits for ever for the other.
DemoEnds == \A e \in End : Connected(e) ~> HasEnded(e)
=============================================================================
