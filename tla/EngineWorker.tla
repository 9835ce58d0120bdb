---------------------------- MODULE EngineWorker ----------------------------
(***************************************************************************)
(* gui/EngineWorker.cpp: slots queued by the window run one after another  *)
(* in the worker thread, a receive thread runs while a session is on, over *)
(* TcpTransport or WsTransport.  connect_url runs a nested event loop, in  *)
(* which the next queued slot may start before the first has returned: the *)
(* slots under way are a stack.  The window's end is the worker's: its     *)
(* event loop is quit, and the destructor disconnects.  running_ is        *)
(* written and never read, and left out.                                   *)
(***************************************************************************)
EXTENDS WsTransport, Sequences

CONSTANT MaxClicks  \* bound: requests the user makes

ASSUME ClickAssumption == MaxClicks \in Nat

VARIABLES
  window,       \* "open", "closing" (the loop is quit), "gone" with the worker
  careful,      \* the user starts only when nothing is under way and rested
  rested,       \* no request but messages since a Disconnect with nothing under way
  clicks,       \* requests queued for the worker thread
  asked,        \* how many there were
  stack,        \* slots under way, the running one first
  serial,       \* number of the transport ws_ was last set to
  mode,         \* mode_
  isConnected,  \* isConnected_
  rx,           \* rxThread_: "none" (not joinable), "run", "ended"
  tcp,          \* tcp_: is socket_ open, is the peer there, frames to read
  shown,        \* the window's status label says Connected
  crashed,      \* the program was ended by one of its own errors
  badTag        \* ... which was decrypt's, met with a tag that does not verify

user == <<window, careful, rested, clicks, asked>>
session == <<mode, isConnected, rx, shown, crashed, badTag>>
gvars == <<user, stack, serial, session, tcp>>
vars == <<wsvars, gvars>>

TcpOps == {"startConnect", "startHost"}
RelayOps == {"startRelayConnect", "startRelayHost"}
Starts == TcpOps \cup RelayOps
Ops == Starts \cup {"disconnectFromPeer", "sendMessage"}

NoSocket == [open |-> FALSE, peer |-> FALSE, unread |-> 0]
Joined == [open |-> TRUE, peer |-> TRUE, unread |-> 0]

WorkerTypeOK ==
  /\ TransportTypeOK
  /\ window \in {"open", "closing", "gone"}
  /\ careful \in BOOLEAN /\ rested \in BOOLEAN /\ isConnected \in BOOLEAN
  /\ shown \in BOOLEAN /\ crashed \in BOOLEAN /\ badTag \in BOOLEAN
  /\ clicks \in Seq(Ops) /\ asked \in 0 .. MaxClicks + 1 /\ serial \in 0 .. MaxClicks
  /\ stack \in Seq([op : Ops \cup {"~EngineWorker"}, ws : 0 .. MaxClicks,
                    at : {"stop", "join", "begin", "accept", "opening", "recv", "write"}])
  /\ mode \in {"None", "TCP", "WS"}
  /\ rx \in {"none", "run", "ended"}
  /\ tcp \in [open : BOOLEAN, peer : BOOLEAN, unread : 0 .. MaxQueued]

WorkerInit ==
  /\ line = "none" /\ arrived = 0 /\ inbox = 0
  /\ connected = FALSE /\ closed = FALSE /\ recv = "out"
  /\ window = "open" /\ careful \in BOOLEAN /\ rested = TRUE
  /\ clicks = <<>> /\ asked = 0 /\ stack = <<>> /\ serial = 0
  /\ mode = "None" /\ isConnected = FALSE /\ rx = "none"
  /\ tcp = NoSocket /\ shown = FALSE /\ crashed = FALSE /\ badTag = FALSE

-----------------------------------------------------------------------------
(* the worker thread's stack *)
LoopRuns == ~crashed /\ window # "gone" /\ (stack # <<>> => Head(stack).at = "opening")
Running(at) == ~crashed /\ stack # <<>> /\ Head(stack).at = at
Goto(at) == stack' = <<[Head(stack) EXCEPT !.at = at]>> \o Tail(stack)
Return == stack' = Tail(stack)

Quiet == clicks = <<>> /\ stack = <<>>

\* A menu action of the window, or a line typed (MainWindow.cpp), queued for the
\* worker.
Click(op) ==
  /\ ~crashed /\ window = "open" /\ asked < MaxClicks
  /\ (careful /\ op \in Starts) => (rested /\ Quiet)
  /\ rested' = ((op = "disconnectFromPeer" /\ Quiet) \/ (op = "sendMessage" /\ rested))
  /\ asked' = asked + 1
  /\ clicks' = Append(clicks, op)
  /\ UNCHANGED <<wsvars, window, careful, stack, serial, session, tcp>>

\* ~MainWindow: a last request to disconnect, which the loop may or may not get
\* to, since it is quit at once; then the window waits for the worker's thread.
CloseWindow ==
  /\ ~crashed /\ window = "open"
  /\ window' = "closing"
  /\ asked' = asked + 1
  /\ clicks' = Append(clicks, "disconnectFromPeer")
  /\ UNCHANGED <<wsvars, careful, rested, stack, serial, session, tcp>>

\* The event loop, the outer or a nested one, calls the next slot.  A start
\* disconnects first when isConnected_ is set.
Dispatch ==
  /\ LoopRuns /\ clicks # <<>>
  /\ LET op == Head(clicks)
         at == IF op = "disconnectFromPeer" \/ (op \in Starts /\ isConnected) THEN "stop" ELSE "begin"
     IN stack' = <<[op |-> op, at |-> at, ws |-> 0]>> \o stack
  /\ clicks' = Tail(clicks)
  /\ UNCHANGED <<wsvars, window, careful, rested, asked, serial, session, tcp>>

\* Fault: the worker is destroyed without disconnectFromPeer.
LoopEndsOnly ==
  /\ ~crashed /\ window = "closing" /\ stack = <<>>
  /\ IF rx = "none" THEN window' = "gone" /\ UNCHANGED crashed
     ELSE crashed' = TRUE /\ UNCHANGED window
  /\ UNCHANGED <<wsvars, careful, rested, clicks, asked, stack, serial, mode, isConnected, rx, shown, badTag, tcp>>

\* The outer event loop was quit and returns; the thread's end deletes the worker,
\* whose destructor disconnects.  What is queued still is never called.
LoopEnds ==
  /\ ~crashed /\ window = "closing" /\ stack = <<>>
  /\ stack' = <<[op |-> "~EngineWorker", at |-> "stop", ws |-> 0]>>
  /\ UNCHANGED <<wsvars, user, serial, session, tcp>>

-----------------------------------------------------------------------------
(* disconnectFromPeer *)
\* Fault: only the Qt transport is closed.
StopForgetsTcp ==
  /\ Running("stop")
  /\ IF mode = "WS" /\ line # "none" THEN Close ELSE UNCHANGED wsvars
  /\ Goto("join")
  /\ UNCHANGED <<user, serial, session, tcp>>

Stop ==
  /\ Running("stop")
  /\ tcp' = IF mode = "TCP" THEN NoSocket ELSE tcp
  /\ IF mode = "WS" /\ line # "none" THEN Close ELSE UNCHANGED wsvars
  /\ Goto("join")
  /\ UNCHANGED <<user, serial, session>>

Stopped ==
  /\ IF Head(stack).op \in Starts THEN Goto("begin") ELSE Return
  /\ window' = IF Head(stack).op = "~EngineWorker" THEN "gone" ELSE window

\* Fault: only the thread of a session that is still on is joined.
JoinIfConnected ==
  /\ Running("join") /\ (isConnected => rx # "run")
  /\ rx' = IF isConnected THEN "none" ELSE rx
  /\ isConnected' = FALSE /\ shown' = FALSE /\ mode' = "None"
  /\ Stopped
  /\ UNCHANGED <<wsvars, careful, rested, clicks, asked, serial, tcp, crashed, badTag>>

\* join returns when the receive thread has ended; the rest follows.
Join ==
  /\ Running("join") /\ rx # "run"
  /\ rx' = "none" /\ mode' = "None"
  /\ isConnected' = FALSE
  /\ shown' = IF isConnected THEN FALSE ELSE shown
  /\ Stopped
  /\ UNCHANGED <<wsvars, careful, rested, clicks, asked, serial, tcp, crashed, badTag>>

-----------------------------------------------------------------------------
\* AesGcm256::decrypt meets a tag that does not verify: it frees its context, and
\* frees it again in the handler of its own exception, which ends the program.
TagFails ==
  /\ crashed' = TRUE /\ badTag' = TRUE
  /\ UNCHANGED <<mode, isConnected, rx, shown>>

(* the four start slots *)
\* The identity cannot be loaded or created, or the password is not its own: the
\* private key is under the password's key, and its tag fails.
IdentityError ==
  /\ Running("begin") /\ Head(stack).op \in Starts
  /\ \/ Return /\ UNCHANGED session
     \/ TagFails /\ UNCHANGED stack
  /\ UNCHANGED <<wsvars, user, serial, tcp>>

\* asio's connect closes and opens the socket for every address it tries, so
\* one that failed leaves it open, unless no address was found.
TcpConnect ==
  /\ Running("begin") /\ Head(stack).op = "startConnect"
  /\ \/ tcp' = Joined /\ Goto("recv")
     \/ tcp' \in {tcp, [NoSocket EXCEPT !.open = TRUE]} /\ Return
  /\ UNCHANGED <<wsvars, user, serial, session>>

\* accept into a socket that is open is an error; so is a port in use.
TcpListen ==
  /\ Running("begin") /\ Head(stack).op = "startHost"
  /\ Return \/ (~tcp.open /\ Goto("accept"))
  /\ UNCHANGED <<wsvars, user, serial, session, tcp>>

TcpAccept ==
  /\ Running("accept")
  /\ tcp' = Joined /\ Goto("recv")
  /\ UNCHANGED <<wsvars, user, serial, session>>

\* ws_ = make_unique: the transport before is destroyed.
RelayOpen ==
  /\ Running("begin") /\ Head(stack).op \in RelayOps
  /\ Fresh("trying")
  /\ serial' = serial + 1
  /\ stack' = <<[Head(stack) EXCEPT !.at = "opening", !.ws = serial + 1]>> \o Tail(stack)
  /\ UNCHANGED <<user, session, tcp>>

\* The nested loop was quit by a signal of the socket or by the timer, and
\* connect_url returns connected_, of a transport that may be gone.
RelayOpened ==
  /\ Running("opening")
  /\ \/ /\ Head(stack).ws # serial
        /\ crashed' = TRUE
        /\ UNCHANGED <<wsvars, stack>>
     \/ /\ Head(stack).ws = serial /\ connected
        /\ Goto("recv")
        /\ UNCHANGED <<wsvars, crashed>>
     \/ /\ Head(stack).ws = serial /\ ~connected
        /\ NoTransport /\ Return
        /\ UNCHANGED crashed
  /\ UNCHANGED <<user, serial, mode, isConnected, rx, tcp, shown, badTag>>

\* The handshake succeeded.  rxThread_ is assigned to: std::terminate when it
\* is still joinable.
SessionStarts(m) ==
  /\ mode' = m /\ isConnected' = TRUE /\ shown' = TRUE
  /\ rx' = IF rx = "none" THEN "run" ELSE rx
  /\ crashed' = (rx # "none") /\ UNCHANGED badTag
  /\ Return

HandshakeError ==
  /\ Return
  /\ UNCHANGED session

\* What one frame, or none, makes of the handshake: the client has sent its
\* hello before, the host sends its answer after; either send may fail.
TcpHandshake ==
  /\ Running("recv") /\ Head(stack).op \in TcpOps
  /\ tcp.unread > 0 \/ ~tcp.peer
  /\ \/ tcp.unread > 0 /\ tcp' = [tcp EXCEPT !.unread = @ - 1] /\ SessionStarts("TCP")
     \/ tcp' = NoSocket /\ HandshakeError
  /\ UNCHANGED <<wsvars, user, serial>>

\* recv is called in the thread whose event loop would fill inbox_.
RelayHandshake ==
  /\ Running("recv") /\ Head(stack).op \in RelayOps
  /\ \/ (Enter \/ Wait) /\ UNCHANGED <<stack, session>>
     \/ RecvMessage /\ SessionStarts("WS")
     \/ recv = "lock" /\ (inbox > 0 \/ closed) /\ NoTransport /\ HandshakeError
  /\ UNCHANGED <<user, serial, tcp>>

-----------------------------------------------------------------------------
(* sendMessage *)

\* Without a session it is an error; a QWebSocket takes the frame or not, but
\* does not wait; TcpTransport::send writes, which may.
SendMessage ==
  /\ Running("begin") /\ Head(stack).op = "sendMessage"
  /\ IF isConnected /\ mode = "TCP" THEN Goto("write") ELSE Return
  /\ UNCHANGED <<wsvars, user, serial, session, tcp>>

\* There is room in the stream as the peer reads, or the write fails.
Written ==
  /\ Running("write") /\ Return
  /\ UNCHANGED <<wsvars, user, serial, session, tcp>>

-----------------------------------------------------------------------------
(* recvLoop *)
\* Fault: isConnected_ stays set when the loop ends.
RxEndsForgetful ==
  /\ rx' = "ended" /\ shown' = FALSE
  /\ UNCHANGED <<user, stack, serial, mode, isConnected, tcp, crashed, badTag>>

RxEnds ==
  /\ rx' = "ended" /\ isConnected' = FALSE /\ shown' = FALSE
  /\ UNCHANGED <<user, stack, serial, mode, tcp, crashed, badTag>>

\* Fault: a recv that fails is passed over like a frame that does not decrypt.
RxTcpGoesOn ==
  /\ ~crashed /\ rx = "run" /\ mode = "TCP"
  /\ tcp.unread > 0
  /\ tcp' = [tcp EXCEPT !.unread = @ - 1]
  /\ UNCHANGED <<wsvars, user, stack, serial, session>>

\* A frame received is shown or, when it does not parse, dropped; or its tag fails.
RxTcp ==
  /\ ~crashed /\ rx = "run" /\ mode = "TCP"
  /\ \/ /\ tcp.unread > 0
        /\ tcp' = [tcp EXCEPT !.unread = @ - 1]
        /\ (UNCHANGED session) \/ TagFails
        /\ UNCHANGED <<user, stack, serial>>
     \/ tcp.unread = 0 /\ ~tcp.peer /\ RxEnds
  /\ UNCHANGED wsvars

RxRelay ==
  /\ ~crashed /\ rx = "run" /\ mode = "WS"
  /\ \/ (Enter \/ Wait \/ RecvMessage) /\ UNCHANGED gvars
     \/ RecvMessage /\ TagFails /\ UNCHANGED <<user, stack, serial, tcp>>
     \/ RecvClosed /\ RxEnds

-----------------------------------------------------------------------------
\* The event loop emits a signal of socket_.
EventLoop == LoopRuns /\ Slot /\ UNCHANGED gvars

Network ==
  /\ ~crashed
  /\ \/ (LineUp \/ LineDown \/ MessageArrives) /\ UNCHANGED gvars
     \/ /\ tcp.peer
        /\ \/ tcp.unread < MaxQueued /\ tcp' = [tcp EXCEPT !.unread = @ + 1]
           \/ tcp' = [tcp EXCEPT !.peer = FALSE]
        /\ UNCHANGED <<wsvars, user, stack, serial, session>>

Worker ==
  \/ Dispatch \/ LoopEnds \/ Stop \/ Join
  \/ IdentityError \/ TcpConnect \/ TcpListen \/ RelayOpen \/ RelayOpened
  \/ TcpHandshake \/ RelayHandshake \/ SendMessage \/ Written

WorkerNext ==
  \/ \E op \in Ops : Click(op)
  \/ CloseWindow
  \/ Worker \/ TcpAccept \/ EventLoop \/ RxTcp \/ RxRelay \/ Network

WorkerSpec == WorkerInit /\ [][WorkerNext]_vars

\* The two threads and the event loop run, and a TCP peer reads what is sent to
\* it, as recvLoop does; else the network and the user need do nothing.
WorkerFairness ==
  WF_vars(Worker) /\ WF_vars(EventLoop) /\ WF_vars(RxTcp) /\ WF_vars(RxRelay)

FairWorkerSpec == WorkerSpec /\ WorkerFairness

-----------------------------------------------------------------------------
(* Correctness *)

\* Between slots the three records of a session agree: isConnected_, the
\* receive thread, and what the window says.
SessionRecorded ==
  (stack = <<>> /\ ~crashed) => /\ isConnected <=> rx = "run"
                                /\ isConnected <=> shown
                                /\ isConnected => mode # "None"

\* A user who waits for each start to finish, and then asks for Disconnect
\* before the next, is never met by std::terminate (rxThread_ assigned to while it
\* is joinable) nor by a transport used after it was replaced, whoever ended the
\* session before.  What still ends such a user's program is decrypt's double
\* free alone, on a wrong password or on a frame of another key.  (Who starts
\* again at once meets the rest: see README.)
CarefulCrashesByTagOnly == careful /\ crashed => badTag

\* Disconnecting from a TCP peer ends, though it waits for the receive thread.
TcpStops == (Running("join") /\ mode = "TCP") ~> ~Running("join")

\* A TCP peer that goes away is noticed, after what it had sent was read.
PeerGoneNoticed ==
  (shown /\ mode = "TCP" /\ ~tcp.peer) ~> (~shown \/ crashed)

\* Closing the window ends the program, whatever else was queued and whether or
\* not the last Disconnect is ever called, where no session over the relay is on
\* and no start is under way or queued: the worker's destructor joins the receive
\* thread.  Only a frame whose tag fails may end the program first.
WindowCloses ==
  (/\ window = "closing" /\ ~crashed /\ mode # "WS"
   /\ \A i \in 1 .. Len(stack) : stack[i].op \notin Starts
   /\ \A i \in 1 .. Len(clicks) : clicks[i] \notin Starts) ~> (window = "gone" \/ badTag)
=============================================================================
