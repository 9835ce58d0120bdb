------------------------- MODULE EngineWorkerProofs -------------------------
(***************************************************************************)
(* Theorems about EngineWorker and the WsTransport inside it, for any      *)
(* number of clicks and any bound on queued messages.  The inductive       *)
(* invariant is WorkerInv:                                                 *)
(*   WorkerTypeOK, NoMessageSlept   as checked                             *)
(*   Nested      only the first slot of the stack runs; the others are in  *)
(*               connect_url, whose event loop called it                   *)
(*   Counted     a transport is made once per start asked for              *)
(*   Recorded    the records of a session agree, between slots and in them *)
(*   OneStart    of a careful user's starts at most one is under way, with *)
(*               no receive thread left over from before it                *)
(***************************************************************************)
EXTENDS EngineWorker, TLAPS

Entry == [op : Ops \cup {"~EngineWorker"}, ws : 0 .. MaxClicks,
          at : {"stop", "join", "begin", "accept", "opening", "recv", "write"}]

Nested ==
  \A i \in 1 .. Len(stack) :
    /\ i # 1 => stack[i].at = "opening"
    /\ stack[i].at = "opening" => stack[i].op \in RelayOps
    /\ stack[i].op = "~EngineWorker" => window # "open"

\* A start that has been called and has not made its transport yet.
StartDue ==
  stack # <<>> /\ Head(stack).op \in Starts /\ Head(stack).at \in {"stop", "join", "begin"}

Pending == IF StartDue THEN 1 ELSE 0

\* w, a, s, p and n stand for window, asked, serial, Pending and Len(clicks).
Counts(w, a, s, p, n) ==
  /\ a \in Nat /\ s \in Nat /\ p \in {0, 1} /\ n \in Nat
  /\ w = "open" => a <= MaxClicks /\ s + p + n <= a
  /\ w # "open" => /\ a <= MaxClicks + 1 /\ s + p <= MaxClicks
                   /\ n > 0 => s + p + n <= MaxClicks + 1

Counted ==
  /\ Counts(window, asked, serial, Pending, Len(clicks))
  /\ window # "open" /\ Len(clicks) > 0 => clicks[Len(clicks)] = "disconnectFromPeer"

Recorded ==
  ~crashed => /\ isConnected <=> rx = "run"
              /\ isConnected <=> shown
              /\ isConnected => mode # "None"

NoStartQueued == \A i \in 1 .. Len(clicks) : clicks[i] \notin Starts
NoStartCalled == \A i \in 1 .. Len(stack) : stack[i].op \notin Starts

DisconnectDue ==
  \/ \E i \in 1 .. Len(clicks) : clicks[i] = "disconnectFromPeer"
  \/ \E i \in 1 .. Len(stack) : stack[i].at \in {"stop", "join"}

QueuedAlone ==
  \A i \in 1 .. Len(clicks) :
    clicks[i] \in Starts => i = 1 /\ rx = "none" /\ ~rested /\ NoStartCalled

CalledAlone ==
  \A i \in 1 .. Len(stack) :
    stack[i].op \in Starts =>
      /\ i = Len(stack) /\ rx = "none" /\ ~rested /\ NoStartQueued
      /\ stack[i].at = "opening" => stack[i].ws = serial

OneStart ==
  careful =>
    /\ crashed => badTag
    /\ QueuedAlone /\ CalledAlone
    /\ rested => rx = "none" \/ DisconnectDue

WorkerInv ==
  WorkerTypeOK /\ NoMessageSlept /\ Nested /\ Counted /\ Recorded /\ OneStart

-----------------------------------------------------------------------------
(* The stack *)

\* A slot goes on; the loop calls another; a slot returns.
LEMMA GoesOn ==
  ASSUME stack \in Seq(Entry), stack # <<>>, NEW e \in Entry, stack' = <<e>> \o Tail(stack)
  PROVE  /\ stack' \in Seq(Entry) /\ Len(stack') = Len(stack) /\ Len(stack) \in Nat
         /\ Len(stack) >= 1 /\ stack' # <<>> /\ Head(stack') = e
         /\ stack'[1] = e /\ \A i \in 2 .. Len(stack) : stack'[i] = stack[i]
OBVIOUS

LEMMA Calls ==
  ASSUME stack \in Seq(Entry), NEW e \in Entry, stack' = <<e>> \o stack
  PROVE  /\ stack' \in Seq(Entry) /\ Len(stack') = Len(stack) + 1 /\ Len(stack) \in Nat
         /\ stack' # <<>> /\ Head(stack') = e
         /\ stack'[1] = e /\ \A i \in 2 .. Len(stack') : stack'[i] = stack[i - 1]
OBVIOUS

LEMMA Returns ==
  ASSUME stack \in Seq(Entry), stack # <<>>, stack' = Tail(stack)
  PROVE  /\ stack' \in Seq(Entry) /\ Len(stack') = Len(stack) - 1 /\ Len(stack) \in Nat
         /\ Len(stack) >= 1
         /\ \A i \in 1 .. Len(stack') : i + 1 \in 2 .. Len(stack) /\ stack'[i] = stack[i + 1]
OBVIOUS

\* The first slot, and what Goto makes of it.
LEMMA First ==
  ASSUME stack \in Seq(Entry), stack # <<>>
  PROVE  /\ Head(stack) \in Entry /\ Head(stack) = stack[1] /\ 1 \in 1 .. Len(stack)
         /\ \A at \in {"stop", "join", "begin", "accept", "opening", "recv", "write"} :
              LET e == [Head(stack) EXCEPT !.at = at] IN
              e \in Entry /\ e.at = at /\ e.op = Head(stack).op /\ e.ws = Head(stack).ws
<1>1. Head(stack) \in Entry /\ Head(stack) = stack[1] /\ 1 \in 1 .. Len(stack)
  OBVIOUS
<1>2. ASSUME NEW f \in Entry, NEW at \in {"stop", "join", "begin", "accept", "opening", "recv", "write"}
      PROVE  LET e == [f EXCEPT !.at = at] IN
             e \in Entry /\ e.at = at /\ e.op = f.op /\ e.ws = f.ws
  BY <1>2 DEF Entry
<1>. QED
  BY <1>1, <1>2

-----------------------------------------------------------------------------
(* Kinds of steps *)

\* Nothing but the transports changes.
Elsewhere == UNCHANGED <<user, stack, serial, session>>

\* The running slot is done, or waits for something else, without a session.
Slips ==
  /\ stack # <<>> /\ Head(stack).at \notin {"stop", "join"}
  /\ Return \/ \E at \in {"accept", "recv", "write"} : Goto(at)
  /\ UNCHANGED <<user, serial, session>>

\* connect_url returns into a transport that was replaced.
Dangles ==
  /\ Running("opening") /\ Head(stack).ws # serial
  /\ crashed' = TRUE
  /\ UNCHANGED <<user, stack, serial, mode, isConnected, rx, shown, badTag>>

\* decrypt ends the program, in the slot that loads the identity or in recvLoop.
BadTag == TagFails /\ UNCHANGED <<user, stack, serial>>

Connects ==
  /\ ~crashed /\ stack # <<>> /\ Head(stack).op \in Starts /\ Head(stack).at = "recv"
  /\ \E m \in {"TCP", "WS"} : SessionStarts(m)
  /\ UNCHANGED <<user, serial>>

SessionEnds == ~crashed /\ rx = "run" /\ RxEnds

LEMMA WorkerKinds ==
  ASSUME [WorkerNext]_vars
  PROVE  \/ Elsewhere \/ Slips \/ Dangles \/ BadTag \/ Connects \/ SessionEnds
         \/ (\E op \in Ops : Click(op)) \/ CloseWindow
         \/ Dispatch \/ LoopEnds \/ Stop \/ Join \/ RelayOpen
<1>. USE DEF user, session, gvars, Running
<1>1. CASE IdentityError \/ TcpConnect \/ TcpListen \/ TcpAccept \/ SendMessage \/ Written
  BY <1>1 DEF IdentityError, TcpConnect, TcpListen, TcpAccept, SendMessage, Written, Slips, BadTag
<1>2. CASE RelayOpened
  BY <1>2 DEF RelayOpened, Slips, Dangles
<1>3. CASE TcpHandshake
  BY <1>3 DEF TcpHandshake, HandshakeError, Slips, Connects, Starts
<1>4. CASE RelayHandshake
  BY <1>4 DEF RelayHandshake, HandshakeError, Slips, Connects, Elsewhere, Starts
<1>5. CASE RxTcp \/ RxRelay
  BY <1>5 DEF RxTcp, RxRelay, Elsewhere, BadTag, SessionEnds
<1>6. CASE EventLoop \/ Network \/ UNCHANGED vars
  BY <1>6 DEF EventLoop, Network, Elsewhere, vars
<1>. QED
  BY <1>1, <1>2, <1>3, <1>4, <1>5, <1>6 DEF WorkerNext, Worker

\* What any step does to the Qt transport.
LEMMA TransportKinds ==
  ASSUME [WorkerNext]_vars
  PROVE  \/ UNCHANGED wsvars \/ (\E l \in {"none", "trying"} : Fresh(l)) \/ Close
         \/ LineUp \/ LineDown \/ MessageArrives \/ Slot
         \/ Enter \/ Wait \/ RecvMessage \/ RecvClosed
<1>1. CASE Worker
  BY <1>1 DEF Worker, Dispatch, LoopEnds, Stop, Join, IdentityError, TcpConnect, TcpListen,
     RelayOpen, RelayOpened, TcpHandshake, RelayHandshake, SendMessage, Written, NoTransport
<1>2. CASE TcpAccept \/ EventLoop \/ RxTcp \/ RxRelay \/ Network
  BY <1>2 DEF TcpAccept, EventLoop, RxTcp, RxRelay, Network
<1>. QED
  BY <1>1, <1>2 DEF WorkerNext, Click, CloseWindow, vars

\* inbox_ and the network hold no more than they can; a caller of recv holds mtx_
\* from its test of inbox_ to its sleep, so nothing is pushed in between.
LEMMA TransportStep ==
  ASSUME TransportTypeOK, NoMessageSlept, [WorkerNext]_vars
  PROVE  TransportTypeOK' /\ NoMessageSlept'
<1>. USE QueueAssumption DEF TransportTypeOK, NoMessageSlept
<1>1. CASE UNCHANGED wsvars
  BY <1>1 DEF wsvars
<1>2. ASSUME NEW l \in {"none", "trying"}, Fresh(l)
      PROVE  TransportTypeOK' /\ NoMessageSlept'
  <2>1. connected' \in BOOLEAN /\ closed' \in BOOLEAN
    BY <1>2 DEF Fresh
  <2>2. arrived' = 0 /\ inbox' = 0 /\ line' \in {"none", "trying"} /\ recv' = "out"
    BY <1>2 DEF Fresh
  <2>. QED
    BY <2>1, <2>2
<1>6. CASE Close
  BY <1>6 DEF Close, Notify
<1>3. CASE LineUp \/ LineDown \/ MessageArrives
  BY <1>3 DEF LineUp, LineDown, MessageArrives
<1>4. CASE Slot
  <2>1. CASE OnConnected
    BY <2>1 DEF OnConnected
  <2>2. CASE OnMessage
    BY <2>2 DEF OnMessage, Notify
  <2>3. CASE OnDown
    BY <2>3 DEF OnDown, Notify
  <2>. QED
    BY <1>4, <2>1, <2>2, <2>3 DEF Slot
<1>5. CASE Enter \/ Wait \/ RecvMessage \/ RecvClosed
  BY <1>5 DEF Enter, Wait, RecvMessage, RecvClosed
<1>. QED
  BY TransportKinds, <1>1, <1>2, <1>6, <1>3, <1>4, <1>5

TcpState == [open : BOOLEAN, peer : BOOLEAN, unread : 0 .. MaxQueued]

LEMMA TcpStep ==
  ASSUME tcp \in TcpState, [WorkerNext]_vars
  PROVE  tcp' \in TcpState
<1>. USE QueueAssumption
<1>0. NoSocket \in TcpState /\ Joined \in TcpState
  BY DEF NoSocket, Joined, TcpState
<1>1. [NoSocket EXCEPT !.open = TRUE] \in TcpState
  BY <1>0 DEF TcpState
<1>2. tcp.unread > 0 => [tcp EXCEPT !.unread = @ - 1] \in TcpState
  BY DEF TcpState
<1>3. tcp.unread < MaxQueued => [tcp EXCEPT !.unread = @ + 1] \in TcpState
  BY DEF TcpState
<1>4. [tcp EXCEPT !.peer = FALSE] \in TcpState
  BY DEF TcpState
<1>5. CASE Worker
  BY <1>0, <1>1, <1>2, <1>5 DEF Worker, Dispatch, LoopEnds, Stop, Join, IdentityError,
     TcpConnect, TcpListen, RelayOpen, RelayOpened, TcpHandshake, RelayHandshake,
     SendMessage, Written
<1>6. CASE TcpAccept \/ EventLoop \/ RxTcp \/ RxRelay \/ Network
  BY <1>0, <1>2, <1>3, <1>4, <1>6
     DEF TcpAccept, EventLoop, RxTcp, RxEnds, RxRelay, Network, gvars
<1>. QED
  BY <1>5, <1>6 DEF WorkerNext, Click, CloseWindow, vars, gvars

-----------------------------------------------------------------------------
(* Types, nesting and counting *)

\* The arithmetic of the counts: a step that adds nothing, a click, the window's
\* end, a transport made, a slot called.
LEMMA CountsOn ==
  ASSUME NEW w, NEW a, NEW s, NEW p, NEW n, Counts(w, a, s, p, n),
         NEW q \in {0, 1}
  PROVE  /\ s \in 0 .. MaxClicks /\ a \in 0 .. MaxClicks + 1
         /\ p = 1 => s + 1 \in 0 .. MaxClicks
         /\ (q = 1 => p = 1) => Counts(w, a, s, q, n)
         /\ w = "open" /\ a < MaxClicks /\ (q = 1 => p = 1) => Counts(w, a + 1, s, q, n + 1)
         /\ w = "open" /\ (q = 1 => p = 1) => Counts("closing", a + 1, s, q, n + 1)
         /\ w # "open" /\ (q = 1 => p = 1) => Counts("gone", a, s, q, n)
         /\ p = 1 /\ q = 0 => Counts(w, a, s + 1, q, n)
         /\ p = 0 /\ n > 0 /\ (w = "open" \/ n > 1 \/ q = 0) => Counts(w, a, s, q, n - 1)
BY ClickAssumption DEF Counts

\* What a step may do to the stack.
SlotGoesOn(e) ==
  /\ stack # <<>> /\ stack' = <<e>> \o Tail(stack)
  /\ e.op = Head(stack).op /\ (e.at = "opening" => e.op \in RelayOps)

SlotCalled(e) ==
  /\ stack # <<>> => Head(stack).at = "opening"
  /\ stack' = <<e>> \o stack
  /\ e.at # "opening" /\ (e.op = "~EngineWorker" => window # "open")

SlotReturns == stack # <<>> /\ stack' = Tail(stack)

LEMMA StackMoves ==
  ASSUME WorkerTypeOK, Nested, Counted, [WorkerNext]_vars
  PROVE  \/ UNCHANGED stack \/ SlotReturns
         \/ \E e \in Entry : SlotGoesOn(e) \/ SlotCalled(e)
<1>0. stack \in Seq(Entry) /\ clicks \in Seq(Ops) /\ serial \in 0 .. MaxClicks
  BY DEF WorkerTypeOK, Entry
<1>1. ASSUME NEW at \in {"stop", "join", "begin", "accept", "recv", "write"},
             stack # <<>>, Goto(at)
      PROVE  \E e \in Entry : SlotGoesOn(e)
  <2>. DEFINE e == [Head(stack) EXCEPT !.at = at]
  <2>1. e \in Entry /\ e.at = at /\ e.op = Head(stack).op
    BY <1>0, <1>1, First
  <2>2. SlotGoesOn(e)
    BY <1>1, <2>1 DEF Goto, SlotGoesOn
  <2>. QED
    BY <2>1, <2>2
<1>2. CASE Slips
  BY <1>1, <1>2 DEF Slips, Return, SlotReturns
<1>3. CASE Stop
  BY <1>1, <1>3 DEF Stop, Running
<1>4. CASE Join
  BY <1>1, <1>4 DEF Join, Stopped, Running, Return, SlotReturns
<1>5. CASE Connects
  BY <1>5 DEF Connects, SessionStarts, Return, SlotReturns
<1>6. CASE RelayOpen
  <2>. DEFINE e == [Head(stack) EXCEPT !.at = "opening", !.ws = serial + 1]
  <2>1. Head(stack) \in Entry /\ stack # <<>> /\ Head(stack).at = "begin" /\ Head(stack).op \in RelayOps
    BY <1>0, <1>6, First DEF RelayOpen, Running
  <2>2. serial + 1 \in 0 .. MaxClicks
    <3>1. Pending = 1
      BY <2>1 DEF Pending, StartDue, Starts
    <3>2. Counts(window, asked, serial, 1, Len(clicks))
      BY <3>1 DEF Counted
    <3>. QED
      BY <3>2, CountsOn
  <2>3. e \in Entry /\ e.op = Head(stack).op
    BY <2>1, <2>2 DEF Entry
  <2>4. SlotGoesOn(e)
    BY <1>6, <2>1, <2>3 DEF RelayOpen, SlotGoesOn
  <2>. QED
    BY <2>3, <2>4
<1>7. CASE Dispatch
  <2>1. PICK at \in {"stop", "begin"} : stack' = <<[op |-> Head(clicks), at |-> at, ws |-> 0]>> \o stack
    BY <1>7 DEF Dispatch
  <2>. DEFINE e == [op |-> Head(clicks), at |-> at, ws |-> 0]
  <2>2. Head(clicks) \in Ops
    BY <1>0, <1>7 DEF Dispatch
  <2>3. e \in Entry /\ e.at # "opening" /\ e.op # "~EngineWorker"
    BY <2>2, ClickAssumption DEF Entry, Ops, Starts, TcpOps, RelayOps
  <2>4. SlotCalled(e)
    BY <1>7, <2>1, <2>3 DEF Dispatch, LoopRuns, SlotCalled
  <2>. QED
    BY <2>3, <2>4
<1>8. CASE LoopEnds
  <2>. DEFINE e == [op |-> "~EngineWorker", at |-> "stop", ws |-> 0]
  <2>1. e \in Entry
    BY ClickAssumption DEF Entry
  <2>2. stack' = <<e>> \o stack
    BY <1>0, <1>8 DEF LoopEnds
  <2>3. SlotCalled(e)
    BY <1>8, <2>2 DEF LoopEnds, SlotCalled
  <2>. QED
    BY <2>1, <2>3
<1>9. CASE Elsewhere \/ Dangles \/ BadTag \/ SessionEnds \/ CloseWindow \/ \E op \in Ops : Click(op)
  BY <1>9 DEF Elsewhere, Dangles, BadTag, SessionEnds, RxEnds, CloseWindow, Click
<1>. QED
  BY WorkerKinds, <1>2, <1>3, <1>4, <1>5, <1>6, <1>7, <1>8, <1>9

LEMMA StackStep ==
  ASSUME WorkerTypeOK, Nested, Counted, [WorkerNext]_vars
  PROVE  stack' \in Seq(Entry) /\ Nested'
<1>0. stack \in Seq(Entry)
  BY DEF WorkerTypeOK, Entry
<1>1. window # "open" => window' # "open"
  BY WorkerKinds DEF Elsewhere, Slips, Dangles, BadTag, Connects, SessionEnds, RxEnds, Click,
     CloseWindow, Dispatch, LoopEnds, Stop, Join, Stopped, RelayOpen, user
<1>2. CASE UNCHANGED stack
  BY <1>0, <1>1, <1>2 DEF Nested
<1>3. CASE SlotReturns
  <2>1. /\ stack' \in Seq(Entry)
        /\ \A i \in 1 .. Len(stack') : i + 1 \in 2 .. Len(stack) /\ stack'[i] = stack[i + 1]
    BY <1>0, <1>3, Returns DEF SlotReturns
  <2>2. ASSUME NEW i \in 2 .. Len(stack)
        PROVE  /\ stack[i].at = "opening" /\ stack[i].op \in RelayOps
               /\ stack[i].op = "~EngineWorker" => window # "open"
    BY <1>0 DEF Nested
  <2>. QED
    BY <1>1, <2>1, <2>2 DEF Nested
<1>4. ASSUME NEW e \in Entry, SlotGoesOn(e)  PROVE stack' \in Seq(Entry) /\ Nested'
  <2>1. /\ stack' \in Seq(Entry) /\ Len(stack') = Len(stack) /\ Len(stack) \in Nat
        /\ stack'[1] = e /\ \A i \in 2 .. Len(stack) : stack'[i] = stack[i]
    BY <1>0, <1>4, GoesOn DEF SlotGoesOn
  <2>2. e.op = "~EngineWorker" => window # "open"
    BY <1>0, <1>4, First DEF SlotGoesOn, Nested
  <2>3. ASSUME NEW i \in 1 .. Len(stack')
        PROVE  /\ i # 1 => stack'[i].at = "opening"
               /\ stack'[i].at = "opening" => stack'[i].op \in RelayOps
               /\ stack'[i].op = "~EngineWorker" => window' # "open"
    <3>1. CASE i = 1
      BY <1>1, <1>4, <2>1, <2>2, <3>1 DEF SlotGoesOn
    <3>2. CASE i # 1
      BY <1>1, <2>1, <3>2 DEF Nested
    <3>. QED
      BY <3>1, <3>2
  <2>. QED
    BY <2>1, <2>3 DEF Nested
<1>5. ASSUME NEW e \in Entry, SlotCalled(e)  PROVE stack' \in Seq(Entry) /\ Nested'
  <2>1. /\ stack' \in Seq(Entry) /\ Len(stack') = Len(stack) + 1 /\ Len(stack) \in Nat
        /\ stack'[1] = e /\ \A i \in 2 .. Len(stack') : stack'[i] = stack[i - 1]
    BY <1>0, <1>5, Calls DEF SlotCalled
  <2>2. \A j \in 1 .. Len(stack) : stack[j].at = "opening" /\ stack[j].op \in RelayOps
    BY <1>0, <1>5, First DEF SlotCalled, Nested
  <2>3. ASSUME NEW i \in 1 .. Len(stack')
        PROVE  /\ i # 1 => stack'[i].at = "opening"
               /\ stack'[i].at = "opening" => stack'[i].op \in RelayOps
               /\ stack'[i].op = "~EngineWorker" => window' # "open"
    <3>1. CASE i = 1
      BY <1>1, <1>5, <2>1, <3>1 DEF SlotCalled
    <3>2. CASE i # 1
      <4>1. i - 1 \in 1 .. Len(stack) /\ stack'[i] = stack[i - 1]
        BY <2>1, <3>2
      <4>. QED
        BY <1>1, <2>2, <4>1 DEF Nested
    <3>. QED
      BY <3>1, <3>2
  <2>. QED
    BY <2>1, <2>3 DEF Nested
<1>. QED
  BY StackMoves, <1>2, <1>3, <1>4, <1>5

\* Only a start that begins is due; opening its transport ends that.
LEMMA DueIs ==
  ASSUME WorkerTypeOK, Nested, Counted, [WorkerNext]_vars
  PROVE  /\ RelayOpen => StartDue /\ ~StartDue'
         /\ SlotReturns => ~StartDue'
         /\ Dispatch => ~StartDue /\ (StartDue' => Head(clicks) \in Starts)
         /\ LoopEnds => ~StartDue'
         /\ (UNCHANGED stack \/ Stop \/ Join \/ Slips) => (StartDue' => StartDue)
<1>0. stack \in Seq(Entry)
  BY DEF WorkerTypeOK, Entry
<1>1. ASSUME SlotReturns  PROVE ~StartDue'
  <2>1. ASSUME stack' # <<>>  PROVE Head(stack').at = "opening"
    <3>1. stack' \in Seq(Entry) /\ 1 \in 1 .. Len(stack') /\ Head(stack') = stack'[1]
      BY <1>0, <1>1, <2>1, Returns DEF SlotReturns
    <3>2. stack'[1] = stack[1 + 1] /\ 1 + 1 \in 2 .. Len(stack) /\ Len(stack) \in Nat
      BY <1>0, <1>1, <3>1, Returns DEF SlotReturns
    <3>. QED
      BY <3>1, <3>2 DEF Nested
  <2>. QED
    BY <2>1 DEF StartDue
<1>2. ASSUME RelayOpen  PROVE StartDue /\ ~StartDue'
  <2>. DEFINE e == [Head(stack) EXCEPT !.at = "opening", !.ws = serial + 1]
  <2>1. /\ stack # <<>> /\ Head(stack).at = "begin" /\ Head(stack).op \in RelayOps
        /\ stack' = <<e>> \o Tail(stack) /\ Head(stack) \in Entry
    BY <1>0, <1>2, First DEF RelayOpen, Running
  <2>2. e.at = "opening"
    BY <2>1 DEF Entry
  <2>3. Head(stack') = e
    BY <1>0, <2>1
  <2>. QED
    BY <2>1, <2>2, <2>3 DEF StartDue, Starts
<1>3. ASSUME Dispatch  PROVE ~StartDue /\ (StartDue' => Head(clicks) \in Starts)
  <2>1. PICK at \in {"stop", "begin"} : stack' = <<[op |-> Head(clicks), at |-> at, ws |-> 0]>> \o stack
    BY <1>3 DEF Dispatch
  <2>2. Head(stack') = [op |-> Head(clicks), at |-> at, ws |-> 0]
    BY <1>0, <2>1
  <2>3. Head(stack').op = Head(clicks)
    BY <2>2
  <2>. QED
    BY <1>3, <2>3 DEF Dispatch, LoopRuns, StartDue
<1>4. ASSUME LoopEnds  PROVE ~StartDue'
  <2>1. Head(stack').op = "~EngineWorker"
    BY <1>4 DEF LoopEnds
  <2>. QED
    BY <2>1 DEF StartDue, Starts, TcpOps, RelayOps
<1>5. ASSUME NEW at \in {"join", "begin", "accept", "recv", "write"},
             stack # <<>>, Goto(at), at \in {"join", "begin"} => Head(stack).at \in {"stop", "join"}
      PROVE  StartDue' => StartDue
  <2>. DEFINE e == [Head(stack) EXCEPT !.at = at]
  <2>1. e \in Entry /\ e.at = at /\ e.op = Head(stack).op
    BY <1>0, <1>5, First
  <2>2. stack' = <<e>> \o Tail(stack)
    BY <1>5 DEF Goto
  <2>. HIDE DEF e
  <2>3. Head(stack') = e
    BY <1>0, <1>5, <2>1, <2>2, GoesOn
  <2>4. CASE at \in {"join", "begin"}
    <3>1. Head(stack).at \in {"stop", "join"}
      BY <1>5, <2>4
    <3>. QED
      BY <1>5, <2>1, <2>3, <3>1 DEF StartDue
  <2>5. CASE at \in {"accept", "recv", "write"}
    BY <2>1, <2>3, <2>5 DEF StartDue
  <2>. QED
    BY <2>4, <2>5
<1>6. ASSUME UNCHANGED stack  PROVE StartDue' => StartDue
  BY <1>6 DEF StartDue
<1>7. ASSUME Stop  PROVE StartDue' => StartDue
  BY <1>5, <1>7 DEF Stop, Running
<1>8. ASSUME Join  PROVE StartDue' => StartDue
  <2>1. CASE Head(stack).op \in Starts
    BY <1>5, <1>8, <2>1 DEF Join, Stopped, Running
  <2>2. CASE Head(stack).op \notin Starts
    BY <1>1, <1>8, <2>2 DEF Join, Stopped, Running, Return, SlotReturns
  <2>. QED
    BY <2>1, <2>2
<1>9. ASSUME Slips  PROVE StartDue' => StartDue
  <2>1. CASE Return
    BY <1>1, <1>9, <2>1 DEF Slips, Return, SlotReturns
  <2>2. ASSUME NEW at \in {"accept", "recv", "write"}, Goto(at)  PROVE StartDue' => StartDue
    BY <1>5, <1>9, <2>2 DEF Slips
  <2>. QED
    BY <1>9, <2>1, <2>2 DEF Slips
<1>. QED
  BY <1>1, <1>2, <1>3, <1>4, <1>6, <1>7, <1>8, <1>9

\* At most one transport is made for each request, and the request the window's
\* end adds is none for a start.
LEMMA CountedStep ==
  ASSUME WorkerTypeOK, Nested, Counted, [WorkerNext]_vars
  PROVE  Counted' /\ clicks' \in Seq(Ops) /\ window' \in {"open", "closing", "gone"}
<1>. DEFINE Good == Counted' /\ clicks' \in Seq(Ops) /\ window' \in {"open", "closing", "gone"}
<1>. SUFFICES Good
  OBVIOUS
<1>0. clicks \in Seq(Ops) /\ window \in {"open", "closing", "gone"}
  BY DEF WorkerTypeOK
<1>1. /\ Pending \in {0, 1} /\ Pending' \in {0, 1}
      /\ RelayOpen => Pending = 1 /\ Pending' = 0
      /\ SlotReturns => Pending' = 0
      /\ Dispatch => Pending = 0 /\ (Pending' = 1 => Head(clicks) \in Starts)
      /\ LoopEnds => Pending' = 0
      /\ (UNCHANGED stack \/ Stop \/ Join \/ Slips) => (Pending' = 1 => Pending = 1)
  BY DueIs DEF Pending
<1>2. Counts(window, asked, serial, Pending, Len(clicks))
  BY DEF Counted
<1>3. ASSUME UNCHANGED <<serial, clicks, asked>>, Pending' = 1 => Pending = 1,
             window' = window \/ (window # "open" /\ window' = "gone")
      PROVE  Good
  <2>1. Counts(window', asked, serial, Pending', Len(clicks))
    BY <1>1, <1>2, <1>3, CountsOn
  <2>. QED
    BY <1>0, <1>3, <2>1 DEF Counted
<1>4. CASE Elsewhere \/ Slips \/ Dangles \/ BadTag \/ SessionEnds \/ Stop
  BY <1>1, <1>3, <1>4 DEF Elsewhere, Slips, Dangles, BadTag, SessionEnds, RxEnds, Stop, user
<1>5. CASE Connects \/ LoopEnds
  <2>1. Connects => SlotReturns
    BY DEF Connects, SessionStarts, SlotReturns, Return
  <2>2. Pending' = 1 => Pending = 1
    BY <1>1, <1>5, <2>1
  <2>. QED
    BY <1>3, <1>5, <2>2 DEF Connects, LoopEnds, user
<1>6. CASE Join
  <2>1. Head(stack).op = "~EngineWorker" => window # "open"
    <3>1. stack \in Seq(Entry) /\ stack # <<>>
      BY <1>6 DEF WorkerTypeOK, Entry, Join, Running
    <3>. QED
      BY <3>1, First DEF Nested
  <2>2. UNCHANGED <<serial, clicks, asked>> /\ (window' = window \/ (window # "open" /\ window' = "gone"))
    BY <1>6, <2>1 DEF Join, Stopped
  <2>. QED
    BY <1>1, <1>3, <1>6, <2>2
<1>7. ASSUME NEW op \in Ops, Click(op)  PROVE Good
  <2>1. Len(clicks') = Len(clicks) + 1 /\ clicks' \in Seq(Ops)
    BY <1>0, <1>7 DEF Click
  <2>2. /\ asked' = asked + 1 /\ asked < MaxClicks /\ serial' = serial
        /\ window = "open" /\ window' = window /\ stack' = stack
    BY <1>7 DEF Click
  <2>3. Counts(window, asked + 1, serial, Pending', Len(clicks) + 1)
    BY <1>1, <1>2, <2>2, CountsOn
  <2>. QED
    BY <1>0, <2>1, <2>2, <2>3 DEF Counted
<1>8. CASE CloseWindow
  <2>1. /\ Len(clicks') = Len(clicks) + 1 /\ clicks' \in Seq(Ops)
        /\ clicks'[Len(clicks')] = "disconnectFromPeer"
    BY <1>0, <1>8 DEF CloseWindow, Ops
  <2>2. /\ asked' = asked + 1 /\ serial' = serial
        /\ window = "open" /\ window' = "closing" /\ stack' = stack
    BY <1>8 DEF CloseWindow
  <2>3. Counts(window', asked + 1, serial, Pending', Len(clicks) + 1)
    <3>1. Pending' = 1 => Pending = 1
      BY <1>1, <2>2
    <3>2. Counts("closing", asked + 1, serial, Pending', Len(clicks) + 1)
      BY <1>1, <1>2, <2>2, <3>1, CountsOn
    <3>. QED
      BY <2>2, <3>2
  <2>. QED
    BY <2>1, <2>2, <2>3 DEF Counted
<1>9. CASE RelayOpen
  <2>1. serial' = serial + 1 /\ UNCHANGED <<clicks, asked, window>>
    BY <1>9 DEF RelayOpen, user
  <2>2. Counts(window, asked, serial + 1, Pending', Len(clicks))
    BY <1>1, <1>2, <1>9, CountsOn
  <2>. QED
    BY <1>0, <2>1, <2>2 DEF Counted
<1>10. CASE Dispatch
  <2>1. clicks' = Tail(clicks) /\ clicks # <<>> /\ UNCHANGED <<serial, asked, window>>
    BY <1>10 DEF Dispatch
  <2>2. clicks' \in Seq(Ops) /\ Len(clicks') = Len(clicks) - 1 /\ Len(clicks) \in Nat /\ Len(clicks) > 0
    BY <1>0, <2>1
  <2>3. Len(clicks') > 0 => clicks'[Len(clicks')] = clicks[Len(clicks)]
    BY <1>0, <2>1, <2>2
  <2>4. Len(clicks) = 1 => Head(clicks) = clicks[Len(clicks)]
    BY <1>0, <2>1
  <2>5. "disconnectFromPeer" \notin Starts
    BY DEF Starts, TcpOps, RelayOps
  <2>6. window = "open" \/ Len(clicks) > 1 \/ Pending' = 0
    BY <1>1, <1>10, <2>2, <2>4, <2>5 DEF Counted
  <2>7. Counts(window, asked, serial, Pending', Len(clicks) - 1)
    BY <1>1, <1>2, <1>10, <2>2, <2>6, CountsOn
  <2>. QED
    BY <1>0, <2>1, <2>2, <2>3, <2>7 DEF Counted
<1>. QED
  BY WorkerKinds, <1>4, <1>5, <1>6, <1>7, <1>8, <1>9, <1>10

-----------------------------------------------------------------------------
(* Sessions *)

\* isConnected_, the receive thread, mode_ and the window change together.
LEMMA RecordedStep ==
  ASSUME WorkerTypeOK, Recorded, [WorkerNext]_vars
  PROVE  /\ Recorded' /\ mode' \in {"None", "TCP", "WS"} /\ rx' \in {"none", "run", "ended"}
         /\ isConnected' \in BOOLEAN /\ shown' \in BOOLEAN
         /\ crashed' \in BOOLEAN /\ badTag' \in BOOLEAN
<1>. USE DEF Recorded
<1>0. /\ mode \in {"None", "TCP", "WS"} /\ rx \in {"none", "run", "ended"}
      /\ isConnected \in BOOLEAN /\ shown \in BOOLEAN
      /\ crashed \in BOOLEAN /\ badTag \in BOOLEAN
  BY DEF WorkerTypeOK
<1>1. ASSUME UNCHANGED session
      PROVE  /\ Recorded' /\ mode' \in {"None", "TCP", "WS"} /\ rx' \in {"none", "run", "ended"}
             /\ isConnected' \in BOOLEAN /\ shown' \in BOOLEAN
         /\ crashed' \in BOOLEAN /\ badTag' \in BOOLEAN
  BY <1>0, <1>1 DEF session
<1>2. CASE \/ Elsewhere \/ Slips \/ (\E op \in Ops : Click(op)) \/ CloseWindow
           \/ Dispatch \/ LoopEnds \/ Stop \/ RelayOpen
  BY <1>1, <1>2 DEF Elsewhere, Slips, Click, CloseWindow, Dispatch, LoopEnds, Stop, RelayOpen
<1>3. CASE Dangles \/ BadTag
  BY <1>0, <1>3 DEF Dangles, BadTag, TagFails
<1>4. CASE Connects
  BY <1>0, <1>4 DEF Connects, SessionStarts
<1>5. CASE SessionEnds
  BY <1>0, <1>5 DEF SessionEnds, RxEnds
<1>6. CASE Join
  BY <1>0, <1>6 DEF Join, Running
<1>. QED
  BY WorkerKinds, <1>2, <1>3, <1>4, <1>5, <1>6

\* The user adds a request that is not a start.
LEMMA AskedElse ==
  ASSUME WorkerTypeOK, QueuedAlone, CalledAlone, NEW op \in Ops \ Starts,
         clicks' = Append(clicks, op), UNCHANGED <<stack, serial, rx>>, rested' => rested
  PROVE  QueuedAlone' /\ CalledAlone' /\ (DisconnectDue => DisconnectDue')
<1>1. /\ Len(clicks) \in Nat /\ Len(clicks') = Len(clicks) + 1
      /\ clicks'[Len(clicks')] = op
      /\ \A i \in 1 .. Len(clicks) : i \in 1 .. Len(clicks') /\ clicks'[i] = clicks[i]
      /\ \A i \in 1 .. Len(clicks') : i \in 1 .. Len(clicks) \/ i = Len(clicks')
  BY DEF WorkerTypeOK
<1>2. ASSUME NEW i \in 1 .. Len(clicks'), clicks'[i] \in Starts
      PROVE  i \in 1 .. Len(clicks) /\ clicks[i] \in Starts
  BY <1>1, <1>2
<1>3. (NoStartCalled => NoStartCalled') /\ (NoStartQueued => NoStartQueued')
  BY <1>2 DEF NoStartCalled, NoStartQueued
<1>4. QueuedAlone'
  BY <1>2, <1>3 DEF QueuedAlone
<1>5. CalledAlone'
  BY <1>3 DEF CalledAlone
<1>6. DisconnectDue => DisconnectDue'
  BY <1>1 DEF DisconnectDue
<1>. QED
  BY <1>4, <1>5, <1>6

\* The first slot goes on in the same transport.
LEMMA WentOn ==
  ASSUME WorkerTypeOK, QueuedAlone, CalledAlone, stack # <<>>,
         NEW at \in {"join", "begin", "accept", "recv", "write"}, Goto(at),
         UNCHANGED <<clicks, serial, rested>>, rx' \in {rx, "none"}
  PROVE  QueuedAlone' /\ CalledAlone'
<1>. DEFINE e == [Head(stack) EXCEPT !.at = at]
<1>0. stack \in Seq(Entry)
  BY DEF WorkerTypeOK, Entry
<1>1. e \in Entry /\ e.at = at /\ e.op = stack[1].op /\ 1 \in 1 .. Len(stack)
  BY <1>0, First
<1>2. stack' = <<e>> \o Tail(stack)
  BY DEF Goto
<1>. HIDE DEF e
<1>3. /\ Len(stack') = Len(stack) /\ stack'[1] = e
      /\ \A i \in 2 .. Len(stack) : stack'[i] = stack[i]
  BY <1>0, <1>1, <1>2, GoesOn
<1>4. \A i \in 1 .. Len(stack) :
        /\ stack'[i].op = stack[i].op
        /\ stack'[i].at = "opening" => stack'[i] = stack[i]
  BY <1>0, <1>1, <1>3
<1>5. (NoStartCalled => NoStartCalled') /\ NoStartQueued' = NoStartQueued
  BY <1>3, <1>4 DEF NoStartCalled, NoStartQueued
<1>6. QueuedAlone'
  BY <1>5 DEF QueuedAlone
<1>7. ASSUME NEW i \in 1 .. Len(stack'), stack'[i].op \in Starts
      PROVE  /\ i = Len(stack') /\ rx' = "none" /\ ~rested' /\ NoStartQueued'
             /\ stack'[i].at = "opening" => stack'[i].ws = serial'
  BY <1>3, <1>4, <1>5, <1>7 DEF CalledAlone
<1>. QED
  BY <1>6, <1>7 DEF CalledAlone

\* The first slot returns.
LEMMA WentBack ==
  ASSUME WorkerTypeOK, QueuedAlone, CalledAlone, SlotReturns,
         UNCHANGED <<clicks, serial, rested>>,
         rx' \in {rx, "none"} \/ Head(stack).op \in Starts
  PROVE  QueuedAlone' /\ CalledAlone'
<1>0. stack \in Seq(Entry)
  BY DEF WorkerTypeOK, Entry
<1>1. /\ Len(stack') = Len(stack) - 1 /\ Len(stack) \in Nat /\ Len(stack) >= 1
      /\ \A i \in 1 .. Len(stack') : i + 1 \in 2 .. Len(stack) /\ stack'[i] = stack[i + 1]
  BY <1>0, Returns DEF SlotReturns
<1>2. \A i \in 1 .. Len(stack') : i + 1 \in 1 .. Len(stack)
  BY <1>1
<1>3. NoStartCalled => NoStartCalled'
  BY <1>1, <1>2 DEF NoStartCalled
<1>4. Head(stack) = stack[1] /\ 1 \in 1 .. Len(stack)
  BY <1>0, First DEF SlotReturns
<1>5. CASE Head(stack).op \in Starts
  <2>1. Len(stack) = 1 /\ NoStartQueued
    BY <1>4, <1>5 DEF CalledAlone
  <2>2. \A i \in 1 .. Len(stack') : FALSE
    BY <1>1, <2>1
  <2>3. NoStartQueued'
    BY <2>1 DEF NoStartQueued
  <2>. QED
    BY <2>2, <2>3 DEF QueuedAlone, CalledAlone, NoStartQueued
<1>6. CASE rx' \in {rx, "none"}
  <2>1. QueuedAlone'
    BY <1>3, <1>6 DEF QueuedAlone
  <2>2. ASSUME NEW i \in 1 .. Len(stack'), stack'[i].op \in Starts
        PROVE  /\ i = Len(stack') /\ rx' = "none" /\ ~rested' /\ NoStartQueued'
               /\ stack'[i].at = "opening" => stack'[i].ws = serial'
    <3>1. stack[i + 1].op \in Starts /\ i + 1 \in 1 .. Len(stack) /\ stack'[i] = stack[i + 1]
      BY <1>1, <1>2, <2>2
    <3>2. /\ i + 1 = Len(stack) /\ rx = "none" /\ ~rested /\ NoStartQueued
          /\ stack[i + 1].at = "opening" => stack[i + 1].ws = serial
      BY <3>1 DEF CalledAlone
    <3>3. i = Len(stack')
      BY <1>1, <3>2
    <3>. QED
      BY <1>6, <3>1, <3>2, <3>3 DEF NoStartQueued
  <2>. QED
    BY <2>1, <2>2 DEF CalledAlone
<1>. QED
  BY <1>5, <1>6

\* The loop calls the slot of the first request.
LEMMA WentInto ==
  ASSUME WorkerTypeOK, Nested, QueuedAlone, CalledAlone, Dispatch
  PROVE  /\ QueuedAlone' /\ CalledAlone'
         /\ DisconnectDue => DisconnectDue'
<1>. DEFINE op == Head(clicks)
            at == IF op = "disconnectFromPeer" \/ (op \in Starts /\ isConnected) THEN "stop" ELSE "begin"
            e == [op |-> op, at |-> at, ws |-> 0]
<1>0. stack \in Seq(Entry) /\ clicks \in Seq(Ops) /\ clicks # <<>>
  BY DEF WorkerTypeOK, Entry, Dispatch
<1>1. /\ stack' = <<e>> \o stack /\ clicks' = Tail(clicks)
      /\ UNCHANGED <<rested, rx, serial>>
  BY DEF Dispatch, session
<1>2. e \in Entry /\ e.op = op /\ e.at \in {"stop", "begin"} /\ (op = "disconnectFromPeer" => e.at = "stop")
  BY <1>0, ClickAssumption DEF Entry
<1>3. /\ op = clicks[1] /\ 1 \in 1 .. Len(clicks)
      /\ \A i \in 1 .. Len(clicks') : i + 1 \in 2 .. Len(clicks) /\ clicks'[i] = clicks[i + 1]
      /\ \A i \in 2 .. Len(clicks) : i - 1 \in 1 .. Len(clicks') /\ clicks'[i - 1] = clicks[i]
  BY <1>0, <1>1
<1>. HIDE DEF e, at, op
<1>4. /\ Len(stack) \in Nat /\ Len(stack') = Len(stack) + 1
      /\ stack'[1] = e /\ 1 \in 1 .. Len(stack')
      /\ \A i \in 2 .. Len(stack') : i - 1 \in 1 .. Len(stack) /\ stack'[i] = stack[i - 1]
      /\ \A i \in 1 .. Len(stack') : i # 1 => i \in 2 .. Len(stack')
  BY <1>0, <1>1, <1>2, Calls
<1>5. \A i \in 1 .. Len(stack) : stack[i].at = "opening" /\ stack[i].op \in Starts
  <2>1. stack # <<>> => Head(stack).at = "opening" /\ Head(stack) = stack[1] /\ 1 \in 1 .. Len(stack)
    BY <1>0, First DEF Dispatch, LoopRuns
  <2>. QED
    BY <1>0, <2>1 DEF Nested, Starts
\* Behind the first request there is no start.
<1>6. NoStartQueued'
  <2>. SUFFICES ASSUME NEW i \in 1 .. Len(clicks'), clicks'[i] \in Starts  PROVE FALSE
    BY DEF NoStartQueued
  <2>1. clicks[i + 1] \in Starts /\ i + 1 \in 1 .. Len(clicks) /\ i + 1 # 1
    BY <1>3
  <2>. QED
    BY <2>1 DEF QueuedAlone
<1>7. QueuedAlone'
  BY <1>6 DEF QueuedAlone, NoStartQueued
<1>8. CalledAlone'
  <2>. SUFFICES ASSUME NEW i \in 1 .. Len(stack'), stack'[i].op \in Starts
                PROVE  /\ i = Len(stack') /\ rx = "none" /\ ~rested
                       /\ stack'[i].at = "opening" => stack'[i].ws = serial
    BY <1>1, <1>6 DEF CalledAlone
  <2>1. CASE i = 1
    <3>1. clicks[1] \in Starts
      BY <1>2, <1>3, <1>4, <2>1
    <3>2. rx = "none" /\ ~rested /\ NoStartCalled
      BY <1>3, <3>1 DEF QueuedAlone
    <3>3. ~(1 \in 1 .. Len(stack))
      BY <1>5, <3>2 DEF NoStartCalled
    <3>4. Len(stack') = 1
      BY <1>4, <3>3
    <3>. QED
      BY <1>2, <1>4, <2>1, <3>2, <3>4
  <2>2. CASE i # 1
    <3>1. i - 1 \in 1 .. Len(stack) /\ stack'[i] = stack[i - 1]
      BY <1>4, <2>2
    <3>2. /\ i - 1 = Len(stack) /\ rx = "none" /\ ~rested
          /\ stack[i - 1].at = "opening" => stack[i - 1].ws = serial
      BY <3>1 DEF CalledAlone
    <3>. QED
      BY <1>4, <3>1, <3>2
  <2>. QED
    BY <2>1, <2>2
<1>9. DisconnectDue => DisconnectDue'
  <2>1. ASSUME NEW i \in 1 .. Len(clicks), clicks[i] = "disconnectFromPeer"  PROVE DisconnectDue'
    <3>1. CASE i = 1
      BY <1>2, <1>3, <1>4, <2>1, <3>1 DEF DisconnectDue
    <3>2. CASE i # 1
      <4>1. i - 1 \in 1 .. Len(clicks') /\ clicks'[i - 1] = clicks[i]
        BY <1>3, <3>2
      <4>. QED
        BY <2>1, <4>1 DEF DisconnectDue
    <3>. QED
      BY <3>1, <3>2
  <2>2. \A i \in 1 .. Len(stack) : stack[i].at \notin {"stop", "join"}
    BY <1>5
  <2>. QED
    BY <2>1, <2>2 DEF DisconnectDue
<1>. QED
  BY <1>7, <1>8, <1>9

\* A new transport is made by the one start there is, on its own on the stack.
LEMMA WentToRelay ==
  ASSUME WorkerTypeOK, QueuedAlone, CalledAlone, RelayOpen
  PROVE  QueuedAlone' /\ CalledAlone' /\ ~rested
<1>. DEFINE e == [Head(stack) EXCEPT !.at = "opening", !.ws = serial + 1]
<1>0. stack \in Seq(Entry) /\ stack # <<>>
  BY DEF WorkerTypeOK, Entry, RelayOpen, Running
<1>1. /\ Head(stack) \in Entry /\ Head(stack) = stack[1] /\ 1 \in 1 .. Len(stack)
      /\ Head(stack).op \in Starts
  BY <1>0, First DEF RelayOpen, Starts
<1>2. /\ stack' = <<e>> \o Tail(stack) /\ serial' = serial + 1
      /\ UNCHANGED <<clicks, rested, rx>>
  BY DEF RelayOpen, user, session
<1>3. e.op = Head(stack).op /\ e.ws = serial + 1
  BY <1>1 DEF Entry
<1>4. Len(stack) = 1 /\ rx = "none" /\ ~rested /\ NoStartQueued
  BY <1>1 DEF CalledAlone
<1>. HIDE DEF e
<1>5. Len(stack') = 1 /\ stack'[1] = e
  BY <1>0, <1>2, <1>4
<1>6. QueuedAlone'
  BY <1>2, <1>4 DEF QueuedAlone, NoStartQueued
<1>7. \A i \in 1 .. Len(stack') : i = 1
  BY <1>5
<1>8. CalledAlone'
  BY <1>2, <1>3, <1>4, <1>5, <1>7 DEF CalledAlone, NoStartQueued
<1>. QED
  BY <1>4, <1>6, <1>8

\* A Disconnect that is due and not under way is still among the requests.
LEMMA DueInQueue ==
  ASSUME WorkerTypeOK, Nested, DisconnectDue,
         stack # <<>> => Head(stack).at \notin {"stop", "join"}
  PROVE  \E i \in 1 .. Len(clicks) : clicks[i] = "disconnectFromPeer"
<1>0. stack \in Seq(Entry)
  BY DEF WorkerTypeOK, Entry
<1>1. ASSUME NEW i \in 1 .. Len(stack)  PROVE stack[i].at \notin {"stop", "join"}
  <2>1. CASE i = 1
    <3>1. stack # <<>> /\ Head(stack) = stack[i]
      BY <1>0, <2>1
    <3>. QED
      BY <3>1
  <2>2. CASE i # 1
    BY <2>2 DEF Nested
  <2>. QED
    BY <2>1, <2>2
<1>. QED
  BY <1>1 DEF DisconnectDue

\* A careful user's start finds no receive thread and no other start, and keeps
\* it so until it returns.
LEMMA OneStartStep ==
  ASSUME WorkerTypeOK, Nested, OneStart, [WorkerNext]_vars
  PROVE  OneStart'
<1>0. careful' = careful
  BY WorkerKinds DEF Elsewhere, Slips, Dangles, BadTag, Connects, SessionEnds, RxEnds, Click,
     CloseWindow, Dispatch, LoopEnds, Stop, Join, RelayOpen, user
<1>. SUFFICES ASSUME careful  PROVE OneStart'
  BY <1>0 DEF OneStart
<1>1. (crashed => badTag) /\ QueuedAlone /\ CalledAlone /\ (rested => rx = "none" \/ DisconnectDue)
  BY DEF OneStart
<1>2. rx \in {"none", "run", "ended"} /\ stack \in Seq(Entry) /\ clicks \in Seq(Ops)
  BY DEF WorkerTypeOK, Entry
<1>3. CASE Elsewhere \/ SessionEnds
  <2>1. /\ UNCHANGED <<rested, clicks, stack, serial, crashed, badTag>>
        /\ rx' = rx \/ (rx = "run" /\ rx' = "ended")
    BY <1>3 DEF Elsewhere, SessionEnds, RxEnds, user, session
  <2>2. QueuedAlone' /\ CalledAlone' /\ DisconnectDue' = DisconnectDue
    BY <1>1, <2>1 DEF QueuedAlone, CalledAlone, NoStartCalled, NoStartQueued, DisconnectDue
  <2>. QED
    BY <1>1, <2>1, <2>2 DEF OneStart
<1>4. CASE Slips
  <2>1. /\ UNCHANGED <<rested, clicks, serial, crashed, badTag, rx>>
        /\ stack # <<>> /\ Head(stack).at \notin {"stop", "join"}
    BY <1>4 DEF Slips, user, session
  <2>2. QueuedAlone' /\ CalledAlone'
    <3>1. CASE Return
      BY <1>1, <2>1, <3>1, WentBack DEF Return, SlotReturns
    <3>2. ASSUME NEW at \in {"accept", "recv", "write"}, Goto(at)  PROVE QueuedAlone' /\ CalledAlone'
      BY <1>1, <2>1, <3>2, WentOn
    <3>. QED
      BY <1>4, <3>1, <3>2 DEF Slips
  <2>3. DisconnectDue => DisconnectDue'
    BY <2>1, DueInQueue DEF DisconnectDue
  <2>. QED
    BY <1>1, <2>1, <2>2, <2>3 DEF OneStart
<1>5. CASE Dangles
  <2>1. stack # <<>> /\ Head(stack).at = "opening" /\ Head(stack).ws # serial
    BY <1>5 DEF Dangles, Running
  <2>2. stack[1].at = "opening" /\ stack[1].ws # serial /\ 1 \in 1 .. Len(stack)
    BY <1>2, <2>1, First
  <2>3. stack[1].op \in Starts
    BY <2>2 DEF Nested, Starts
  <2>. QED
    BY <1>1, <2>2, <2>3 DEF CalledAlone
<1>14. CASE BadTag
  <2>1. /\ UNCHANGED <<rested, clicks, stack, serial, rx>>
        /\ crashed' = TRUE /\ badTag' = TRUE
    BY <1>14 DEF BadTag, TagFails, user
  <2>2. QueuedAlone' /\ CalledAlone' /\ DisconnectDue' = DisconnectDue
    BY <1>1, <2>1 DEF QueuedAlone, CalledAlone, NoStartCalled, NoStartQueued, DisconnectDue
  <2>. QED
    BY <1>1, <2>1, <2>2 DEF OneStart
<1>6. CASE Connects
  <2>1. /\ UNCHANGED <<rested, clicks, serial>> /\ SlotReturns
        /\ Head(stack).op \in Starts /\ crashed' = (rx # "none")
    BY <1>6 DEF Connects, SessionStarts, Return, SlotReturns, user
  <2>2. QueuedAlone' /\ CalledAlone'
    BY <1>1, <2>1, WentBack
  <2>3. rx = "none" /\ ~rested
    BY <1>1, <1>2, <2>1, First DEF CalledAlone, SlotReturns
  <2>. QED
    BY <2>1, <2>2, <2>3 DEF OneStart
<1>7. ASSUME NEW op \in Ops, Click(op)  PROVE OneStart'
  <2>1. /\ clicks' = Append(clicks, op) /\ UNCHANGED <<stack, serial, rx, crashed, badTag>>
        /\ op \in Starts => rested /\ clicks = <<>> /\ stack = <<>>
        /\ rested' <=> ((op = "disconnectFromPeer" /\ Quiet) \/ (op = "sendMessage" /\ rested))
    BY <1>7 DEF Click, session, Quiet
  <2>2. CASE op \in Starts
    <3>1. ~rested'
      BY <2>1, <2>2 DEF Starts, TcpOps, RelayOps
    <3>2. rx = "none"
      <4>1. clicks = <<>> /\ stack = <<>> /\ rested
        BY <2>1, <2>2
      <4>2. ~DisconnectDue
        BY <4>1 DEF DisconnectDue
      <4>. QED
        BY <1>1, <4>1, <4>2
    <3>3. Len(clicks') = 1 /\ Len(stack') = 0
      BY <2>1, <2>2
    <3>4. QueuedAlone' /\ CalledAlone'
      BY <2>1, <3>1, <3>2, <3>3 DEF QueuedAlone, CalledAlone, NoStartCalled
    <3>. QED
      BY <1>1, <2>1, <3>1, <3>4 DEF OneStart
  <2>3. CASE op \notin Starts /\ (rested' => rested)
    <3>1. QueuedAlone' /\ CalledAlone' /\ (DisconnectDue => DisconnectDue')
      BY <1>1, <2>1, <2>3, AskedElse
    <3>. QED
      BY <1>1, <2>1, <2>3, <3>1 DEF OneStart
  <2>4. CASE op = "disconnectFromPeer" /\ Quiet
    <3>1. Len(clicks') = 1 /\ clicks'[1] = op /\ Len(stack') = 0
      BY <2>1, <2>4 DEF Quiet
    <3>2. op \notin Starts
      BY <2>4 DEF Starts, TcpOps, RelayOps
    <3>3. \A i \in 1 .. Len(clicks') : clicks'[i] = op
      BY <3>1
    <3>4. QueuedAlone' /\ CalledAlone' /\ DisconnectDue'
      BY <2>4, <3>1, <3>2, <3>3 DEF QueuedAlone, CalledAlone, DisconnectDue
    <3>. QED
      BY <1>1, <2>1, <3>4 DEF OneStart
  <2>. QED
    BY <2>1, <2>2, <2>3, <2>4
<1>8. CASE CloseWindow
  <2>1. /\ clicks' = Append(clicks, "disconnectFromPeer")
        /\ UNCHANGED <<stack, serial, rx, rested, crashed, badTag>>
    BY <1>8 DEF CloseWindow, session
  <2>2. "disconnectFromPeer" \in Ops \ Starts
    BY DEF Ops, Starts, TcpOps, RelayOps
  <2>3. QueuedAlone' /\ CalledAlone' /\ (DisconnectDue => DisconnectDue')
    BY <1>1, <2>1, <2>2, AskedElse
  <2>. QED
    BY <1>1, <2>1, <2>3 DEF OneStart
<1>9. CASE Dispatch
  <2>1. UNCHANGED <<rested, rx, crashed, badTag>>
    BY <1>9 DEF Dispatch, session
  <2>2. QueuedAlone' /\ CalledAlone' /\ (DisconnectDue => DisconnectDue')
    BY <1>1, <1>9, WentInto
  <2>. QED
    BY <1>1, <2>1, <2>2 DEF OneStart
<1>10. CASE LoopEnds
  <2>. DEFINE e == [op |-> "~EngineWorker", at |-> "stop", ws |-> 0]
  <2>1. stack' = <<e>> /\ stack = <<>> /\ UNCHANGED <<rested, clicks, serial, rx, crashed, badTag>>
    BY <1>10 DEF LoopEnds, user, session
  <2>2. e.op \notin Starts /\ e.at = "stop"
    BY DEF Starts, TcpOps, RelayOps
  <2>. HIDE DEF e
  <2>3. Len(stack') = 1 /\ stack'[1] = e
    BY <2>1
  <2>4. \A i \in 1 .. Len(stack') : stack'[i] = e
    BY <2>3
  <2>5. NoStartCalled' /\ CalledAlone' /\ DisconnectDue'
    BY <2>2, <2>3, <2>4 DEF NoStartCalled, CalledAlone, DisconnectDue
  <2>6. QueuedAlone'
    BY <1>1, <2>1, <2>5 DEF QueuedAlone
  <2>. QED
    BY <1>1, <2>1, <2>5, <2>6 DEF OneStart
<1>11. CASE Stop
  <2>1. Goto("join") /\ stack # <<>> /\ UNCHANGED <<rested, clicks, serial, rx, crashed, badTag>>
    BY <1>11 DEF Stop, Running, user, session
  <2>2. QueuedAlone' /\ CalledAlone'
    BY <1>1, <2>1, WentOn
  <2>3. DisconnectDue'
    <3>. DEFINE e == [Head(stack) EXCEPT !.at = "join"]
    <3>1. e \in Entry /\ e.at = "join"
      BY <1>2, <2>1, First
    <3>2. stack' = <<e>> \o Tail(stack)
      BY <2>1 DEF Goto
    <3>. HIDE DEF e
    <3>3. stack'[1] = e /\ 1 \in 1 .. Len(stack')
      BY <1>2, <2>1, <3>1, <3>2, GoesOn
    <3>. QED
      BY <3>1, <3>3 DEF DisconnectDue
  <2>. QED
    BY <1>1, <2>1, <2>2, <2>3 DEF OneStart
<1>12. CASE Join
  <2>1. stack # <<>> /\ rx' = "none" /\ UNCHANGED <<rested, clicks, serial, crashed, badTag>>
    BY <1>12 DEF Join, Running
  <2>2. Goto("begin") \/ SlotReturns
    BY <1>12, <2>1 DEF Join, Stopped, Return, SlotReturns
  <2>3. QueuedAlone' /\ CalledAlone'
    BY <1>1, <2>1, <2>2, WentOn, WentBack
  <2>. QED
    BY <1>1, <2>1, <2>3 DEF OneStart
<1>13. CASE RelayOpen
  <2>1. UNCHANGED <<rested, crashed, badTag>>
    BY <1>13 DEF RelayOpen, user, session
  <2>2. QueuedAlone' /\ CalledAlone' /\ ~rested
    BY <1>1, <1>13, WentToRelay
  <2>. QED
    BY <1>1, <2>1, <2>2 DEF OneStart
<1>. QED
  BY WorkerKinds, <1>3, <1>4, <1>5, <1>6, <1>7, <1>8, <1>9, <1>10, <1>11, <1>12, <1>13, <1>14

-----------------------------------------------------------------------------
(* The theorems *)

LEMMA WorkerStart == WorkerInit => WorkerInv
<1>. SUFFICES ASSUME WorkerInit  PROVE WorkerInv
  OBVIOUS
<1>1. /\ clicks = <<>> /\ stack = <<>> /\ asked = 0 /\ serial = 0 /\ window = "open"
      /\ isConnected = FALSE /\ shown = FALSE /\ crashed = FALSE /\ badTag = FALSE /\ rx = "none" /\ mode = "None"
  BY DEF WorkerInit
<1>2. Len(clicks) = 0 /\ Len(stack) = 0
  BY <1>1
<1>3. TransportTypeOK /\ NoMessageSlept
  <2>1. connected \in BOOLEAN /\ closed \in BOOLEAN
    BY DEF WorkerInit
  <2>2. arrived = 0 /\ inbox = 0 /\ line = "none" /\ recv = "out"
    BY DEF WorkerInit
  <2>. QED
    BY <2>1, <2>2, QueueAssumption DEF TransportTypeOK, NoMessageSlept
<1>4. tcp \in TcpState
  BY QueueAssumption DEF WorkerInit, NoSocket, TcpState
<1>5. careful \in BOOLEAN /\ rested \in BOOLEAN
  BY DEF WorkerInit
<1>6. clicks \in Seq(Ops) /\ stack \in Seq(Entry)
  BY <1>1
<1>7. asked \in 0 .. MaxClicks + 1 /\ serial \in 0 .. MaxClicks
  BY <1>1, ClickAssumption
<1>8. WorkerTypeOK
  BY <1>1, <1>3, <1>4, <1>5, <1>6, <1>7 DEF WorkerTypeOK, Entry, TcpState
<1>9. Nested
  BY <1>2 DEF Nested
<1>10. Counted
  <2>1. Pending = 0
    BY <1>1 DEF Pending, StartDue
  <2>. QED
    BY <1>1, <1>2, <2>1, ClickAssumption DEF Counted, Counts
<1>11. Recorded
  BY <1>1 DEF Recorded
<1>12. OneStart
  BY <1>1, <1>2 DEF OneStart, QueuedAlone, CalledAlone
<1>. QED
  BY <1>3, <1>8, <1>9, <1>10, <1>11, <1>12 DEF WorkerInv

LEMMA WorkerStep ==
  ASSUME WorkerInv, [WorkerNext]_vars
  PROVE  WorkerInv'
<1>0. WorkerTypeOK /\ NoMessageSlept /\ Nested /\ Counted /\ Recorded /\ OneStart
  BY DEF WorkerInv
<1>1. TransportTypeOK' /\ NoMessageSlept'
  BY <1>0, TransportStep DEF WorkerTypeOK
<1>2. tcp' \in TcpState
  BY <1>0, TcpStep DEF WorkerTypeOK, TcpState
<1>3. stack' \in Seq(Entry) /\ Nested'
  BY <1>0, StackStep
<1>4. Counted' /\ clicks' \in Seq(Ops) /\ window' \in {"open", "closing", "gone"}
  BY <1>0, CountedStep
<1>5. asked' \in 0 .. MaxClicks + 1 /\ serial' \in 0 .. MaxClicks
  <2>1. Counts(window', asked', serial', Pending', Len(clicks'))
    BY <1>4 DEF Counted
  <2>2. ASSUME NEW w, NEW a, NEW s, NEW p, NEW n, Counts(w, a, s, p, n)
        PROVE  a \in 0 .. MaxClicks + 1 /\ s \in 0 .. MaxClicks
    BY <2>2, CountsOn
  <2>. QED
    BY <2>1, <2>2
<1>6. /\ Recorded' /\ mode' \in {"None", "TCP", "WS"} /\ rx' \in {"none", "run", "ended"}
      /\ isConnected' \in BOOLEAN /\ shown' \in BOOLEAN
         /\ crashed' \in BOOLEAN /\ badTag' \in BOOLEAN
  BY <1>0, RecordedStep
<1>7. careful' \in BOOLEAN /\ rested' \in BOOLEAN
  <2>1. careful \in BOOLEAN /\ rested \in BOOLEAN
    BY <1>0 DEF WorkerTypeOK
  <2>. QED
    BY <2>1, WorkerKinds DEF Elsewhere, Slips, Dangles, BadTag, Connects, SessionEnds, RxEnds, Click,
       CloseWindow, Dispatch, LoopEnds, Stop, Join, RelayOpen, user
<1>8. WorkerTypeOK'
  BY <1>1, <1>2, <1>3, <1>4, <1>5, <1>6, <1>7 DEF WorkerTypeOK, Entry, TcpState
<1>9. OneStart'
  BY <1>0, OneStartStep
<1>. QED
  BY <1>1, <1>3, <1>4, <1>6, <1>8, <1>9 DEF WorkerInv

LEMMA WorkerHolds == WorkerSpec => []WorkerInv
<1>1. WorkerInv /\ [WorkerNext]_vars => WorkerInv'
  BY WorkerStep
<1>. QED
  BY WorkerStart, <1>1, PTL DEF WorkerSpec

\* Types hold throughout; the stack of slots and the transports made for them
\* are bounded by what the user asked for.
THEOREM WorkerTypeCorrect == WorkerSpec => []WorkerTypeOK
<1>1. WorkerInv => WorkerTypeOK
  BY DEF WorkerInv
<1>. QED
  BY <1>1, WorkerHolds, PTL

\* A caller of WsTransport::recv never sleeps beside a message: it tests inbox_
\* and goes to sleep under the mutex that onBinaryMessage pushes under.
THEOREM NobodySleepsBesideMessage == WorkerSpec => []NoMessageSlept
<1>1. WorkerInv => NoMessageSlept
  BY DEF WorkerInv
<1>. QED
  BY <1>1, WorkerHolds, PTL

\* Between slots isConnected_, the receive thread, mode_ and the window agree,
\* whichever of the two threads ended the session.
THEOREM RecordsAgree == WorkerSpec => []SessionRecorded
<1>1. WorkerInv => SessionRecorded
  BY DEF WorkerInv, Recorded, SessionRecorded
<1>. QED
  BY <1>1, WorkerHolds, PTL

\* A user who asks for Disconnect, with nothing under way, before each start
\* never meets std::terminate at an assignment to rxThread_ nor a transport used
\* after it was replaced, however slots nest in connect_url and whoever ends the
\* session: when such a user's program comes down, a tag has failed in decrypt.
THEOREM CarefulCrashIsTag == WorkerSpec => []CarefulCrashesByTagOnly
<1>1. WorkerInv => CarefulCrashesByTagOnly
  BY DEF WorkerInv, OneStart, CarefulCrashesByTagOnly
<1>. QED
  BY <1>1, WorkerHolds, PTL
=============================================================================
