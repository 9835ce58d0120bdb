---------------------------- MODULE WsTransport ----------------------------
(***************************************************************************)
(* ws_transport.cpp: a QWebSocket whose slots run in the event loop of the *)
(* thread that made it, and a recv that blocks its caller on cv_ until the *)
(* slots have put a message into inbox_ or set closed_.  EngineWorker says *)
(* when that event loop runs and which thread is in recv.                  *)
(***************************************************************************)
EXTENDS Naturals

CONSTANT MaxQueued  \* bound: messages received and not yet read

ASSUME QueueAssumption == MaxQueued \in Nat \ {0}

VARIABLES
  line,       \* the network: "none" (no transport), "trying", "up", "down"
  arrived,    \* messages at the socket whose signal was not emitted yet
  connected,  \* connected_
  closed,     \* closed_
  inbox,      \* how many messages inbox_ holds
  recv        \* the caller of recv: "out", "lock" (about to take mtx_),
              \* "tested" (holds it, found nothing, about to sleep), "asleep"

wsvars == <<line, arrived, connected, closed, inbox, recv>>

TransportTypeOK ==
  /\ line \in {"none", "trying", "up", "down"}
  /\ connected \in BOOLEAN /\ closed \in BOOLEAN
  /\ arrived \in 0 .. MaxQueued /\ inbox \in 0 .. MaxQueued
  /\ arrived + inbox <= MaxQueued
  /\ recv \in {"out", "lock", "tested", "asleep"}

\* A transport just made (socket_.open issued), or none.
Fresh(l) ==
  /\ line' = l /\ arrived' = 0 /\ inbox' = 0
  /\ connected' = FALSE /\ closed' = FALSE /\ recv' = "out"

NoTransport == Fresh("none")

-----------------------------------------------------------------------------
(* the network *)
LineUp ==
  /\ line = "trying" /\ line' = "up"
  /\ UNCHANGED <<arrived, connected, closed, inbox, recv>>

LineDown ==
  /\ line \in {"trying", "up"} /\ line' = "down"
  /\ UNCHANGED <<arrived, connected, closed, inbox, recv>>

MessageArrives ==
  /\ line = "up" /\ arrived + inbox < MaxQueued
  /\ arrived' = arrived + 1
  /\ UNCHANGED <<line, connected, closed, inbox, recv>>

-----------------------------------------------------------------------------
(* the slots, and close *)
\* notify_one and notify_all: there is one waiter, and only a sleeper hears it.
Notify == recv' = IF recv = "asleep" THEN "lock" ELSE recv

OnConnected ==
  /\ line = "up" /\ ~connected /\ ~closed
  /\ connected' = TRUE
  /\ UNCHANGED <<line, arrived, closed, inbox, recv>>

\* Fault: the message is pushed without mtx_.
OnMessageUnlocked ==
  /\ connected /\ arrived > 0
  /\ arrived' = arrived - 1 /\ inbox' = inbox + 1
  /\ Notify
  /\ UNCHANGED <<line, connected, closed>>

\* Pushed under mtx_, which the caller of recv holds from lock to sleep.
OnMessage ==
  /\ connected /\ arrived > 0
  /\ recv # "tested"
  /\ arrived' = arrived - 1 /\ inbox' = inbox + 1
  /\ Notify
  /\ UNCHANGED <<line, connected, closed>>

\* disconnected and errorOccurred: closed_ is set without mtx_.
OnDown ==
  /\ line = "down" /\ ~closed
  /\ closed' = TRUE /\ connected' = FALSE
  /\ Notify
  /\ UNCHANGED <<line, arrived, inbox>>

Slot == OnConnected \/ OnMessage \/ OnDown

Close ==
  /\ line' = IF connected THEN "down" ELSE line
  /\ closed' = TRUE /\ connected' = FALSE
  /\ Notify
  /\ UNCHANGED <<arrived, inbox>>

-----------------------------------------------------------------------------
(* recv *)
Enter ==
  /\ recv = "out" /\ recv' = "lock"
  /\ UNCHANGED <<line, arrived, connected, closed, inbox>>

\* Fault: a caller woken by closed_ takes a message too.
RecvMessageUnchecked ==
  /\ recv = "lock" /\ (inbox > 0 \/ closed)
  /\ inbox' = inbox - 1 /\ recv' = "out"
  /\ UNCHANGED <<line, arrived, connected, closed>>

\* Returns true, with a message; messages go before closed_.
RecvMessage ==
  /\ recv = "lock" /\ inbox > 0
  /\ inbox' = inbox - 1 /\ recv' = "out"
  /\ UNCHANGED <<line, arrived, connected, closed>>

\* Returns false.
RecvClosed ==
  /\ recv = "lock" /\ inbox = 0 /\ closed
  /\ recv' = "out"
  /\ UNCHANGED <<line, arrived, connected, closed, inbox>>

\* cv_.wait: the predicate is false; then the mutex is released in going to
\* sleep.
Wait ==
  /\ \/ recv = "lock" /\ inbox = 0 /\ ~closed /\ recv' = "tested"
     \/ recv = "tested" /\ recv' = "asleep"
  /\ UNCHANGED <<line, arrived, connected, closed, inbox>>

-----------------------------------------------------------------------------
\* Nobody goes to sleep, or stays asleep, beside a message: the push and the
\* test exclude one another, so the notification cannot fall in between.
NoMessageSlept == recv \in {"tested", "asleep"} => inbox = 0

\* ws_transport.h: recv "blocks until a message arrives or connection closes".
RecvReturns ==
  (recv # "out" /\ (arrived > 0 \/ inbox > 0 \/ line = "down" \/ closed)) ~> (recv = "out")
=============================================================================
