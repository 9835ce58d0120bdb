--------------------------- MODULE RoomBroadcast ---------------------------
(***************************************************************************)
(* What the relay (relay_server.cpp) promises to its clients, without its  *)
(* threads, locks and sockets: a frame of a member of a room goes to the   *)
(* clients that are members when the relay takes the frame, each of them   *)
(* gets one sender's frames in the order they were sent, and two frames    *)
(* under way to the same client may spoil one another.  RelayServer is     *)
(* shown to implement this module, SecureChat is built on top of it.       *)
(***************************************************************************)
EXTENDS Naturals, Sequences

CONSTANTS Client,   \* WebSocket connections, each used once
          Room,     \* values of the room query parameter
          MaxSent   \* bound: how many frames each client sends at most

ASSUME MaxSentAssumption == MaxSent \in [Client -> Nat]

VARIABLES
  status,  \* "out": no 101 answer yet; "open": answered; "in": member; "gone"
  room,    \* the room a client asked for (meaningful once it is not "out")
  closed,  \* the connection is closed
  sent,    \* frames the client has put on its connection
  taken,   \* frames the relay has taken from the client and fanned out
  pend,    \* copies of a taken frame still to be written to a member
  got      \* the frames each client's connection has received, in order

bvars == <<status, room, closed, sent, taken, pend, got>>

Frame == [from : Client, n : Nat, intact : BOOLEAN]

TypeOK ==
  /\ status \in [Client -> {"out", "open", "in", "gone"}]
  /\ room \in [Client -> Room]
  /\ closed \in [Client -> BOOLEAN]
  /\ sent \in [Client -> Nat]
  /\ taken \in [Client -> Nat]
  /\ pend \subseteq [from : Client, n : Nat, intact : BOOLEAN, to : Client]
  /\ got \in [Client -> Seq(Frame)]

Init ==
  /\ status = [c \in Client |-> "out"]
  /\ room \in [Client -> Room]
  /\ closed = [c \in Client |-> FALSE]
  /\ sent = [c \in Client |-> 0]
  /\ taken = [c \in Client |-> 0]
  /\ pend = {}
  /\ got = [c \in Client |-> <<>>]

\* The 101 answer: from here on the client believes it is in its room.
Open(c) ==
  /\ status[c] = "out"
  /\ status' = [status EXCEPT ![c] = "open"]
  /\ UNCHANGED <<room, closed, sent, taken, pend, got>>

\* A connection that is answered and never becomes a WebSocket.
Refuse(c) ==
  /\ status[c] = "out"
  /\ status' = [status EXCEPT ![c] = "gone"]
  /\ UNCHANGED <<room, closed, sent, taken, pend, got>>

Join(c) ==
  /\ status[c] = "open"
  /\ status' = [status EXCEPT ![c] = "in"]
  /\ UNCHANGED <<room, closed, sent, taken, pend, got>>

Send(c) ==
  /\ status[c] \in {"open", "in"} /\ ~closed[c] /\ sent[c] < MaxSent[c]
  /\ sent' = [sent EXCEPT ![c] = @ + 1]
  /\ UNCHANGED <<status, room, closed, taken, pend, got>>

Close(c) ==
  /\ ~closed[c]
  /\ closed' = [closed EXCEPT ![c] = TRUE]
  /\ UNCHANGED <<status, room, sent, taken, pend, got>>

Members(r) == {c \in Client : status[c] = "in" /\ room[c] = r}

\* Fault: the next frame is taken while copies of the last are under way.
TakeAsync(c) ==
  /\ status[c] = "in" /\ taken[c] < sent[c]
  /\ taken' = [taken EXCEPT ![c] = @ + 1]
  /\ pend' = pend \cup {[from |-> c, n |-> taken[c] + 1, intact |-> TRUE, to |-> d] :
                          d \in Members(room[c]) \ {c}}
  /\ UNCHANGED <<status, room, closed, sent, got>>

\* One frame at a time: the copies of the last one have all been dealt with.
Take(c) ==
  /\ status[c] = "in" /\ taken[c] < sent[c]
  /\ \A f \in pend : f.from # c
  /\ taken' = [taken EXCEPT ![c] = @ + 1]
  /\ pend' = pend \cup {[from |-> c, n |-> taken[c] + 1, intact |-> TRUE, to |-> d] :
                          d \in Members(room[c]) \ {c}}
  /\ UNCHANGED <<status, room, closed, sent, got>>

Spoilt(F) == {[f EXCEPT !.intact = FALSE] : f \in F}

\* Two senders' copies under way to the same client may be garbled.
Collide(F) ==
  /\ F \subseteq pend
  /\ \A f \in F : \E g \in pend : g.to = f.to /\ g.from # f.from
  /\ pend' = (pend \ F) \cup Spoilt(F)
  /\ UNCHANGED <<status, room, closed, sent, taken, got>>

Deliver(f) ==
  /\ f \in pend /\ ~closed[f.to]
  /\ pend' = pend \ {f}
  /\ got' = [got EXCEPT ![f.to] =
               Append(@, [from |-> f.from, n |-> f.n, intact |-> f.intact])]
  /\ UNCHANGED <<status, room, closed, sent, taken>>

Lose(f) ==
  /\ f \in pend /\ closed[f.to]
  /\ pend' = pend \ {f}
  /\ UNCHANGED <<status, room, closed, sent, taken, got>>

\* Only a closed connection leaves; what it sent and nobody took is lost.
Leave(c) ==
  /\ status[c] = "in" /\ closed[c]
  /\ \A f \in pend : f.from # c
  /\ status' = [status EXCEPT ![c] = "gone"]
  /\ UNCHANGED <<room, closed, sent, taken, pend, got>>

\* The relay process dies: every connection it had is closed.  S are those it
\* had not answered yet, T members whose next frame was read and is lost.
Reset(S, T) ==
  LET lost == S \cup {c \in Client : status[c] \in {"open", "in"}} IN
  /\ status' = [c \in Client |-> IF c \in lost THEN "gone" ELSE status[c]]
  /\ closed' = [c \in Client |-> c \in lost \/ closed[c]]
  /\ taken' = [c \in Client |-> IF c \in T THEN taken[c] + 1 ELSE taken[c]]
  /\ pend' = {}
  /\ UNCHANGED <<room, sent, got>>

RelayStep ==
  \/ \E c \in Client : Open(c) \/ Refuse(c) \/ Join(c) \/ Take(c) \/ Leave(c)
  \/ \E F \in SUBSET pend : Collide(F)
  \/ \E f \in pend : Deliver(f) \/ Lose(f)
  \/ \E S \in SUBSET {c \in Client : status[c] = "out"} :
       \E T \in SUBSET {c \in Client : status[c] = "in" /\ taken[c] < sent[c]} :
         Reset(S, T)

Next == RelayStep \/ \E c \in Client : Send(c) \/ Close(c)

Spec == Init /\ [][Next]_bvars
=============================================================================
