---------------------------- MODULE RelayServer ----------------------------
(***************************************************************************)
(* relay_server.cpp: a detached do_http thread for every accepted socket,  *)
(* a detached do_run thread for every upgraded one, and the registry       *)
(* g_rooms, which is touched only under g_rooms_mtx.  An action is what a  *)
(* thread does between two points where another thread can see it: one     *)
(* critical section, one blocking socket call, or one end of a ws.write,   *)
(* because the writes happen outside the lock and may overlap.             *)
(***************************************************************************)
EXTENDS Naturals, Sequences, FiniteSets

CONSTANTS Session,  \* connections a client opens, each used once
          Plain,    \* those whose request do_http answers without upgrading
          Room,     \* values of the room query parameter
          MaxSent,  \* bound: how many frames each client sends at most
          SockBuf   \* bound: frames a connection holds that are not read yet

ASSUME RelayAssumption ==
  /\ Plain \subseteq Session
  /\ MaxSent \in [Session -> Nat]
  /\ SockBuf \in Nat \ {0}

VARIABLES
  up,      \* the relay process is running
  pc,      \* where the thread of a connection is
  room,    \* the room a client asks for
  rooms,   \* g_rooms: a partial function from Room to its registered sessions
  closed,  \* the connection is closed, by its client or by process death
  sent,    \* frames the client has put on its connection
  taken,   \* frames the session's read loop has read
  peers,   \* the shared_ptrs collected for the frame at hand
  todo,    \* those of them ws.write has not been called on yet
  tgt,     \* the peer ws.write is writing to, while pc is "write"
  spoilt,  \* threads whose write overlaps another one and comes out garbled
  got,     \* frames that arrived on each client's connection, in order
  rd       \* how many of them the client has read

vars == <<up, pc, room, rooms, closed, sent, taken, peers, todo, tgt, spoilt, got, rd>>

\* do_run after registration and before self removal
Loop == {"read", "collect", "fanout", "write"}
Frame == [from : Session, n : Nat, intact : BOOLEAN]

\* Types, and the bounds: nothing is read that was not sent, a connection
\* never holds more than it has room for.
TypeOK ==
  /\ up \in BOOLEAN
  /\ pc \in [Session -> {"idle", "http", "upgraded", "done"} \cup Loop]
  /\ room \in [Session -> Room]
  /\ DOMAIN rooms \subseteq Room
  /\ rooms \in [DOMAIN rooms -> SUBSET Session]
  /\ closed \in [Session -> BOOLEAN]
  /\ sent \in [Session -> Nat]
  /\ taken \in [Session -> Nat]
  /\ peers \in [Session -> SUBSET Session]
  /\ todo \in [Session -> SUBSET Session]
  /\ tgt \in [Session -> Session]
  /\ spoilt \subseteq Session
  /\ got \in [Session -> Seq(Frame)]
  /\ rd \in [Session -> Nat]
  /\ \A s \in Session : /\ taken[s] <= sent[s] /\ sent[s] <= MaxSent[s]
                         /\ rd[s] <= Len(got[s]) /\ Len(got[s]) - rd[s] <= SockBuf

Init ==
  /\ up = TRUE
  /\ pc = [s \in Session |-> "idle"]
  /\ room \in [Session -> Room]
  /\ rooms = [r \in {} |-> {}]
  /\ closed = [s \in Session |-> FALSE]
  /\ sent = [s \in Session |-> 0]
  /\ taken = [s \in Session |-> 0]
  /\ peers = [s \in Session |-> {}]
  /\ todo = [s \in Session |-> {}]
  /\ tgt = [s \in Session |-> s]
  /\ spoilt = {}
  /\ got = [s \in Session |-> <<>>]
  /\ rd = [s \in Session |-> 0]

-----------------------------------------------------------------------------
(* main: accept a socket, detach a do_http thread for it *)
Connect(s) ==
  /\ up /\ pc[s] = "idle"
  /\ pc' = [pc EXCEPT ![s] = "http"]
  /\ UNCHANGED <<up, room, rooms, closed, sent, taken, peers, todo, tgt, spoilt, got, rd>>

\* do_http ends with a plain answer: /health, a target that is not /ws, the
\* default 404; also when reading the request failed, whose error is ignored
AnsweredPlainly(s) == s \in Plain \/ closed[s]

Reply(s) ==
  /\ pc[s] = "http" /\ AnsweredPlainly(s)
  /\ pc' = [pc EXCEPT ![s] = "done"]
  /\ UNCHANGED <<up, room, rooms, closed, sent, taken, peers, todo, tgt, spoilt, got, rd>>

\* The process is gone: every thread ends, every connection is closed.
Die ==
  LET lost == {t \in Session : pc[t] \notin {"idle", "done"}} IN
  /\ up' = FALSE
  /\ pc' = [t \in Session |-> IF t \in lost THEN "done" ELSE pc[t]]
  /\ closed' = [t \in Session |-> t \in lost \/ closed[t]]
  /\ rooms' = [r \in {} |-> {}]
  /\ peers' = [t \in Session |-> {}]
  /\ todo' = [t \in Session |-> {}]
  /\ spoilt' = {}
  /\ UNCHANGED <<room, sent, taken, tgt, got, rd>>

\* http::write is the throwing overload: on a connection the client has reset
\* the exception leaves the detached thread, which is std::terminate
ReplyThrows(s) ==
  /\ pc[s] = "http" /\ closed[s]
  /\ Die

\* deploy/relay_server.service: Restart=always
Restart ==
  /\ ~up
  /\ up' = TRUE
  /\ UNCHANGED <<pc, room, rooms, closed, sent, taken, peers, todo, tgt, spoilt, got, rd>>

\* ws.accept writes the 101 answer: the client is connected
Accept(s) ==
  /\ pc[s] = "http" /\ s \notin Plain
  /\ pc' = [pc EXCEPT ![s] = "upgraded"]
  /\ UNCHANGED <<up, room, rooms, closed, sent, taken, peers, todo, tgt, spoilt, got, rd>>

AcceptFails(s) ==
  /\ pc[s] = "http" /\ s \notin Plain /\ closed[s]
  /\ pc' = [pc EXCEPT ![s] = "done"]
  /\ UNCHANGED <<up, room, rooms, closed, sent, taken, peers, todo, tgt, spoilt, got, rd>>

-----------------------------------------------------------------------------
(* do_run *)
\* No shared_ptr is left: the thread has ended and no fan-out holds one.
Expired(p) == pc[p] = "done" /\ \A t \in Session : p \notin peers[t]
Alive(S) == {p \in S : ~Expired(p)}

With(r, S) == [q \in DOMAIN rooms \cup {r} |-> IF q = r THEN S ELSE rooms[q]]
Without(r) == [q \in DOMAIN rooms \ {r} |-> rooms[q]]
Registered(r) == IF r \in DOMAIN rooms THEN rooms[r] ELSE {}

Register(s) ==
  /\ pc[s] = "upgraded"
  /\ rooms' = With(room[s], Alive(Registered(room[s])) \cup {s})
  /\ pc' = [pc EXCEPT ![s] = "read"]
  /\ UNCHANGED <<up, room, closed, sent, taken, peers, todo, tgt, spoilt, got, rd>>

\* Fault: the peers of an earlier frame are used again.
ReadFrameStalePeers(s) ==
  /\ pc[s] = "read" /\ taken[s] < sent[s]
  /\ taken' = [taken EXCEPT ![s] = @ + 1]
  /\ pc' = [pc EXCEPT ![s] = "fanout"]
  /\ UNCHANGED <<up, room, rooms, closed, sent, peers, todo, tgt, spoilt, got, rd>>

ReadFrame(s) ==
  /\ pc[s] = "read" /\ taken[s] < sent[s]
  /\ taken' = [taken EXCEPT ![s] = @ + 1]
  /\ pc' = [pc EXCEPT ![s] = "collect"]
  /\ UNCHANGED <<up, room, rooms, closed, sent, peers, todo, tgt, spoilt, got, rd>>

\* Fault: the sender is not skipped.
CollectEcho(s) ==
  /\ pc[s] = "collect"
  /\ LET live == Alive(Registered(room[s])) IN
       /\ peers' = [peers EXCEPT ![s] = live]
       /\ todo' = [todo EXCEPT ![s] = live]
       /\ rooms' = IF room[s] \in DOMAIN rooms THEN With(room[s], live) ELSE rooms
  /\ pc' = [pc EXCEPT ![s] = "fanout"]
  /\ UNCHANGED <<up, room, closed, sent, taken, tgt, spoilt, got, rd>>

\* Under the lock: lock every weak_ptr of the room, drop the dead ones.
Collect(s) ==
  /\ pc[s] = "collect"
  /\ LET live == Alive(Registered(room[s])) IN
       /\ peers' = [peers EXCEPT ![s] = live \ {s}]
       /\ todo' = [todo EXCEPT ![s] = live \ {s}]
       /\ rooms' = IF room[s] \in DOMAIN rooms THEN With(room[s], live) ELSE rooms
  /\ pc' = [pc EXCEPT ![s] = "fanout"]
  /\ UNCHANGED <<up, room, closed, sent, taken, tgt, spoilt, got, rd>>

WritersTo(p) == {t \in Session : pc[t] = "write" /\ tgt[t] = p}

\* Fault: a peer may be written to again.
BeginWriteAgain(s, p) ==
  /\ pc[s] = "fanout" /\ p \in todo[s]
  /\ pc' = [pc EXCEPT ![s] = "write"]
  /\ tgt' = [tgt EXCEPT ![s] = p]
  /\ UNCHANGED <<up, room, rooms, closed, sent, taken, peers, todo, spoilt, got, rd>>

\* The fan-out goes through peers in some order (the vector's, which the
\* registration order fixes: left open here).  Beast streams are not thread
\* safe, so overlapping writes to one stream spoil any of the frames or none.
BeginWrite(s, p) ==
  /\ pc[s] = "fanout" /\ p \in todo[s]
  /\ pc' = [pc EXCEPT ![s] = "write"]
  /\ tgt' = [tgt EXCEPT ![s] = p]
  /\ todo' = [todo EXCEPT ![s] = @ \ {p}]
  /\ \E X \in IF WritersTo(p) = {} THEN {{}} ELSE SUBSET (WritersTo(p) \cup {s}) :
       spoilt' = spoilt \cup X
  /\ UNCHANGED <<up, room, rooms, closed, sent, taken, peers, got, rd>>

\* Fault: a peer's buffer grows without limit.
EndWriteUnbounded(s) ==
  LET p == tgt[s] IN
  /\ pc[s] = "write" /\ ~closed[p]
  /\ got' = [got EXCEPT ![p] =
               Append(@, [from |-> s, n |-> taken[s], intact |-> s \notin spoilt])]
  /\ spoilt' = spoilt \ {s}
  /\ pc' = [pc EXCEPT ![s] = "fanout"]
  /\ UNCHANGED <<up, room, rooms, closed, sent, taken, peers, todo, tgt, rd>>

\* ws.write returns once the frame fits into the connection's buffers.
EndWrite(s) ==
  LET p == tgt[s] IN
  /\ pc[s] = "write" /\ ~closed[p] /\ Len(got[p]) - rd[p] < SockBuf
  /\ got' = [got EXCEPT ![p] =
               Append(@, [from |-> s, n |-> taken[s], intact |-> s \notin spoilt])]
  /\ spoilt' = spoilt \ {s}
  /\ pc' = [pc EXCEPT ![s] = "fanout"]
  /\ UNCHANGED <<up, room, rooms, closed, sent, taken, peers, todo, tgt, rd>>

\* Fault: a frame for a peer whose buffer is full is dropped.
WriteFailsWhenFull(s) ==
  /\ pc[s] = "write" /\ (closed[tgt[s]] \/ Len(got[tgt[s]]) - rd[tgt[s]] = SockBuf)
  /\ spoilt' = spoilt \ {s}
  /\ pc' = [pc EXCEPT ![s] = "fanout"]
  /\ UNCHANGED <<up, room, rooms, closed, sent, taken, peers, todo, tgt, got, rd>>

\* Fault: a failed write is tried again.
WriteFailsRetry(s) ==
  /\ pc[s] = "write" /\ closed[tgt[s]]
  /\ pc' = [pc EXCEPT ![s] = "fanout"]
  /\ todo' = [todo EXCEPT ![s] = @ \cup {tgt[s]}]
  /\ UNCHANGED <<up, room, rooms, closed, sent, taken, peers, tgt, spoilt, got, rd>>

\* A write error is logged and the fan-out goes on.
WriteFails(s) ==
  /\ pc[s] = "write" /\ closed[tgt[s]]
  /\ spoilt' = spoilt \ {s}
  /\ pc' = [pc EXCEPT ![s] = "fanout"]
  /\ UNCHANGED <<up, room, rooms, closed, sent, taken, peers, todo, tgt, got, rd>>

FanoutDone(s) ==
  /\ pc[s] = "fanout" /\ todo[s] = {}
  /\ peers' = [peers EXCEPT ![s] = {}]
  /\ pc' = [pc EXCEPT ![s] = "read"]
  /\ UNCHANGED <<up, room, rooms, closed, sent, taken, todo, tgt, spoilt, got, rd>>

\* Fault: only expired sessions are removed, and this one is not expired yet.
LeaveKeepsSelf(s) ==
  /\ pc[s] = "read" /\ closed[s]
  /\ pc' = [pc EXCEPT ![s] = "done"]
  /\ UNCHANGED <<up, room, rooms, closed, sent, taken, peers, todo, tgt, spoilt, got, rd>>

\* Fault: the room is erased with members left in it.
LeaveErasesRoom(s) ==
  /\ pc[s] = "read" /\ closed[s]
  /\ rooms' = Without(room[s])
  /\ pc' = [pc EXCEPT ![s] = "done"]
  /\ UNCHANGED <<up, room, closed, sent, taken, peers, todo, tgt, spoilt, got, rd>>

\* ws.read fails only on a closed connection; the session then removes itself
\* and the room with it when it was the last.  Frames not read yet are lost.
Leave(s) ==
  /\ pc[s] = "read" /\ closed[s]
  /\ LET rest == Alive(Registered(room[s])) \ {s} IN
       rooms' = IF room[s] \notin DOMAIN rooms THEN rooms
                ELSE IF rest = {} THEN Without(room[s])
                ELSE With(room[s], rest)
  /\ pc' = [pc EXCEPT ![s] = "done"]
  /\ UNCHANGED <<up, room, closed, sent, taken, peers, todo, tgt, spoilt, got, rd>>

-----------------------------------------------------------------------------
(* the clients' ends of the connections *)
ClientSend(s) ==
  /\ pc[s] \in {"upgraded"} \cup Loop /\ ~closed[s] /\ sent[s] < MaxSent[s]
  /\ sent' = [sent EXCEPT ![s] = @ + 1]
  /\ UNCHANGED <<up, pc, room, rooms, closed, taken, peers, todo, tgt, spoilt, got, rd>>

ClientRecv(s) ==
  /\ ~closed[s] /\ rd[s] < Len(got[s])
  /\ rd' = [rd EXCEPT ![s] = @ + 1]
  /\ UNCHANGED <<up, pc, room, rooms, closed, sent, taken, peers, todo, tgt, spoilt, got>>

ClientClose(s) ==
  /\ pc[s] \notin {"idle", "done"} /\ ~closed[s]
  /\ closed' = [closed EXCEPT ![s] = TRUE]
  /\ UNCHANGED <<up, pc, room, rooms, sent, taken, peers, todo, tgt, spoilt, got, rd>>

Thread(s) ==
  \/ Reply(s) \/ ReplyThrows(s) \/ Accept(s) \/ AcceptFails(s)
  \/ Register(s) \/ ReadFrame(s) \/ Collect(s) \/ (\E p \in Session : BeginWrite(s, p))
  \/ EndWrite(s) \/ WriteFails(s) \/ FanoutDone(s) \/ Leave(s)

Quiet == up /\ (\A s \in Session : pc[s] = "done") /\ UNCHANGED vars

Next ==
  \/ \E s \in Session : Connect(s) \/ Thread(s)
  \/ \E s \in Session : ClientSend(s) \/ ClientRecv(s) \/ ClientClose(s)
  \/ Restart
  \/ Quiet

Spec == Init /\ [][Next]_vars

\* The threads are scheduled, and a client reads what arrives; nobody need
\* connect, send or close.
Fairness ==
  /\ \A s \in Session : WF_vars(Thread(s)) /\ WF_vars(ClientRecv(s))
  /\ WF_vars(Restart)

FairSpec == Spec /\ Fairness

-----------------------------------------------------------------------------
(* Correctness *)

\* g_rooms is exactly the sessions inside do_run: nobody is left behind by an
\* early exit, nobody is dropped by another session's clean-up, no room
\* outlives its last session, and no weak_ptr in it is ever expired (the three
\* remove_if clean-ups never find anything but the session itself).
Registry ==
  /\ \A s \in Session : pc[s] \in Loop => /\ room[s] \in DOMAIN rooms
                                         /\ s \in rooms[room[s]]
  /\ \A r \in DOMAIN rooms :
       /\ rooms[r] # {}
       /\ \A s \in rooms[r] : room[s] = r /\ pc[s] \in Loop

\* Relaying stays inside a room and never echoes: whatever arrives at a client
\* came from another client that asked for the same room.
SameRoomOnly ==
  \A c \in Session : \A i \in 1 .. Len(got[c]) :
    /\ got[c][i].from # c
    /\ room[got[c][i].from] = room[c]

\* Although every session writes to its peers from its own thread, one
\* sender's frames reach one client in the order sent and at most once.
InOrder ==
  \A c \in Session : \A i, j \in 1 .. Len(got[c]) :
    (i < j /\ got[c][i].from = got[c][j].from) => got[c][i].n < got[c][j].n

\* Once a client has one frame of a sender it misses none of those up to the
\* last one it has: membership only begins and ends, it never lapses.
NoGaps ==
  \A c \in Session : \A i, j \in 1 .. Len(got[c]) :
    got[c][i].from = got[c][j].from =>
      \A n \in got[c][i].n .. got[c][j].n :
        \E k \in 1 .. Len(got[c]) : got[c][k].from = got[c][j].from /\ got[c][k].n = n

\* A session leaves the registry only when its connection is closed; another
\* session's write error, fan-out or exit never removes it.
OnlyClosedLeave ==
  [][\A r \in DOMAIN rooms : \A s \in rooms[r] :
       (r \in DOMAIN rooms' /\ s \in rooms'[r]) \/ closed'[s]]_vars

Has(c, s, n) == \E k \in 1 .. Len(got[c]) : got[c][k].from = s /\ got[c][k].n = n

\* Under fair threads and reading clients, a frame on its way to the relay
\* while c is a member of the room gets to c, unless one of the two
\* connections closes: no thread stays blocked in a write or on the lock.
FrameReachesMembers ==
  \A s, c \in Session : \A n \in 1 .. MaxSent[s] :
    (/\ pc[s] \in Loop /\ taken[s] < n /\ n <= sent[s]
     /\ c # s /\ c \in Registered(room[s]))
      ~> (Has(c, s, n) \/ closed[s] \/ closed[c])

\* A closed connection does not stay in its room, nor its thread in the
\* process.
ClosedLeave == \A s \in Session : closed[s] ~> pc[s] = "done"

\* What the repository says and the code does not do (each refuted by a run).

\* README.md: the relay "simply forwards frames by room".
FramesIntact ==
  \A c \in Session : \A i \in 1 .. Len(got[c]) : got[c][i].intact

\* relay_server.cpp, where http::read failed: "if (ec) { /* ignore */ }".  The
\* end of one do_http thread never closes anybody else's connection.
BadRequestIgnored ==
  [][\A s, t \in Session :
       (pc[s] = "http" /\ pc'[s] = "done" /\ t # s) => closed'[t] = closed[t]]_vars
=============================================================================
