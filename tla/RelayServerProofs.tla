------------------------- MODULE RelayServerProofs -------------------------
(***************************************************************************)
(* Theorems about RelayServer for any number of sessions and rooms and any *)
(* bounds.  The inductive invariant grows in parts, each proved with the   *)
(* help of the ones before it:                                             *)
(*   TypeOK      types and bounds                                          *)
(*   Registry    g_rooms holds exactly the sessions inside do_run          *)
(*   Targets     a fan-out only aims at other sessions of the same room    *)
(*   Progress    where a sender's frames stand against what has arrived    *)
(*   Reached     whoever is written to is in its room or closed            *)
(*   Complete    an open connection has all its sender's session has taken *)
(***************************************************************************)
EXTENDS RelayServer, TLAPS

\* Types and bounds survive every step: a session reads no frame that was not
\* sent (ws.read), and a connection never holds more than it has room for.
LEMMA TypeStep ==
  ASSUME TypeOK, [Next]_vars
  PROVE  TypeOK'
<1>. USE RelayAssumption DEF TypeOK, Loop
<1>1. ASSUME NEW s \in Session, NEW q \in {"http", "upgraded", "done"},
             pc' = [pc EXCEPT ![s] = q],
             UNCHANGED <<up, room, rooms, closed, sent, taken, peers, todo, tgt, spoilt, got, rd>>
      PROVE  TypeOK'
  BY <1>1
<1>2. ASSUME NEW s \in Session, ReplyThrows(s) PROVE TypeOK'
  BY <1>2 DEF ReplyThrows, Die
<1>3. CASE Restart
  BY <1>3 DEF Restart
<1>4. ASSUME NEW s \in Session, Register(s) PROVE TypeOK'
  BY <1>4 DEF Register, With, Alive, Registered
<1>5. ASSUME NEW s \in Session, ReadFrame(s) PROVE TypeOK'
  BY <1>5 DEF ReadFrame
<1>6. ASSUME NEW s \in Session, Collect(s) PROVE TypeOK'
  <2>1. Alive(Registered(room[s])) \subseteq Session
    BY DEF Alive, Registered
  <2>2. /\ DOMAIN rooms' \subseteq Room
        /\ rooms' \in [DOMAIN rooms' -> SUBSET Session]
    BY <1>6, <2>1 DEF Collect, With
  <2>3. /\ peers' \in [Session -> SUBSET Session]
        /\ todo' \in [Session -> SUBSET Session]
        /\ pc' \in [Session -> {"idle", "http", "upgraded", "done"} \cup Loop]
    BY <1>6, <2>1 DEF Collect
  <2>. QED
    BY <1>6, <2>2, <2>3 DEF Collect
<1>7. ASSUME NEW s \in Session, NEW p \in Session, BeginWrite(s, p) PROVE TypeOK'
  <2>1. spoilt' \subseteq Session
    BY <1>7 DEF BeginWrite, WritersTo
  <2>. QED
    BY <1>7, <2>1 DEF BeginWrite
<1>8. ASSUME NEW s \in Session, EndWrite(s) PROVE TypeOK'
  <2>. DEFINE p == tgt[s]
              f == [from |-> s, n |-> taken[s], intact |-> s \notin spoilt]
  <2>1. p \in Session /\ f \in Frame
    BY DEF Frame
  <2>2. got' = [got EXCEPT ![p] = Append(got[p], f)] /\ Len(got[p]) - rd[p] < SockBuf
    BY <1>8 DEF EndWrite
  <2>3. Append(got[p], f) \in Seq(Frame) /\ Len(Append(got[p], f)) = Len(got[p]) + 1
    BY <2>1
  <2>4. got' \in [Session -> Seq(Frame)]
    BY <2>1, <2>2, <2>3
  <2>5. \A c \in Session : rd[c] <= Len(got'[c]) /\ Len(got'[c]) - rd[c] <= SockBuf
    <3>. SUFFICES ASSUME NEW c \in Session
                  PROVE  rd[c] <= Len(got'[c]) /\ Len(got'[c]) - rd[c] <= SockBuf
      OBVIOUS
    <3>1. CASE c = p
      BY <2>1, <2>2, <2>3, <3>1
    <3>2. CASE c # p
      BY <2>1, <2>2, <3>2
    <3>. QED
      BY <3>1, <3>2
  <2>. QED
    BY <1>8, <2>4, <2>5 DEF EndWrite
<1>9. ASSUME NEW s \in Session, WriteFails(s) \/ FanoutDone(s) PROVE TypeOK'
  <2>1. CASE WriteFails(s)
    BY <2>1 DEF WriteFails
  <2>2. CASE FanoutDone(s)
    BY <2>2 DEF FanoutDone
  <2>. QED
    BY <1>9, <2>1, <2>2
<1>10. ASSUME NEW s \in Session, Leave(s) PROVE TypeOK'
  <2>1. Alive(Registered(room[s])) \ {s} \subseteq Session
    BY DEF Alive, Registered
  <2>2. /\ DOMAIN rooms' \subseteq Room
        /\ rooms' \in [DOMAIN rooms' -> SUBSET Session]
    BY <1>10, <2>1 DEF Leave, With, Without
  <2>. QED
    BY <1>10, <2>2 DEF Leave
<1>11. ASSUME NEW s \in Session, ClientSend(s) \/ ClientRecv(s) \/ ClientClose(s)
       PROVE  TypeOK'
  <2>1. CASE ClientSend(s)
    BY <2>1 DEF ClientSend
  <2>2. CASE ClientRecv(s)
    BY <2>2 DEF ClientRecv
  <2>3. CASE ClientClose(s)
    BY <2>3 DEF ClientClose
  <2>. QED
    BY <1>11, <2>1, <2>2, <2>3
<1>12. CASE UNCHANGED vars
  BY <1>12 DEF vars
<1>. QED
  BY <1>1, <1>2, <1>3, <1>4, <1>5, <1>6, <1>7, <1>8, <1>9, <1>10, <1>11, <1>12
     DEF Next, Thread, Quiet, Connect, Reply, Accept, AcceptFails

\* Types and bounds hold throughout, for every number of sessions and rooms.
THEOREM TypeCorrect == Spec => []TypeOK
<1>1. Init => TypeOK
  BY RelayAssumption DEF Init, TypeOK, Loop, Frame
<1>2. TypeOK /\ [Next]_vars => TypeOK'
  BY TypeStep
<1>. QED
  BY <1>1, <1>2, PTL DEF Spec

-----------------------------------------------------------------------------
\* The clean-ups of do_run that drop expired weak_ptrs find none: a session is
\* out of g_rooms before its last shared_ptr is released.
LEMMA NothingExpired ==
  ASSUME TypeOK, Registry, NEW r
  PROVE  Alive(Registered(r)) = Registered(r)
BY DEF Alive, Registered, Registry, Expired, Loop, TypeOK

\* A step that moves no session into or out of do_run and leaves g_rooms alone.
LEMMA RegistryFrame ==
  ASSUME Registry, UNCHANGED <<room, rooms>>,
         \A s \in Session : pc'[s] \in Loop <=> pc[s] \in Loop,
         \A r \in DOMAIN rooms : rooms[r] \subseteq Session
  PROVE  Registry'
BY DEF Registry

\* g_rooms is exactly the sessions inside do_run (registration, the fan-out's
\* clean-up and self removal, each under g_rooms_mtx), in every interleaving
\* and across relay crashes.
THEOREM RegistryCorrect == Spec => []Registry
<1>1. Init => Registry
  BY DEF Init, Registry, Loop
<1>2. TypeOK /\ Registry /\ [Next]_vars => Registry'
  <2>. SUFFICES ASSUME TypeOK, Registry, [Next]_vars PROVE Registry'
    OBVIOUS
  <2>0. \A r \in DOMAIN rooms : rooms[r] \subseteq Session
    BY DEF TypeOK
  <2>1. ASSUME NEW s \in Session, NEW q \in {"http", "upgraded", "done"},
               pc[s] \notin Loop, pc' = [pc EXCEPT ![s] = q], UNCHANGED <<room, rooms>>
        PROVE  Registry'
    BY <2>0, <2>1, RegistryFrame DEF TypeOK, Loop
  <2>2. ASSUME NEW s \in Session, NEW q \in Loop,
               pc[s] \in Loop, pc' = [pc EXCEPT ![s] = q], UNCHANGED <<room, rooms>>
        PROVE  Registry'
    BY <2>0, <2>2, RegistryFrame DEF TypeOK, Loop
  <2>3. CASE UNCHANGED <<pc, room, rooms>>
    BY <2>0, <2>3, RegistryFrame
  <2>4. ASSUME NEW s \in Session, Connect(s) \/ Reply(s) \/ Accept(s) \/ AcceptFails(s)
        PROVE  Registry'
    BY <2>4, <2>1 DEF Connect, Reply, Accept, AcceptFails, Loop
  <2>5. ASSUME NEW s \in Session, ReplyThrows(s) PROVE Registry'
    BY <2>5 DEF ReplyThrows, Die, Registry, TypeOK, Loop
  <2>6. ASSUME NEW s \in Session, Register(s) PROVE Registry'
    <3>. DEFINE S == Registered(room[s]) \cup {s}
    <3>1. /\ rooms' = With(room[s], S) /\ UNCHANGED room
          /\ pc' = [pc EXCEPT ![s] = "read"] /\ pc[s] \notin Loop
      BY <2>6, NothingExpired DEF Register, Loop
    <3>2. /\ DOMAIN rooms' = DOMAIN rooms \cup {room[s]}
          /\ rooms'[room[s]] = S
          /\ \A q \in DOMAIN rooms : q # room[s] => rooms'[q] = rooms[q]
      BY <3>1 DEF With
    <3>3. \A t \in Session : pc'[t] \in Loop <=> (pc[t] \in Loop \/ t = s)
      BY <3>1 DEF TypeOK, Loop
    <3>4. \A t \in Session : pc'[t] \in Loop => room'[t] \in DOMAIN rooms' /\ t \in rooms'[room'[t]]
      BY <3>1, <3>2, <3>3 DEF Registry, Registered
    <3>5. \A r \in DOMAIN rooms' : /\ rooms'[r] # {}
                                  /\ \A t \in rooms'[r] : room'[t] = r /\ pc'[t] \in Loop
      <4>. SUFFICES ASSUME NEW r \in DOMAIN rooms'
                    PROVE  /\ rooms'[r] # {}
                           /\ \A t \in rooms'[r] : room'[t] = r /\ pc'[t] \in Loop
        OBVIOUS
      <4>1. CASE r = room[s]
        <5>1. \A t \in Registered(r) : t \in Session /\ room[t] = r /\ pc[t] \in Loop
          BY <2>0 DEF Registry, Registered
        <5>. QED
          BY <3>1, <3>2, <3>3, <4>1, <5>1
      <4>2. CASE r # room[s]
        BY <3>1, <3>2, <3>3, <4>2, <2>0 DEF Registry
      <4>. QED
        BY <4>1, <4>2
    <3>. QED
      BY <3>4, <3>5 DEF Registry
  <2>7. ASSUME NEW s \in Session,
               ReadFrame(s) \/ EndWrite(s) \/ WriteFails(s) \/ FanoutDone(s)
        PROVE  Registry'
    BY <2>7, <2>2 DEF ReadFrame, EndWrite, WriteFails, FanoutDone, Loop
  <2>8. ASSUME NEW s \in Session, NEW p \in Session, BeginWrite(s, p) PROVE Registry'
    BY <2>8, <2>2 DEF BeginWrite, Loop
  <2>9. ASSUME NEW s \in Session, Collect(s) PROVE Registry'
    <3>1. room[s] \in DOMAIN rooms
      BY <2>9 DEF Collect, Registry, Loop
    <3>2. rooms' = With(room[s], Registered(room[s]))
      BY <2>9, <3>1, NothingExpired DEF Collect
    <3>3. rooms' = rooms
      BY <3>1, <3>2 DEF With, Registered, TypeOK
    <3>. QED
      BY <2>9, <3>3, <2>2 DEF Collect, Loop
  <2>10. ASSUME NEW s \in Session, Leave(s) PROVE Registry'
    <3>. DEFINE rest == Registered(room[s]) \ {s}
    <3>1. room[s] \in DOMAIN rooms /\ UNCHANGED room /\ pc' = [pc EXCEPT ![s] = "done"]
      BY <2>10 DEF Leave, Registry, Loop
    <3>2. rooms' = IF rest = {} THEN Without(room[s]) ELSE With(room[s], rest)
      BY <2>10, <3>1, NothingExpired DEF Leave
    <3>3. CASE rest = {}
      BY <3>1, <3>2, <3>3, <2>0 DEF Without, Registered, Registry, TypeOK, Loop
    <3>4. CASE rest # {}
      <4>1. /\ DOMAIN rooms' = DOMAIN rooms
            /\ rooms'[room[s]] = rooms[room[s]] \ {s}
            /\ \A q \in DOMAIN rooms : q # room[s] => rooms'[q] = rooms[q]
        BY <3>1, <3>2, <3>4 DEF With, Registered
      <4>2. \A t \in Session : pc'[t] \in Loop <=> (pc[t] \in Loop /\ t # s)
        BY <3>1 DEF TypeOK, Loop
      <4>3. rooms'[room[s]] # {}
        BY <3>1, <3>4, <4>1 DEF Registered
      <4>. QED
        BY <3>1, <4>1, <4>2, <4>3, <2>0 DEF Registry
    <3>. QED
      BY <3>3, <3>4
  <2>11. ASSUME NEW s \in Session, ClientSend(s) \/ ClientRecv(s) \/ ClientClose(s)
         PROVE  Registry'
    BY <2>11, <2>3 DEF ClientSend, ClientRecv, ClientClose
  <2>12. CASE Restart \/ UNCHANGED vars
    BY <2>12, <2>3 DEF Restart, vars
  <2>. QED
    BY <2>4, <2>5, <2>6, <2>7, <2>8, <2>9, <2>10, <2>11, <2>12 DEF Next, Thread, Quiet
<1>. QED
  BY <1>1, <1>2, TypeCorrect, PTL DEF Spec

\* A session leaves the registry only when its connection is closed, so no
\* write error and no other session's exit can remove a live member.
THEOREM LeavingIsClosing == Spec => OnlyClosedLeave
<1>. DEFINE Keep == \A r \in DOMAIN rooms : \A s \in rooms[r] :
                      (r \in DOMAIN rooms' /\ s \in rooms'[r]) \/ closed'[s]
<1>1. TypeOK /\ Registry /\ Registry' /\ [Next]_vars => [Keep]_vars
  <2>. SUFFICES ASSUME TypeOK, Registry, Registry', Next,
                       NEW r \in DOMAIN rooms, NEW t \in rooms[r], ~closed'[t]
                PROVE  r \in DOMAIN rooms' /\ t \in rooms'[r]
    BY DEF vars
  <2>1. t \in Session /\ pc[t] \in Loop /\ room[t] = r
    BY DEF Registry, TypeOK
  <2>2. CASE pc'[t] \in Loop /\ room' = room
    BY <2>1, <2>2 DEF Registry
  <2>3. CASE UNCHANGED <<pc, room>>
    BY <2>1, <2>2, <2>3
  <2>4. ASSUME NEW s \in Session, NEW q \in Loop, pc' = [pc EXCEPT ![s] = q], room' = room
        PROVE  r \in DOMAIN rooms' /\ t \in rooms'[r]
    BY <2>1, <2>2, <2>4 DEF TypeOK, Loop
  <2>5. ASSUME NEW s \in Session, NEW q, pc' = [pc EXCEPT ![s] = q], room' = room,
               pc[s] \notin Loop
        PROVE  r \in DOMAIN rooms' /\ t \in rooms'[r]
    BY <2>1, <2>2, <2>5 DEF TypeOK, Loop
  <2>6. ASSUME NEW s \in Session, ReplyThrows(s)
        PROVE  r \in DOMAIN rooms' /\ t \in rooms'[r]
    <3>1. closed'[t]
      BY <2>1, <2>6 DEF ReplyThrows, Die, Loop
    <3>. QED
      BY <3>1
  <2>7. ASSUME NEW s \in Session, Leave(s)
        PROVE  r \in DOMAIN rooms' /\ t \in rooms'[r]
    <3>1. t # s
      BY <2>7 DEF Leave
    <3>. QED
      BY <2>1, <2>2, <2>7, <3>1 DEF Leave, TypeOK
  <2>8. ASSUME NEW s \in Session, Thread(s)
        PROVE  r \in DOMAIN rooms' /\ t \in rooms'[r]
    <3>1. CASE Reply(s) \/ Accept(s) \/ AcceptFails(s) \/ Register(s)
      BY <3>1, <2>5 DEF Reply, Accept, AcceptFails, Register, Loop
    <3>2. CASE ReadFrame(s) \/ Collect(s) \/ (\E p \in Session : BeginWrite(s, p))
                 \/ EndWrite(s) \/ WriteFails(s) \/ FanoutDone(s)
      BY <3>2, <2>4 DEF ReadFrame, Collect, BeginWrite, EndWrite, WriteFails, FanoutDone, Loop
    <3>. QED
      BY <2>8, <2>6, <2>7, <3>1, <3>2 DEF Thread
  <2>9. ASSUME NEW s \in Session, Connect(s)
        PROVE  r \in DOMAIN rooms' /\ t \in rooms'[r]
    BY <2>9, <2>5 DEF Connect, Loop
  <2>. QED
    BY <2>3, <2>8, <2>9
       DEF Next, ClientSend, ClientRecv, ClientClose, Restart, Quiet, vars
<1>. QED
  BY <1>1, TypeCorrect, RegistryCorrect, PTL DEF Spec, OnlyClosedLeave

-----------------------------------------------------------------------------
\* What EndWrite does to what has arrived, position by position.
LEMMA EndWriteAppends ==
  ASSUME TypeOK, NEW s \in Session, EndWrite(s), NEW c \in Session
  PROVE  /\ c # tgt[s] => got'[c] = got[c]
         /\ c = tgt[s] => /\ Len(got'[c]) = Len(got[c]) + 1
                          /\ got'[c][Len(got[c]) + 1].from = s
                          /\ got'[c][Len(got[c]) + 1].n = taken[s]
                          /\ \A i \in 1 .. Len(got[c]) : got'[c][i] = got[c][i]
<1>. DEFINE f == [from |-> s, n |-> taken[s], intact |-> s \notin spoilt]
<1>1. f \in Frame /\ tgt[s] \in Session /\ got \in [Session -> Seq(Frame)]
  BY DEF TypeOK, Frame
<1>2. got' = [got EXCEPT ![tgt[s]] = Append(got[tgt[s]], f)]
  BY DEF EndWrite
<1>3. f.from = s /\ f.n = taken[s]
  OBVIOUS
<1>. HIDE DEF f
<1>4. c = tgt[s] => got'[c] = Append(got[c], f)
  BY <1>1, <1>2
<1>5. got[c] \in Seq(Frame)
  BY <1>1
<1>. QED
  BY <1>1, <1>2, <1>3, <1>4, <1>5

\* A position of what has arrived after EndWrite is an old one or the new one.
LEMMA EndWritePosition ==
  ASSUME TypeOK, NEW s \in Session, EndWrite(s), NEW c \in Session,
         NEW i \in 1 .. Len(got'[c])
  PROVE  \/ i \in 1 .. Len(got[c]) /\ got'[c][i] = got[c][i]
         \/ /\ c = tgt[s] /\ i = Len(got[c]) + 1
            /\ got'[c][i].from = s /\ got'[c][i].n = taken[s]
<1>1. Len(got[c]) \in Nat
  BY DEF TypeOK
<1>2. c # tgt[s] => got'[c] = got[c]
  BY EndWriteAppends
<1>3. c = tgt[s] => /\ Len(got'[c]) = Len(got[c]) + 1
                    /\ got'[c][Len(got[c]) + 1].from = s
                    /\ got'[c][Len(got[c]) + 1].n = taken[s]
                    /\ \A j \in 1 .. Len(got[c]) : got'[c][j] = got[c][j]
  BY EndWriteAppends
<1>. QED
  BY <1>1, <1>2, <1>3

\* A fan-out only aims at other sessions of the sender's room.
Targets ==
  \A s \in Session :
    /\ \A p \in todo[s] : p # s /\ room[p] = room[s]
    /\ pc[s] = "write" => tgt[s] # s /\ room[tgt[s]] = room[s]

\* The two together are invariant: the snapshot of the fan-out is taken from
\* g_rooms[room] and skips the sender.
LEMMA TargetsHold == Spec => [](Targets /\ SameRoomOnly)
<1>1. Init => Targets /\ SameRoomOnly
  BY DEF Init, Targets, SameRoomOnly
<1>2. TypeOK /\ Registry /\ Targets /\ SameRoomOnly /\ [Next]_vars => (Targets /\ SameRoomOnly)'
  <2>. SUFFICES ASSUME TypeOK, Registry, Targets, SameRoomOnly, [Next]_vars
                PROVE  Targets' /\ SameRoomOnly'
    OBVIOUS
  <2>0. room' = room
    BY DEF Next, vars, Connect, Thread, Reply, ReplyThrows, Die, Accept, AcceptFails, Register,
           ReadFrame, Collect, BeginWrite, EndWrite, WriteFails, FanoutDone, Leave,
           ClientSend, ClientRecv, ClientClose, Restart, Quiet
  <2>1. CASE got' = got
    <3>1. SameRoomOnly'
      BY <2>0, <2>1 DEF SameRoomOnly
    <3>2. ASSUME UNCHANGED <<todo, tgt>>,
                 \A t \in Session : pc'[t] = "write" => pc[t] = "write"
          PROVE  Targets'
      BY <2>0, <3>2 DEF Targets
    <3>3. ASSUME NEW s \in Session, Connect(s) \/ Reply(s) \/ Accept(s) \/ AcceptFails(s)
                   \/ Register(s) \/ ReadFrame(s) \/ WriteFails(s) \/ FanoutDone(s) \/ Leave(s)
          PROVE  Targets'
      BY <3>2, <3>3 DEF Connect, Reply, Accept, AcceptFails, Register, ReadFrame, WriteFails,
                        FanoutDone, Leave, TypeOK, Loop
    <3>4. ASSUME NEW s \in Session, ReplyThrows(s) PROVE Targets'
      BY <2>0, <3>4 DEF ReplyThrows, Die, Targets
    <3>5. ASSUME NEW s \in Session, Collect(s) PROVE Targets'
      <4>1. todo' = [todo EXCEPT ![s] = Registered(room[s]) \ {s}]
        BY <3>5, NothingExpired DEF Collect
      <4>2. \A p \in Registered(room[s]) : p \in Session /\ room[p] = room[s]
        BY DEF Registered, Registry, TypeOK
      <4>. QED
        BY <2>0, <3>5, <4>1, <4>2 DEF Collect, Targets, TypeOK, Loop
    <3>6. ASSUME NEW s \in Session, NEW p \in Session, BeginWrite(s, p) PROVE Targets'
      BY <2>0, <3>6 DEF BeginWrite, Targets, TypeOK, Loop
    <3>7. ASSUME NEW s \in Session, EndWrite(s) PROVE Targets'
      BY <3>2, <3>7 DEF EndWrite, TypeOK, Loop
    <3>8. ASSUME NEW s \in Session, ClientSend(s) \/ ClientRecv(s) \/ ClientClose(s)
          PROVE  Targets'
      BY <3>2, <3>8 DEF ClientSend, ClientRecv, ClientClose
    <3>9. CASE Restart \/ UNCHANGED vars
      <4>1. UNCHANGED <<pc, todo, tgt>>
        BY <3>9 DEF Restart, vars
      <4>. QED
        BY <2>0, <3>1, <4>1 DEF Targets
    <3>. QED
      BY <3>1, <3>3, <3>4, <3>5, <3>6, <3>7, <3>8, <3>9 DEF Next, Thread, Quiet
  <2>2. ASSUME NEW s \in Session, EndWrite(s) PROVE Targets' /\ SameRoomOnly'
    <3>1. Targets'
      BY <2>0, <2>2 DEF EndWrite, Targets, TypeOK, Loop
    <3>2. tgt[s] # s /\ room[tgt[s]] = room[s]
      BY <2>2 DEF EndWrite, Targets
    <3>3. SameRoomOnly'
      <4>. SUFFICES ASSUME NEW c \in Session, NEW i \in 1 .. Len(got'[c])
                    PROVE  got'[c][i].from # c /\ room[got'[c][i].from] = room[c]
        BY <2>0 DEF SameRoomOnly
      <4>1. CASE i \in 1 .. Len(got[c]) /\ got'[c][i] = got[c][i]
        BY <4>1 DEF SameRoomOnly
      <4>2. CASE c = tgt[s] /\ got'[c][i].from = s
        BY <3>2, <4>2
      <4>. QED
        BY <2>2, <4>1, <4>2, EndWritePosition
    <3>. QED
      BY <3>1, <3>3
  <2>3. got' = got \/ \E s \in Session : EndWrite(s)
    BY DEF Next, vars, Connect, Thread, Reply, ReplyThrows, Die, Accept, AcceptFails, Register,
           ReadFrame, Collect, BeginWrite, WriteFails, FanoutDone, Leave,
           ClientSend, ClientRecv, ClientClose, Restart, Quiet
  <2>. QED
    BY <2>1, <2>2, <2>3
<1>. QED
  BY <1>1, <1>2, TypeCorrect, RegistryCorrect, PTL DEF Spec
\* Relaying stays inside a room and never echoes.
THEOREM RoomsAreSeparate == Spec => []SameRoomOnly
BY TargetsHold, PTL

-----------------------------------------------------------------------------
\* The frame s has taken last has not been dealt with for c yet.
Delivering(s, c) ==
  \/ pc[s] = "collect"
  \/ pc[s] \in {"fanout", "write"} /\ c \in todo[s]
  \/ pc[s] = "write" /\ c = tgt[s]

\* A peer being written to is not due for another write of the same frame.
OneWriteEach == \A s \in Session : pc[s] = "write" => tgt[s] \notin todo[s]

\* What has arrived stays behind what its sender has taken, strictly so where
\* the last frame is still to come.
Behind ==
  \A c \in Session : \A i \in 1 .. Len(got[c]) :
    /\ got[c][i].from \in Session /\ got[c][i].n \in Nat
    /\ got[c][i].n <= taken[got[c][i].from]
    /\ Delivering(got[c][i].from, c) => got[c][i].n < taken[got[c][i].from]

Progress == OneWriteEach /\ Behind

\* Steps other than EndWrite leave what has arrived alone.
LEMMA OnlyEndWriteDelivers ==
  ASSUME [Next]_vars
  PROVE  got' = got \/ \E s \in Session : EndWrite(s)
BY DEF Next, vars, Connect, Thread, Reply, ReplyThrows, Die, Accept, AcceptFails, Register,
       ReadFrame, Collect, BeginWrite, WriteFails, FanoutDone, Leave,
       ClientSend, ClientRecv, ClientClose, Restart, Quiet

\* A step that delivers nothing makes no frame due again: only reading a new
\* one does.
LEMMA DueAgain ==
  ASSUME TypeOK, [Next]_vars, got' = got, OneWriteEach,
         NEW s \in Session, NEW c \in Session
  PROVE  /\ taken'[s] >= taken[s]
         /\ Delivering(s, c)' => Delivering(s, c) \/ taken'[s] > taken[s]
         /\ OneWriteEach'
<1>. DEFINE Goal == /\ taken'[s] >= taken[s]
                    /\ Delivering(s, c)' => Delivering(s, c) \/ taken'[s] > taken[s]
                    /\ OneWriteEach'
<1>. USE DEF Delivering, OneWriteEach, TypeOK, Loop
<1>0. ASSUME NEW t \in Session, NEW q \in {"http", "upgraded", "done", "read"},
             pc' = [pc EXCEPT ![t] = q], UNCHANGED <<taken, todo, tgt>>
      PROVE  Goal
  BY <1>0
<1>1. ASSUME NEW t \in Session, Connect(t) \/ Reply(t) \/ Accept(t) \/ AcceptFails(t)
               \/ Register(t) \/ FanoutDone(t) \/ Leave(t)
      PROVE  Goal
  BY <1>1, <1>0 DEF Connect, Reply, Accept, AcceptFails, Register, FanoutDone, Leave
<1>2. ASSUME NEW t \in Session, ReplyThrows(t) PROVE Goal
  BY <1>2 DEF ReplyThrows, Die
<1>3. ASSUME NEW t \in Session, ReadFrame(t) PROVE Goal
  BY <1>3 DEF ReadFrame
<1>4. ASSUME NEW t \in Session, Collect(t) PROVE Goal
  BY <1>4 DEF Collect
<1>5. ASSUME NEW t \in Session, NEW p \in Session, BeginWrite(t, p) PROVE Goal
  <2>1. /\ p \in todo[t] /\ pc[t] = "fanout" /\ taken' = taken
        /\ pc' = [pc EXCEPT ![t] = "write"]
        /\ tgt' = [tgt EXCEPT ![t] = p]
        /\ todo' = [todo EXCEPT ![t] = @ \ {p}]
    BY <1>5 DEF BeginWrite
  <2>2. OneWriteEach'
    BY <2>1
  <2>3. Delivering(s, c)' => Delivering(s, c)
    <3>1. CASE s = t
      BY <2>1, <3>1
    <3>2. CASE s # t
      BY <2>1, <3>2
    <3>. QED
      BY <3>1, <3>2
  <2>4. taken'[s] >= taken[s]
    BY <2>1
  <2>. HIDE DEF Delivering, OneWriteEach, TypeOK
  <2>. QED
    BY <2>2, <2>3, <2>4
<1>6. ASSUME NEW t \in Session, WriteFails(t) PROVE Goal
  BY <1>6 DEF WriteFails
<1>7. ASSUME NEW t \in Session, EndWrite(t) PROVE Goal
  BY <1>7 DEF EndWrite
<1>8. ASSUME NEW t \in Session, ClientSend(t) \/ ClientRecv(t) \/ ClientClose(t) PROVE Goal
  BY <1>8 DEF ClientSend, ClientRecv, ClientClose
<1>9. CASE Restart \/ UNCHANGED vars
  BY <1>9 DEF Restart, vars
<1>. QED
  BY <1>1, <1>2, <1>3, <1>4, <1>5, <1>6, <1>7, <1>8, <1>9 DEF Next, Thread, Quiet

\* Progress and order are invariant: each session's fan-out is finished before
\* its next ws.read.
LEMMA ProgressHolds == Spec => [](Progress /\ InOrder)
<1>1. Init => Progress /\ InOrder
  BY DEF Init, Progress, OneWriteEach, Behind, InOrder
<1>2. TypeOK /\ Progress /\ InOrder /\ [Next]_vars => (Progress /\ InOrder)'
  <2>. SUFFICES ASSUME TypeOK, Progress, InOrder, [Next]_vars
                PROVE  Progress' /\ InOrder'
    OBVIOUS
  <2>. USE DEF Progress
  <2>1. CASE got' = got
    <3>1. InOrder'
      BY <2>1 DEF InOrder
    <3>2. OneWriteEach'
      <4>1. CASE Session = {}
        BY <4>1 DEF OneWriteEach
      <4>2. ASSUME NEW s \in Session PROVE OneWriteEach'
        BY <2>1, DueAgain
      <4>. QED
        BY <4>1, <4>2
    <3>3. ASSUME NEW c \in Session, NEW i \in 1 .. Len(got[c])
          PROVE  /\ got[c][i].from \in Session /\ got[c][i].n \in Nat
                 /\ got[c][i].n <= taken'[got[c][i].from]
                 /\ Delivering(got[c][i].from, c)' => got[c][i].n < taken'[got[c][i].from]
      <4>. DEFINE s == got[c][i].from
      <4>1. /\ s \in Session /\ got[c][i].n \in Nat /\ got[c][i].n <= taken[s]
            /\ Delivering(s, c) => got[c][i].n < taken[s]
        BY DEF Behind
      <4>2. /\ taken'[s] >= taken[s]
            /\ Delivering(s, c)' => Delivering(s, c) \/ taken'[s] > taken[s]
        BY <2>1, <4>1, DueAgain
      <4>3. taken[s] \in Nat /\ taken'[s] \in Nat
        BY <4>1, TypeStep DEF TypeOK
      <4>. QED
        BY <4>1, <4>2, <4>3
    <3>4. Behind'
      BY <2>1, <3>3 DEF Behind
    <3>. QED
      BY <3>1, <3>2, <3>4
  <2>2. ASSUME NEW s \in Session, EndWrite(s) PROVE Progress' /\ InOrder'
    <3>. DEFINE p == tgt[s]
    <3>1. /\ pc[s] = "write" /\ pc' = [pc EXCEPT ![s] = "fanout"]
          /\ UNCHANGED <<taken, todo, tgt>> /\ p \in Session /\ taken[s] \in Nat
      BY <2>2 DEF EndWrite, TypeOK
    <3>2. OneWriteEach' /\ p \notin todo[s]
      BY <3>1 DEF OneWriteEach, TypeOK
    <3>3. \A t, c \in Session : Delivering(t, c)' => Delivering(t, c)
      BY <3>1 DEF Delivering, TypeOK
    <3>4. ~Delivering(s, p)' /\ Delivering(s, p)
      BY <3>1, <3>2 DEF Delivering, TypeOK
    <3>5. Behind'
      <4>. SUFFICES ASSUME NEW c \in Session, NEW i \in 1 .. Len(got'[c])
                    PROVE  (/\ got[c][i].from \in Session /\ got[c][i].n \in Nat
                            /\ got[c][i].n <= taken[got[c][i].from]
                            /\ Delivering(got[c][i].from, c)
                                 => got[c][i].n < taken[got[c][i].from])'
        BY DEF Behind
      <4>1. CASE i \in 1 .. Len(got[c]) /\ got'[c][i] = got[c][i]
        BY <3>1, <3>3, <4>1 DEF Behind, Delivering
      <4>2. CASE c = p /\ got'[c][i].from = s /\ got'[c][i].n = taken[s]
        BY <3>1, <3>4, <4>2 DEF Delivering
      <4>. QED
        BY <2>2, <4>1, <4>2, EndWritePosition
    <3>6. InOrder'
      <4>. SUFFICES ASSUME NEW c \in Session,
                           NEW i \in 1 .. Len(got'[c]), NEW j \in 1 .. Len(got'[c]),
                           i < j, got'[c][i].from = got'[c][j].from
                    PROVE  got'[c][i].n < got'[c][j].n
        BY DEF InOrder
      <4>1. Len(got[c]) \in Nat /\ Len(got'[c]) \in Nat
        BY TypeStep DEF TypeOK
      <4>2. CASE i \in 1 .. Len(got[c]) /\ got'[c][i] = got[c][i]
                   /\ j \in 1 .. Len(got[c]) /\ got'[c][j] = got[c][j]
        BY <4>2 DEF InOrder
      <4>3. CASE i \in 1 .. Len(got[c]) /\ got'[c][i] = got[c][i]
                   /\ c = p /\ got'[c][j].from = s /\ got'[c][j].n = taken[s]
        BY <3>4, <4>3 DEF Behind
      <4>4. i \in 1 .. Len(got[c]) \/ i = Len(got'[c])
        BY <4>1, <2>2, EndWritePosition, EndWriteAppends
      <4>5. i \in 1 .. Len(got[c]) /\ got'[c][i] = got[c][i]
        BY <4>1, <2>2, EndWritePosition, EndWriteAppends
      <4>. QED
        BY <2>2, <4>2, <4>3, <4>5, EndWritePosition
    <3>. QED
      BY <3>2, <3>5, <3>6
  <2>. QED
    BY <2>1, <2>2, OnlyEndWriteDelivers
<1>. QED
  BY <1>1, <1>2, TypeCorrect, PTL DEF Spec

\* One sender's frames reach one client in the order sent and at most once.
THEOREM OrderKept == Spec => []InOrder
BY ProgressHolds, PTL

-----------------------------------------------------------------------------
InOrClosed(c) == pc[c] \in Loop \/ closed[c]

\* Whoever is written to, or has been, is in its room or closed.
Reached ==
  \A c \in Session :
    /\ got[c] # <<>> => InOrClosed(c)
    /\ \A s \in Session : c \in todo[s] \/ (pc[s] = "write" /\ c = tgt[s]) => InOrClosed(c)

\* From its first frame of a sender on, an open connection has had all that the
\* sender's session has taken, except the last one while it is on its way.
Complete ==
  \A c, s \in Session : ~closed[c] =>
    \A i \in 1 .. Len(got[c]) : got[c][i].from = s =>
      \A m \in got[c][i].n .. taken[s] :
        Has(c, s, m) \/ (m = taken[s] /\ Delivering(s, c))

\* A connection that is closed stays closed.
LEMMA ClosedStays ==
  ASSUME TypeOK, [Next]_vars, NEW c \in Session, closed[c]
  PROVE  closed'[c]
<1>1. ASSUME NEW s \in Session, ReplyThrows(s) PROVE closed'[c]
  BY <1>1 DEF ReplyThrows, Die
<1>2. ASSUME NEW s \in Session, ClientClose(s) PROVE closed'[c]
  BY <1>2 DEF ClientClose, TypeOK
<1>3. \/ closed' = closed
      \/ \E s \in Session : ReplyThrows(s) \/ ClientClose(s)
  BY DEF Next, vars, Connect, Thread, Reply, Accept, AcceptFails, Register, ReadFrame, Collect,
         BeginWrite, EndWrite, WriteFails, FanoutDone, Leave, ClientSend, ClientRecv, Restart, Quiet
<1>. QED
  BY <1>1, <1>2, <1>3

\* A registered session stays so until it is closed, and closed for good.
LEMMA StaysUntilClosed ==
  ASSUME TypeOK, [Next]_vars, NEW c \in Session, InOrClosed(c)
  PROVE  InOrClosed(c)'
<1>. USE DEF InOrClosed, TypeOK, Loop
<1>1. ASSUME NEW s \in Session, NEW q, pc' = [pc EXCEPT ![s] = q], closed' = closed,
             pc[s] \in Loop => q \in Loop
      PROVE  InOrClosed(c)'
  BY <1>1
<1>2. ASSUME NEW s \in Session, Connect(s) \/ Reply(s) \/ Accept(s) \/ AcceptFails(s) \/ Register(s)
      PROVE  InOrClosed(c)'
  BY <1>2 DEF Connect, Reply, Accept, AcceptFails, Register
<1>3. ASSUME NEW s \in Session, ReplyThrows(s) PROVE InOrClosed(c)'
  BY <1>3 DEF ReplyThrows, Die
<1>4. ASSUME NEW s \in Session, ReadFrame(s) \/ Collect(s) \/ (\E p \in Session : BeginWrite(s, p))
               \/ EndWrite(s) \/ WriteFails(s) \/ FanoutDone(s)
      PROVE  InOrClosed(c)'
  BY <1>1, <1>4 DEF ReadFrame, Collect, BeginWrite, EndWrite, WriteFails, FanoutDone
<1>5. ASSUME NEW s \in Session, Leave(s) PROVE InOrClosed(c)'
  BY <1>5 DEF Leave
<1>6. ASSUME NEW s \in Session, ClientSend(s) \/ ClientRecv(s) \/ ClientClose(s)
      PROVE  InOrClosed(c)'
  BY <1>6 DEF ClientSend, ClientRecv, ClientClose
<1>7. CASE Restart \/ UNCHANGED vars
  BY <1>7 DEF Restart, vars
<1>. QED
  BY <1>2, <1>3, <1>4, <1>5, <1>6, <1>7 DEF Next, Thread, Quiet

\* Who is written to in the next state was written to in this one, or is
\* registered: Collect only looks into g_rooms.
LEMMA ReachedStep ==
  ASSUME TypeOK, Registry, Reached, [Next]_vars, Targets
  PROVE  Reached'
<1>1. \A c \in Session : InOrClosed(c) => InOrClosed(c)'
  BY StaysUntilClosed
<1>. DEFINE Due(c) == \E s \in Session : c \in todo[s] \/ (pc[s] = "write" /\ c = tgt[s])
<1>2. ASSUME NEW c \in Session, Due(c)' PROVE Due(c) \/ InOrClosed(c)
  <2>. DEFINE Goal == Due(c) \/ InOrClosed(c)
  <2>. USE <1>2 DEF TypeOK
  <2>1. ASSUME NEW s \in Session, Connect(s) \/ Reply(s) \/ Accept(s) \/ AcceptFails(s)
                 \/ Register(s) \/ ReadFrame(s) \/ EndWrite(s) \/ WriteFails(s)
                 \/ FanoutDone(s) \/ Leave(s)
        PROVE  Goal
    <3>1. /\ UNCHANGED <<todo, tgt>>
          /\ \E q \in {"http", "upgraded", "done", "read", "collect", "fanout"} :
               pc' = [pc EXCEPT ![s] = q]
      BY <2>1 DEF Connect, Reply, Accept, AcceptFails, Register, ReadFrame, EndWrite,
                  WriteFails, FanoutDone, Leave
    <3>. QED
      BY <3>1
  <2>2. ASSUME NEW s \in Session, ReplyThrows(s) PROVE Goal
    BY <2>2 DEF ReplyThrows, Die
  <2>3. ASSUME NEW s \in Session, Collect(s) PROVE Goal
    <3>1. /\ todo' = [todo EXCEPT ![s] = Registered(room[s]) \ {s}] /\ tgt' = tgt
          /\ pc' = [pc EXCEPT ![s] = "fanout"]
      BY <2>3, NothingExpired DEF Collect
    <3>2. c \in Registered(room[s]) => pc[c] \in Loop
      BY DEF Registered, Registry
    <3>. QED
      BY <3>1, <3>2 DEF InOrClosed
  <2>4. ASSUME NEW s \in Session, NEW p \in Session, BeginWrite(s, p) PROVE Goal
    BY <2>4 DEF BeginWrite
  <2>5. ASSUME NEW s \in Session, ClientSend(s) \/ ClientRecv(s) \/ ClientClose(s) PROVE Goal
    BY <2>5 DEF ClientSend, ClientRecv, ClientClose
  <2>6. CASE Restart \/ UNCHANGED vars
    BY <2>6 DEF Restart, vars
  <2>. QED
    BY <2>1, <2>2, <2>3, <2>4, <2>5, <2>6 DEF Next, Thread, Quiet
<1>3. ASSUME NEW c \in Session, (got[c] # <<>>)' PROVE InOrClosed(c)
  <2>1. CASE got' = got
    BY <1>3, <2>1 DEF Reached
  <2>2. ASSUME NEW s \in Session, EndWrite(s) PROVE InOrClosed(c)
    <3>1. CASE c = tgt[s]
      BY <2>2, <3>1 DEF EndWrite, Reached
    <3>2. CASE c # tgt[s]
      BY <1>3, <2>2, <3>2, EndWriteAppends DEF Reached
    <3>. QED
      BY <3>1, <3>2
  <2>. QED
    BY <2>1, <2>2, OnlyEndWriteDelivers
<1>4. ASSUME NEW c \in Session PROVE (got[c] # <<>> \/ Due(c) => InOrClosed(c))'
  BY <1>1, <1>2, <1>3 DEF Reached
<1>. QED
  BY <1>4 DEF Reached

\* Only ws.read takes a frame, and it makes it due for everybody.
LEMMA TakenStep ==
  ASSUME TypeOK, [Next]_vars, NEW s \in Session
  PROVE  \/ taken'[s] = taken[s]
         \/ pc[s] = "read" /\ pc'[s] = "collect" /\ taken'[s] = taken[s] + 1
<1>1. taken' = taken \/ \E t \in Session : ReadFrame(t)
  BY DEF Next, vars, Connect, Thread, Reply, ReplyThrows, Die, Accept, AcceptFails, Register,
         Collect, BeginWrite, EndWrite, WriteFails, FanoutDone, Leave,
         ClientSend, ClientRecv, ClientClose, Restart, Quiet
<1>2. ASSUME NEW t \in Session, ReadFrame(t)
      PROVE  \/ taken'[s] = taken[s]
             \/ pc[s] = "read" /\ pc'[s] = "collect" /\ taken'[s] = taken[s] + 1
  BY <1>2 DEF ReadFrame, TypeOK
<1>. QED
  BY <1>1, <1>2

\* What is on its way to an open member of the room stays so until it arrives.
LEMMA StillDue ==
  ASSUME TypeOK, Registry, [Next]_vars, NEW s \in Session, NEW c \in Session,
         c # s, room[c] = room[s], InOrClosed(c), ~closed'[c], Delivering(s, c),
         \A t \in Session : EndWrite(t) => ~(t = s /\ c = tgt[s])
  PROVE  Delivering(s, c)'
<1>. USE DEF Delivering, TypeOK, Loop
<1>0. ~closed[c] /\ pc[c] \in Loop /\ c \in Registered(room[s])
  BY ClosedStays DEF InOrClosed, Registry, Registered
<1>1. ASSUME NEW t \in Session, Connect(t) \/ Reply(t) \/ Accept(t) \/ AcceptFails(t)
               \/ Register(t) \/ ReadFrame(t) \/ Leave(t)
      PROVE  Delivering(s, c)'
  <2>1. /\ pc[t] \in {"idle", "http", "upgraded", "read"} /\ UNCHANGED <<todo, tgt>>
        /\ \E q : pc' = [pc EXCEPT ![t] = q]
    BY <1>1 DEF Connect, Reply, Accept, AcceptFails, Register, ReadFrame, Leave
  <2>. QED
    BY <2>1
<1>2. ASSUME NEW t \in Session, ReplyThrows(t) PROVE FALSE
  BY <1>0, <1>2 DEF ReplyThrows, Die
<1>3. ASSUME NEW t \in Session, Collect(t) PROVE Delivering(s, c)'
  <2>1. /\ todo' = [todo EXCEPT ![t] = Registered(room[t]) \ {t}] /\ tgt' = tgt
        /\ pc' = [pc EXCEPT ![t] = "fanout"] /\ pc[t] = "collect"
    BY <1>3, NothingExpired DEF Collect
  <2>. QED
    BY <1>0, <2>1
<1>4. ASSUME NEW t \in Session, NEW p \in Session, BeginWrite(t, p) PROVE Delivering(s, c)'
  <2>1. /\ p \in todo[t] /\ pc[t] = "fanout"
        /\ pc' = [pc EXCEPT ![t] = "write"]
        /\ tgt' = [tgt EXCEPT ![t] = p]
        /\ todo' = [todo EXCEPT ![t] = @ \ {p}]
    BY <1>4 DEF BeginWrite
  <2>2. CASE s = t
    BY <2>1, <2>2
  <2>3. CASE s # t
    BY <2>1, <2>3
  <2>. QED
    BY <2>2, <2>3
<1>5. ASSUME NEW t \in Session, EndWrite(t) \/ WriteFails(t) PROVE Delivering(s, c)'
  <2>1. /\ UNCHANGED <<todo, tgt>> /\ pc[t] = "write" /\ pc' = [pc EXCEPT ![t] = "fanout"]
        /\ t = s => c # tgt[s]
    BY <1>0, <1>5 DEF EndWrite, WriteFails
  <2>. QED
    BY <2>1
<1>6. ASSUME NEW t \in Session, FanoutDone(t) PROVE Delivering(s, c)'
  <2>1. /\ UNCHANGED <<todo, tgt>> /\ pc[t] = "fanout" /\ pc' = [pc EXCEPT ![t] = "read"]
        /\ todo[t] = {}
    BY <1>6 DEF FanoutDone
  <2>. QED
    BY <2>1
<1>7. ASSUME NEW t \in Session, ClientSend(t) \/ ClientRecv(t) \/ ClientClose(t)
      PROVE  Delivering(s, c)'
  BY <1>7 DEF ClientSend, ClientRecv, ClientClose
<1>8. CASE Restart \/ UNCHANGED vars
  BY <1>8 DEF Restart, vars
<1>. QED
  BY <1>1, <1>2, <1>3, <1>4, <1>5, <1>6, <1>7, <1>8 DEF Next, Thread, Quiet

\* What has arrived is never taken back.
LEMMA HasKept ==
  ASSUME TypeOK, [Next]_vars, NEW c \in Session, NEW t, NEW m, Has(c, t, m)
  PROVE  Has(c, t, m)'
<1>1. CASE got' = got
  BY <1>1 DEF Has
<1>2. ASSUME NEW s \in Session, EndWrite(s) PROVE Has(c, t, m)'
  <2>1. PICK k \in 1 .. Len(got[c]) : got[c][k].from = t /\ got[c][k].n = m
    BY DEF Has
  <2>2. k \in 1 .. Len(got'[c]) /\ got'[c][k] = got[c][k]
    <3>1. Len(got[c]) \in Nat
      BY DEF TypeOK
    <3>2. c # tgt[s] => got'[c] = got[c]
      BY <1>2, EndWriteAppends
    <3>3. c = tgt[s] => /\ Len(got'[c]) = Len(got[c]) + 1
                        /\ \A i \in 1 .. Len(got[c]) : got'[c][i] = got[c][i]
      BY <1>2, EndWriteAppends
    <3>. QED
      BY <3>1, <3>2, <3>3
  <2>. QED
    BY <2>1, <2>2 DEF Has
<1>. QED
  BY <1>1, <1>2, OnlyEndWriteDelivers

\* The frame a write has just delivered has arrived.
LEMMA EndWriteHas ==
  ASSUME TypeOK, NEW s \in Session, EndWrite(s), NEW c \in Session, c = tgt[s],
         NEW m, m = taken[s]
  PROVE  Has(c, s, m)'
<1>1. /\ Len(got'[c]) = Len(got[c]) + 1
      /\ got'[c][Len(got[c]) + 1].from = s /\ got'[c][Len(got[c]) + 1].n = taken[s]
  BY EndWriteAppends
<1>2. Len(got[c]) \in Nat /\ taken' = taken
  BY DEF TypeOK, EndWrite
<1>. QED
  BY <1>1, <1>2 DEF Has

\* Every position of what has arrived is an old one or that of the write which
\* has just ended.
LEMMA Arrival ==
  ASSUME TypeOK, [Next]_vars, NEW c \in Session, NEW i \in 1 .. Len(got'[c])
  PROVE  \/ i \in 1 .. Len(got[c]) /\ got'[c][i] = got[c][i]
         \/ \E t \in Session : /\ EndWrite(t) /\ c = tgt[t]
                               /\ got'[c][i].from = t /\ got'[c][i].n = taken[t]
BY OnlyEndWriteDelivers, EndWritePosition

\* Completeness survives every step.
LEMMA CompleteStep ==
  ASSUME TypeOK, Registry, Behind, Reached, SameRoomOnly, Complete, [Next]_vars
  PROVE  Complete'
<1>. SUFFICES ASSUME NEW c \in Session, NEW s \in Session, ~closed'[c],
                     NEW i \in 1 .. Len(got'[c]), got'[c][i].from = s,
                     NEW m \in got'[c][i].n .. taken'[s]
              PROVE  Has(c, s, m)' \/ (m = taken'[s] /\ Delivering(s, c)')
  BY DEF Complete
<1>1. ~closed[c] /\ taken[s] \in Nat
  BY ClosedStays DEF TypeOK
<1>2. CASE i \in 1 .. Len(got[c]) /\ got'[c][i] = got[c][i]
  <2>1. /\ got[c][i].from = s /\ got[c][i].n \in Nat
        /\ c # s /\ room[c] = room[s]
    BY <1>2 DEF Behind, SameRoomOnly
  <2>2. InOrClosed(c)
    BY <1>2 DEF Reached, TypeOK
  <2>3. \A k \in got[c][i].n .. taken[s] : Has(c, s, k) \/ (k = taken[s] /\ Delivering(s, c))
    BY <1>1, <1>2, <2>1 DEF Complete
  <2>4. CASE taken'[s] = taken[s]
    <3>1. CASE Has(c, s, m)
      BY <3>1, HasKept
    <3>2. CASE m = taken[s] /\ Delivering(s, c)
      <4>1. CASE EndWrite(s) /\ c = tgt[s]
        BY <3>2, <4>1, EndWriteHas
      <4>2. CASE ~(EndWrite(s) /\ c = tgt[s])
        BY <2>1, <2>2, <2>4, <3>2, <4>2, StillDue
      <4>. QED
        BY <4>1, <4>2
    <3>. QED
      BY <1>2, <2>3, <2>4, <3>1, <3>2
  <2>5. CASE pc[s] = "read" /\ pc'[s] = "collect" /\ taken'[s] = taken[s] + 1
    <3>1. Delivering(s, c)' /\ ~Delivering(s, c)
      BY <2>5 DEF Delivering
    <3>2. m = taken'[s] \/ m \in got[c][i].n .. taken[s]
      BY <1>1, <1>2, <2>1, <2>5
    <3>. QED
      BY <2>3, <3>1, <3>2, HasKept
  <2>. QED
    BY <2>4, <2>5, TakenStep
<1>3. ASSUME EndWrite(s), c = tgt[s], got'[c][i].n = taken[s]
      PROVE  Has(c, s, m)'
  <2>1. m = taken[s]
    BY <1>1, <1>3 DEF EndWrite
  <2>. QED
    BY <1>3, <2>1, EndWriteHas
<1>. QED
  BY <1>2, <1>3, Arrival

\* Once a client has one frame of a sender it misses none up to the last one it
\* has: membership begins and ends but never lapses, a write fails only on a
\* closed connection, and a frame is dealt with before the next is read.
THEOREM NothingMissing == Spec => []NoGaps
<1>. DEFINE Inv == Reached /\ Complete /\ NoGaps
<1>1. Init => Inv
  BY DEF Init, Reached, Complete, NoGaps, Loop
<1>2. TypeOK /\ Registry /\ Targets /\ Progress /\ SameRoomOnly /\ Inv /\ [Next]_vars
        => Reached' /\ Complete' /\ NoGaps'
  <2>. SUFFICES ASSUME TypeOK, Registry, Targets, Progress, SameRoomOnly, Inv, [Next]_vars
                PROVE  Reached' /\ Complete' /\ NoGaps'
    OBVIOUS
  <2>1. Reached'
    BY ReachedStep
  <2>2. Complete'
    BY CompleteStep DEF Progress
  <2>3. ASSUME NEW c \in Session, NEW i \in 1 .. Len(got'[c]), NEW j \in 1 .. Len(got'[c]),
               NEW s \in Session, got'[c][i].from = s, got'[c][j].from = s,
               NEW n \in got'[c][i].n .. got'[c][j].n
        PROVE  Has(c, s, n)'
    <3>1. CASE /\ i \in 1 .. Len(got[c]) /\ got'[c][i] = got[c][i]
               /\ j \in 1 .. Len(got[c]) /\ got'[c][j] = got[c][j]
      <4>1. Has(c, s, n)
        BY <2>3, <3>1 DEF NoGaps, Has
      <4>. QED
        BY <4>1, HasKept
    <3>2. CASE /\ i \in 1 .. Len(got[c]) /\ got'[c][i] = got[c][i]
               /\ EndWrite(s) /\ c = tgt[s] /\ got'[c][j].n = taken[s]
      <4>1. ~closed[c]
        BY <3>2 DEF EndWrite
      <4>2. Has(c, s, n) \/ n = taken[s]
        BY <2>3, <3>2, <4>1 DEF Complete
      <4>. QED
        BY <3>2, <4>2, HasKept, EndWriteHas
    <3>3. CASE EndWrite(s) /\ c = tgt[s] /\ got'[c][i].n = taken[s]
      <4>1. taken[s] \in Nat /\ got'[c][j].n \in Nat /\ got'[c][j].n <= taken[s]
        <5>1. taken[s] \in Nat
          BY DEF TypeOK
        <5>2. CASE j \in 1 .. Len(got[c]) /\ got'[c][j] = got[c][j]
          BY <2>3, <5>1, <5>2 DEF Progress, Behind
        <5>. QED
          BY <2>3, <5>1, <5>2, Arrival
      <4>2. n = taken[s]
        BY <3>3, <4>1
      <4>. QED
        BY <3>3, <4>2, EndWriteHas
    <3>. QED
      BY <2>3, <3>1, <3>2, <3>3, Arrival
  <2>4. NoGaps'
    <3>1. ASSUME NEW c \in Session, NEW i \in 1 .. Len(got'[c])
          PROVE  got'[c][i].from \in Session
      <4>1. got'[c] \in Seq(Frame)
        BY TypeStep DEF TypeOK
      <4>2. got'[c][i] \in Frame
        BY <4>1
      <4>. QED
        BY <4>2 DEF Frame
    <3>. QED
      BY <2>3, <3>1 DEF NoGaps, Has
  <2>. QED
    BY <2>1, <2>2, <2>4
<1>3. Spec => [](Reached /\ Complete /\ NoGaps)
  BY <1>1, <1>2, TypeCorrect, RegistryCorrect, TargetsHold, ProgressHolds, RoomsAreSeparate,
     PTL DEF Spec
<1>. QED
  BY <1>3, PTL
=============================================================================
