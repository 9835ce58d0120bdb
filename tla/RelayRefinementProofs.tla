----------------------- MODULE RelayRefinementProofs -----------------------
(***************************************************************************)
(* RelayServer implements RoomBroadcast, for any number of sessions and    *)
(* rooms and any bounds: the initial states map to initial states, and     *)
(* every step of a thread, a client or a dying process to a step of the    *)
(* abstract room or to none.  The mapping needs, beside Registry, that the *)
(* fan-out's variables mean something only where the thread uses them      *)
(* (HandOff).                                                              *)
(***************************************************************************)
EXTENDS RelayRefinement, RelayServerProofs

HandOff ==
  \A s \in Session :
    /\ pc[s] = "collect" => taken[s] >= 1
    /\ pc[s] \notin {"fanout", "write"} => todo[s] = {}
    /\ pc[s] = "write" => tgt[s] \notin todo[s]
    /\ s \in spoilt => pc[s] = "write"

LEMMA HandOffStep ==
  ASSUME TypeOK, HandOff, [Next]_vars
  PROVE  HandOff'
<1>. DEFINE Fine(t) == /\ pc'[t] = "collect" => taken'[t] >= 1
                       /\ pc'[t] \notin {"fanout", "write"} => todo'[t] = {}
                       /\ pc'[t] = "write" => tgt'[t] \notin todo'[t]
                       /\ t \in spoilt' => pc'[t] = "write"
<1>. SUFFICES ASSUME NEW t \in Session PROVE Fine(t)
  BY DEF HandOff
<1>. USE DEF HandOff, TypeOK, Loop
<1>1. ASSUME NEW s \in Session,
             Connect(s) \/ Reply(s) \/ Accept(s) \/ AcceptFails(s) \/ Register(s) \/ Leave(s)
      PROVE  Fine(t)
  BY <1>1 DEF Connect, Reply, Accept, AcceptFails, Register, Leave
<1>2. ASSUME NEW s \in Session, ReplyThrows(s) PROVE Fine(t)
  BY <1>2 DEF ReplyThrows, Die
<1>3. ASSUME NEW s \in Session, ReadFrame(s) PROVE Fine(t)
  BY <1>3 DEF ReadFrame
<1>4. ASSUME NEW s \in Session, Collect(s) PROVE Fine(t)
  BY <1>4 DEF Collect
<1>5. ASSUME NEW s \in Session, NEW p \in Session, BeginWrite(s, p) PROVE Fine(t)
  <2>1. \A x \in spoilt' : x \in spoilt \/ x = s \/ pc[x] = "write"
    BY <1>5 DEF BeginWrite, WritersTo
  <2>. QED
    BY <1>5, <2>1 DEF BeginWrite
<1>6. ASSUME NEW s \in Session, EndWrite(s) \/ WriteFails(s) PROVE Fine(t)
  BY <1>6 DEF EndWrite, WriteFails
<1>7. ASSUME NEW s \in Session, FanoutDone(s) PROVE Fine(t)
  BY <1>7 DEF FanoutDone
<1>8. ASSUME NEW s \in Session, ClientSend(s) \/ ClientRecv(s) \/ ClientClose(s) PROVE Fine(t)
  BY <1>8 DEF ClientSend, ClientRecv, ClientClose
<1>9. CASE Restart \/ UNCHANGED vars
  BY <1>9 DEF Restart, vars
<1>. HIDE DEF Fine, HandOff, TypeOK, Loop
<1>. QED
  BY <1>1, <1>2, <1>3, <1>4, <1>5, <1>6, <1>7, <1>8, <1>9 DEF Next, Thread, Quiet

LEMMA PromiseStarts == Init => Promise!Init
<1>. SUFFICES ASSUME Init PROVE Promise!Init
  OBVIOUS
<1>1. PromisedStatus = [s \in Session |-> "out"]
  BY DEF Init, PromisedStatus
<1>2. PromisedTaken = [s \in Session |-> 0]
  BY DEF Init, PromisedTaken
<1>3. PromisedPend = {}
  BY DEF Init, PromisedPend
<1>. QED
  BY <1>1, <1>2, <1>3 DEF Init, Promise!Init

-----------------------------------------------------------------------------
(* The mapping, session by session *)

StatusAt(q) ==
  IF q \in {"idle", "http"} THEN "out"
  ELSE IF q = "upgraded" THEN "open"
  ELSE IF q \in Loop THEN "in" ELSE "gone"

LEMMA StatusIs ==
  /\ PromisedStatus = [s \in Session |-> StatusAt(pc[s])]
  /\ PromisedStatus' = [s \in Session |-> StatusAt(pc'[s])]
BY DEF PromisedStatus, StatusAt

\* A thread that moves from one place to another.
LEMMA StatusMoves ==
  ASSUME TypeOK, NEW s \in Session, NEW q, pc' = [pc EXCEPT ![s] = q]
  PROVE  /\ PromisedStatus' = [PromisedStatus EXCEPT ![s] = StatusAt(q)]
         /\ (StatusAt(q) = StatusAt(pc[s])) => (PromisedStatus' = PromisedStatus)
         /\ PromisedStatus[s] = StatusAt(pc[s])
<1>1. \A t \in Session : pc'[t] = IF t = s THEN q ELSE pc[t]
  BY DEF TypeOK
<1>. QED
  BY <1>1, StatusIs

\* Reading a frame and collecting its peers are one step of the abstract room:
\* a session that has read and not collected has not taken the frame.
LEMMA TakenIs ==
  ASSUME TypeOK, HandOff
  PROVE  \A s \in Session : /\ pc[s] = "collect" => taken[s] = PromisedTaken[s] + 1
                            /\ pc[s] # "collect" => taken[s] = PromisedTaken[s]
                            /\ PromisedTaken[s] \in Nat
BY DEF TypeOK, HandOff, PromisedTaken

LEMMA TakenStays ==
  ASSUME TypeOK, UNCHANGED taken,
         \A s \in Session : pc[s] = "collect" <=> pc'[s] = "collect"
  PROVE  PromisedTaken' = PromisedTaken
BY DEF PromisedTaken

LEMMA CopySet ==
  ASSUME NEW S, NEW q, NEW td, NEW tk, NEW g, NEW sp, NEW f
  PROVE  f \in (UNION {{[from |-> s, n |-> tk[s], intact |-> TRUE, to |-> p] : p \in td[s]} : s \in S})
               \cup {[from |-> s, n |-> tk[s], intact |-> s \notin sp, to |-> g[s]] :
                       s \in {t \in S : q[t] = "write"}}
         <=> \E s \in S :
               \/ \E p \in td[s] : f = [from |-> s, n |-> tk[s], intact |-> TRUE, to |-> p]
               \/ /\ q[s] = "write"
                  /\ f = [from |-> s, n |-> tk[s], intact |-> s \notin sp, to |-> g[s]]
<1>. DEFINE Of(s) == {[from |-> s, n |-> tk[s], intact |-> TRUE, to |-> p] : p \in td[s]}
<1>1. f \in UNION {Of(s) : s \in S} <=> \E s \in S : f \in Of(s)
  <2>. HIDE DEF Of
  <2>. QED
    OBVIOUS
<1>2. \A s \in S :
        f \in Of(s) <=> \E p \in td[s] : f = [from |-> s, n |-> tk[s], intact |-> TRUE, to |-> p]
  OBVIOUS
<1>. QED
  BY <1>1, <1>2

\* A copy that is pending waits in its sender's todo or is being written.
LEMMA CopyIs ==
  \A f : f \in PromisedPend <=>
    \E s \in Session :
      \/ \E p \in todo[s] : f = [from |-> s, n |-> taken[s], intact |-> TRUE, to |-> p]
      \/ /\ pc[s] = "write"
         /\ f = [from |-> s, n |-> taken[s], intact |-> s \notin spoilt, to |-> tgt[s]]
BY CopySet DEF PromisedPend, Copy

LEMMA CopyWas ==
  \A f : f \in PromisedPend' <=>
    \E s \in Session :
      \/ \E p \in todo'[s] : f = [from |-> s, n |-> taken'[s], intact |-> TRUE, to |-> p]
      \/ /\ pc'[s] = "write"
         /\ f = [from |-> s, n |-> taken'[s], intact |-> s \notin spoilt', to |-> tgt'[s]]
BY CopySet DEF PromisedPend, Copy

LEMMA CopiesStay ==
  ASSUME UNCHANGED <<todo, tgt, spoilt>>,
         \A s \in Session : /\ pc[s] = "write" <=> pc'[s] = "write"
                            /\ taken'[s] = taken[s] \/ (todo[s] = {} /\ pc[s] # "write")
  PROVE  PromisedPend' = PromisedPend
BY CopyIs, CopyWas DEF Copy

-----------------------------------------------------------------------------
(* The steps *)

\* A thread that changes its place outside the read and the fan-out of a frame.
LEMMA Elsewhere ==
  ASSUME TypeOK, NEW s \in Session, NEW q,
         pc' = [pc EXCEPT ![s] = q], UNCHANGED <<taken, todo, tgt, spoilt>>,
         pc[s] \notin {"collect", "write"}, q \notin {"collect", "write"}
  PROVE  PromisedTaken' = PromisedTaken /\ PromisedPend' = PromisedPend
<1>1. \A t \in Session : pc'[t] = IF t = s THEN q ELSE pc[t]
  BY DEF TypeOK
<1>2. PromisedTaken' = PromisedTaken
  BY <1>1, TakenStays
<1>3. PromisedPend' = PromisedPend
  BY <1>1, CopiesStay
<1>. QED
  BY <1>2, <1>3

\* A plain answer and a failed handshake are both a refusal.
LEMMA RefuseStep ==
  ASSUME TypeOK, NEW s \in Session, Reply(s) \/ AcceptFails(s)
  PROVE  Promise!Refuse(s)
<1>1. /\ pc[s] = "http" /\ pc' = [pc EXCEPT ![s] = "done"]
      /\ UNCHANGED <<room, closed, sent, taken, todo, tgt, spoilt, got>>
  BY DEF Reply, AcceptFails
<1>2. PromisedTaken' = PromisedTaken /\ PromisedPend' = PromisedPend
  BY <1>1, Elsewhere
<1>3. PromisedStatus[s] = "out" /\ PromisedStatus' = [PromisedStatus EXCEPT ![s] = "gone"]
  <2>1. StatusAt("done") = "gone" /\ StatusAt(pc[s]) = "out"
    BY <1>1 DEF StatusAt, Loop
  <2>. QED
    BY <1>1, <2>1, StatusMoves
<1>. QED
  BY <1>1, <1>2, <1>3 DEF Promise!Refuse

LEMMA OpenStep ==
  ASSUME TypeOK, NEW s \in Session, Accept(s)
  PROVE  Promise!Open(s)
<1>1. /\ pc[s] = "http" /\ pc' = [pc EXCEPT ![s] = "upgraded"]
      /\ UNCHANGED <<room, closed, sent, taken, todo, tgt, spoilt, got>>
  BY DEF Accept
<1>2. PromisedTaken' = PromisedTaken /\ PromisedPend' = PromisedPend
  BY <1>1, Elsewhere
<1>3. PromisedStatus[s] = "out" /\ PromisedStatus' = [PromisedStatus EXCEPT ![s] = "open"]
  BY <1>1, StatusMoves DEF StatusAt, Loop
<1>. QED
  BY <1>1, <1>2, <1>3 DEF Promise!Open

LEMMA JoinStep ==
  ASSUME TypeOK, NEW s \in Session, Register(s)
  PROVE  Promise!Join(s)
<1>1. /\ pc[s] = "upgraded" /\ pc' = [pc EXCEPT ![s] = "read"]
      /\ UNCHANGED <<room, closed, sent, taken, todo, tgt, spoilt, got>>
  BY DEF Register
<1>2. PromisedTaken' = PromisedTaken /\ PromisedPend' = PromisedPend
  BY <1>1, Elsewhere
<1>3. PromisedStatus[s] = "open" /\ PromisedStatus' = [PromisedStatus EXCEPT ![s] = "in"]
  BY <1>1, StatusMoves DEF StatusAt, Loop
<1>. QED
  BY <1>1, <1>2, <1>3 DEF Promise!Join

\* Outside its fan-out a session has no copy under way.
LEMMA NothingUnderWay ==
  ASSUME HandOff, NEW s \in Session, pc[s] \notin {"fanout", "write"}
  PROVE  \A f \in PromisedPend : f.from # s
BY CopyIs DEF HandOff

LEMMA LeaveStep ==
  ASSUME TypeOK, HandOff, NEW s \in Session, Leave(s)
  PROVE  Promise!Leave(s)
<1>1. /\ pc[s] = "read" /\ closed[s] /\ pc' = [pc EXCEPT ![s] = "done"]
      /\ UNCHANGED <<room, closed, sent, taken, todo, tgt, spoilt, got>>
  BY DEF Leave
<1>2. PromisedTaken' = PromisedTaken /\ PromisedPend' = PromisedPend
  BY <1>1, Elsewhere
<1>3. PromisedStatus[s] = "in" /\ PromisedStatus' = [PromisedStatus EXCEPT ![s] = "gone"]
  <2>1. StatusAt("done") = "gone" /\ StatusAt(pc[s]) = "in"
    BY <1>1 DEF StatusAt, Loop
  <2>. QED
    BY <1>1, <2>1, StatusMoves
<1>. QED
  BY <1>1, <1>2, <1>3, NothingUnderWay DEF Promise!Leave

\* Accepting a socket, reading a frame, ending a fan-out, a restart and a
\* client that reads are not seen in the abstract room.
LEMMA UnseenStep ==
  ASSUME TypeOK, HandOff, NEW s \in Session,
         Connect(s) \/ ReadFrame(s) \/ FanoutDone(s) \/ Restart \/ ClientRecv(s) \/ UNCHANGED vars
  PROVE  UNCHANGED Promise!bvars
<1>. SUFFICES /\ PromisedStatus' = PromisedStatus
              /\ PromisedTaken' = PromisedTaken
              /\ PromisedPend' = PromisedPend
              /\ UNCHANGED <<room, closed, sent, got>>
  BY DEF Promise!bvars
<1>1. CASE Connect(s)
  <2>1. /\ pc[s] = "idle" /\ pc' = [pc EXCEPT ![s] = "http"]
        /\ UNCHANGED <<room, closed, sent, taken, todo, tgt, spoilt, got>>
    BY <1>1 DEF Connect
  <2>2. PromisedStatus' = PromisedStatus
    BY <2>1, StatusMoves DEF StatusAt
  <2>. QED
    BY <2>1, <2>2, Elsewhere
<1>2. CASE ReadFrame(s)
  <2>1. /\ pc[s] = "read" /\ pc' = [pc EXCEPT ![s] = "collect"]
        /\ taken' = [taken EXCEPT ![s] = @ + 1]
        /\ UNCHANGED <<room, closed, sent, todo, tgt, spoilt, got>>
    BY <1>2 DEF ReadFrame
  <2>2. \A t \in Session : /\ pc'[t] = IF t = s THEN "collect" ELSE pc[t]
                           /\ taken'[t] = IF t = s THEN taken[s] + 1 ELSE taken[t]
                           /\ taken[t] \in Nat
    BY <2>1 DEF TypeOK
  <2>3. PromisedStatus' = PromisedStatus
    BY <2>1, StatusMoves DEF StatusAt, Loop
  <2>4. PromisedTaken' = PromisedTaken
    BY <2>1, <2>2 DEF PromisedTaken
  <2>5. PromisedPend' = PromisedPend
    BY <2>1, <2>2, CopiesStay DEF HandOff
  <2>. QED
    BY <2>1, <2>3, <2>4, <2>5
<1>3. CASE FanoutDone(s)
  <2>1. /\ pc[s] = "fanout" /\ pc' = [pc EXCEPT ![s] = "read"]
        /\ UNCHANGED <<room, closed, sent, taken, todo, tgt, spoilt, got>>
    BY <1>3 DEF FanoutDone
  <2>2. PromisedStatus' = PromisedStatus
    BY <2>1, StatusMoves DEF StatusAt, Loop
  <2>. QED
    BY <2>1, <2>2, Elsewhere
<1>4. CASE Restart \/ ClientRecv(s) \/ UNCHANGED vars
  <2>1. UNCHANGED <<pc, room, closed, sent, taken, todo, tgt, spoilt, got>>
    BY <1>4 DEF Restart, ClientRecv, vars
  <2>. QED
    BY <2>1, StatusIs, TakenStays, CopiesStay
<1>. QED
  BY <1>1, <1>2, <1>3, <1>4

\* The client's own steps.
LEMMA ClientStep ==
  ASSUME TypeOK, NEW s \in Session
  PROVE  /\ ClientSend(s) => Promise!Send(s)
         /\ ClientClose(s) => Promise!Close(s)
<1>1. ASSUME UNCHANGED <<pc, taken, todo, tgt, spoilt>>
      PROVE  UNCHANGED <<PromisedStatus, PromisedTaken, PromisedPend>>
  BY <1>1, StatusIs, TakenStays, CopiesStay
<1>2. PromisedStatus[s] = StatusAt(pc[s])
  BY StatusIs
<1>3. ASSUME ClientSend(s) PROVE Promise!Send(s)
  <2>1. PromisedStatus[s] \in {"open", "in"}
    BY <1>2, <1>3 DEF ClientSend, StatusAt, Loop
  <2>. QED
    BY <1>1, <1>3, <2>1 DEF ClientSend, Promise!Send
<1>4. ASSUME ClientClose(s) PROVE Promise!Close(s)
  BY <1>1, <1>4 DEF ClientClose, Promise!Close
<1>. QED
  BY <1>3, <1>4

\* The copies of a collected frame are under way to the members of the room:
\* the registry holds them all, and no weak_ptr in it is expired.
LEMMA TakeStep ==
  ASSUME TypeOK, Registry, HandOff, NEW s \in Session, Collect(s)
  PROVE  Promise!Take(s)
<1>. DEFINE live == Registered(room[s])
<1>1. /\ pc[s] = "collect" /\ pc' = [pc EXCEPT ![s] = "fanout"]
      /\ UNCHANGED <<room, closed, sent, taken, tgt, spoilt, got>>
  BY DEF Collect
<1>2. todo' = [todo EXCEPT ![s] = live \ {s}]
  BY NothingExpired DEF Collect
<1>3. \A t \in Session : /\ pc'[t] = IF t = s THEN "fanout" ELSE pc[t]
                         /\ todo'[t] = IF t = s THEN live \ {s} ELSE todo[t]
  BY <1>1, <1>2 DEF TypeOK
<1>4. PromisedStatus[s] = "in" /\ PromisedStatus' = PromisedStatus
  <2>1. StatusAt("collect") = "in" /\ StatusAt("fanout") = "in"
    BY DEF StatusAt, Loop
  <2>. QED
    BY <1>1, <2>1, StatusMoves
<1>5. PromisedTaken[s] + 1 = taken[s] /\ PromisedTaken[s] \in Nat
  BY <1>1, TakenIs
<1>6. PromisedTaken[s] < sent[s]
  <2>1. taken[s] <= sent[s] /\ sent[s] \in Nat
    BY DEF TypeOK
  <2>. QED
    BY <1>5, <2>1
<1>7. PromisedTaken' = [PromisedTaken EXCEPT ![s] = @ + 1]
  <2>1. PromisedTaken' = [t \in Session |-> IF t = s THEN taken[s] ELSE PromisedTaken[t]]
    BY <1>1, <1>3 DEF PromisedTaken
  <2>2. PromisedTaken = [t \in Session |-> PromisedTaken[t]]
    BY DEF PromisedTaken
  <2>. QED
    BY <1>5, <2>1, <2>2
<1>8. \A f \in PromisedPend : f.from # s
  BY <1>1, NothingUnderWay
<1>9. Promise!Members(room[s]) = live
  <2>1. \A t \in Session : PromisedStatus[t] = "in" <=> pc[t] \in Loop
    BY StatusIs DEF StatusAt, Loop
  <2>2. \A t : t \in live <=> t \in Session /\ pc[t] \in Loop /\ room[t] = room[s]
    BY <1>1 DEF Registered, Registry, TypeOK, Loop
  <2>. QED
    BY <2>1, <2>2 DEF Promise!Members
<1>10. PromisedPend' =
         PromisedPend \cup {[from |-> s, n |-> PromisedTaken[s] + 1, intact |-> TRUE, to |-> d] :
                              d \in live \ {s}}
  <2>. DEFINE New == {[from |-> s, n |-> taken[s], intact |-> TRUE, to |-> d] : d \in live \ {s}}
              Same(t, f) == \/ \E p \in todo[t] : f = [from |-> t, n |-> taken[t], intact |-> TRUE, to |-> p]
                            \/ /\ pc[t] = "write"
                               /\ f = [from |-> t, n |-> taken[t], intact |-> t \notin spoilt, to |-> tgt[t]]
              Next_(t, f) == \/ \E p \in todo'[t] : f = [from |-> t, n |-> taken'[t], intact |-> TRUE, to |-> p]
                            \/ /\ pc'[t] = "write"
                               /\ f = [from |-> t, n |-> taken'[t], intact |-> t \notin spoilt', to |-> tgt'[t]]
  <2>1. \A f : Next_(s, f) <=> f \in New
    BY <1>1, <1>3
  <2>2. \A f : ~Same(s, f)
    BY <1>1 DEF HandOff
  <2>3. \A t \in Session : t # s => \A f : Next_(t, f) <=> Same(t, f)
    BY <1>1, <1>3
  <2>4. \A f : f \in PromisedPend <=> \E t \in Session : Same(t, f)
    BY CopyIs
  <2>5. \A f : f \in PromisedPend' <=> \E t \in Session : Next_(t, f)
    BY CopyWas
  <2>6. PromisedPend' = PromisedPend \cup New
    <3>. HIDE DEF New, Same, Next_
    <3>. QED
      BY <2>1, <2>2, <2>3, <2>4, <2>5
  <2>. QED
    BY <1>5, <2>6
<1>. HIDE DEF live
<1>. QED
  BY <1>1, <1>4, <1>6, <1>7, <1>8, <1>9, <1>10 DEF Promise!Take

\* The copy that is being written is the only one that ends with the write.
LEMMA CopyEnds ==
  ASSUME TypeOK, HandOff, NEW s \in Session,
         pc[s] = "write", pc' = [pc EXCEPT ![s] = "fanout"], spoilt' = spoilt \ {s},
         UNCHANGED <<taken, todo, tgt>>
  PROVE  LET f == [from |-> s, n |-> taken[s], intact |-> s \notin spoilt, to |-> tgt[s]] IN
         /\ f \in PromisedPend
         /\ PromisedPend' = PromisedPend \ {f}
         /\ PromisedTaken' = PromisedTaken /\ PromisedStatus' = PromisedStatus
<1>. DEFINE f == [from |-> s, n |-> taken[s], intact |-> s \notin spoilt, to |-> tgt[s]]
            Was(t, g) == \/ \E p \in todo[t] : g = [from |-> t, n |-> taken[t], intact |-> TRUE, to |-> p]
                         \/ /\ pc[t] = "write"
                            /\ g = [from |-> t, n |-> taken[t], intact |-> t \notin spoilt, to |-> tgt[t]]
            Is(t, g) == \/ \E p \in todo'[t] : g = [from |-> t, n |-> taken'[t], intact |-> TRUE, to |-> p]
                        \/ /\ pc'[t] = "write"
                           /\ g = [from |-> t, n |-> taken'[t], intact |-> t \notin spoilt', to |-> tgt'[t]]
<1>1. \A t \in Session : /\ pc'[t] = IF t = s THEN "fanout" ELSE pc[t]
                         /\ t # s => (t \in spoilt' <=> t \in spoilt)
  BY DEF TypeOK
<1>2. \A t \in Session : t # s => \A g : Is(t, g) <=> Was(t, g)
  BY <1>1
<1>3. \A g : Is(s, g) <=> \E p \in todo[s] : g = [from |-> s, n |-> taken[s], intact |-> TRUE, to |-> p]
  <2>1. pc'[s] # "write"
    BY <1>1
  <2>. QED
    BY <2>1
<1>4. tgt[s] \notin todo[s]
  BY DEF HandOff
<1>5. \A g : Is(s, g) <=> Was(s, g) /\ g # f
  <2>1. \A p \in todo[s] : f # [from |-> s, n |-> taken[s], intact |-> TRUE, to |-> p]
    <3>1. f.to = tgt[s]
      OBVIOUS
    <3>2. ASSUME NEW p \in todo[s] PROVE [from |-> s, n |-> taken[s], intact |-> TRUE, to |-> p].to # tgt[s]
      BY <1>4
    <3>. HIDE DEF f
    <3>. QED
      BY <3>1, <3>2
  <2>. QED
    BY <1>3, <2>1
<1>6. \A t, g : t # s /\ Was(t, g) => g # f
  OBVIOUS
<1>7. Was(s, f)
  OBVIOUS
<1>8. \A g : g \in PromisedPend <=> \E t \in Session : Was(t, g)
  BY CopyIs
<1>9. \A g : g \in PromisedPend' <=> \E t \in Session : Is(t, g)
  BY CopyWas
<1>10. f \in PromisedPend /\ PromisedPend' = PromisedPend \ {f}
  <2>. HIDE DEF f, Was, Is
  <2>. QED
    BY <1>2, <1>5, <1>6, <1>7, <1>8, <1>9
<1>11. PromisedTaken' = PromisedTaken
  BY <1>1, TakenStays
<1>12. PromisedStatus' = PromisedStatus
  <2>1. StatusAt("write") = "in" /\ StatusAt("fanout") = "in"
    BY DEF StatusAt, Loop
  <2>. QED
    BY <2>1, StatusMoves
<1>. QED
  BY <1>10, <1>11, <1>12

LEMMA DeliverStep ==
  ASSUME TypeOK, HandOff, NEW s \in Session, EndWrite(s)
  PROVE  \E f \in PromisedPend : Promise!Deliver(f)
<1>. DEFINE f == [from |-> s, n |-> taken[s], intact |-> s \notin spoilt, to |-> tgt[s]]
<1>1. /\ pc[s] = "write" /\ pc' = [pc EXCEPT ![s] = "fanout"] /\ spoilt' = spoilt \ {s}
      /\ UNCHANGED <<room, closed, sent, taken, todo, tgt>>
      /\ ~closed[tgt[s]]
      /\ got' = [got EXCEPT ![tgt[s]] =
                   Append(@, [from |-> s, n |-> taken[s], intact |-> s \notin spoilt])]
  BY DEF EndWrite
<1>2. /\ f \in PromisedPend /\ PromisedPend' = PromisedPend \ {f}
      /\ PromisedTaken' = PromisedTaken /\ PromisedStatus' = PromisedStatus
  BY <1>1, CopyEnds
<1>3. f.from = s /\ f.n = taken[s] /\ f.intact = (s \notin spoilt) /\ f.to = tgt[s]
  OBVIOUS
<1>. HIDE DEF f
<1>. QED
  BY <1>1, <1>2, <1>3 DEF Promise!Deliver

LEMMA LoseStep ==
  ASSUME TypeOK, HandOff, NEW s \in Session, WriteFails(s)
  PROVE  \E f \in PromisedPend : Promise!Lose(f)
<1>. DEFINE f == [from |-> s, n |-> taken[s], intact |-> s \notin spoilt, to |-> tgt[s]]
<1>1. /\ pc[s] = "write" /\ pc' = [pc EXCEPT ![s] = "fanout"] /\ spoilt' = spoilt \ {s}
      /\ UNCHANGED <<room, closed, sent, taken, todo, tgt, got>>
      /\ closed[tgt[s]]
  BY DEF WriteFails
<1>2. /\ f \in PromisedPend /\ PromisedPend' = PromisedPend \ {f}
      /\ PromisedTaken' = PromisedTaken /\ PromisedStatus' = PromisedStatus
  BY <1>1, CopyEnds
<1>3. f.to = tgt[s]
  OBVIOUS
<1>. HIDE DEF f
<1>. QED
  BY <1>1, <1>2, <1>3 DEF Promise!Lose

LEMMA SpoiltCopy ==
  ASSUME NEW t, NEW m, NEW p
  PROVE  [[from |-> t, n |-> m, intact |-> TRUE, to |-> p] EXCEPT !.intact = FALSE]
           = [from |-> t, n |-> m, intact |-> FALSE, to |-> p]
<1>1. \A was, is : [[from |-> t, n |-> m, intact |-> was, to |-> p] EXCEPT !.intact = is]
                    = [from |-> t, n |-> m, intact |-> is, to |-> p]
  OBVIOUS
<1>. QED
  BY <1>1, Zenon

\* A write that begins leaves the copies as they are, or spoils some of those
\* that are under way to the same client.
LEMMA CollideStep ==
  ASSUME TypeOK, HandOff, NEW s \in Session, NEW p \in Session, BeginWrite(s, p)
  PROVE  \E F \in SUBSET PromisedPend : Promise!Collide(F)
<1>. DEFINE Whole(t) == [from |-> t, n |-> taken[t], intact |-> TRUE, to |-> p]
            Part(t) == [from |-> t, n |-> taken[t], intact |-> FALSE, to |-> p]
            Due(t, g) == \E q \in todo[t] : g = [from |-> t, n |-> taken[t], intact |-> TRUE, to |-> q]
            Out(t, g) == g = [from |-> t, n |-> taken[t], intact |-> t \notin spoilt, to |-> tgt[t]]
            Due1(t, g) == \E q \in todo'[t] : g = [from |-> t, n |-> taken'[t], intact |-> TRUE, to |-> q]
            Out1(t, g) == g = [from |-> t, n |-> taken'[t], intact |-> t \notin spoilt', to |-> tgt'[t]]
<1>1. /\ pc[s] = "fanout" /\ p \in todo[s] /\ s \notin spoilt
      /\ UNCHANGED <<room, closed, sent, taken, got>>
  BY DEF BeginWrite, HandOff
<1>2. PICK X \in SUBSET (WritersTo(p) \cup {s}) :
        spoilt' = spoilt \cup X /\ (WritersTo(p) = {} => X = {})
  BY DEF BeginWrite
<1>3. \A t \in Session : /\ pc'[t] = IF t = s THEN "write" ELSE pc[t]
                         /\ tgt'[t] = IF t = s THEN p ELSE tgt[t]
                         /\ todo'[t] = IF t = s THEN todo[s] \ {p} ELSE todo[t]
  BY DEF BeginWrite, TypeOK
<1>4. \A t \in X : t \in Session /\ (t # s => pc[t] = "write" /\ tgt[t] = p /\ p \notin todo[t])
  BY DEF WritersTo, HandOff
<1>. DEFINE F == {Whole(t) : t \in X \ spoilt}
<1>5. \A g : g \in PromisedPend <=> \E t \in Session : Due(t, g) \/ (pc[t] = "write" /\ Out(t, g))
  BY CopyIs
<1>6. \A g : g \in PromisedPend' <=> \E t \in Session : Due1(t, g) \/ (pc'[t] = "write" /\ Out1(t, g))
  BY CopyWas
<1>7. \A g : Due(s, g) <=> Due1(s, g) \/ g = Whole(s)
  BY <1>1, <1>3
<1>8. \A t \in Session : t # s => \A g : Due(t, g) <=> Due1(t, g)
  BY <1>1, <1>3
<1>9. \A g : Out1(s, g) <=> g = IF s \in X THEN Part(s) ELSE Whole(s)
  BY <1>1, <1>2, <1>3
<1>10. \A t \in X : t # s => /\ \A g : Out1(t, g) <=> g = Part(t)
                             /\ t \notin spoilt => \A g : Out(t, g) <=> g = Whole(t)
                             /\ t \in spoilt => \A g : Out(t, g) <=> g = Part(t)
  BY <1>1, <1>2, <1>3, <1>4
<1>11. \A t \in Session : (t # s /\ t \notin X) => \A g : Out(t, g) <=> Out1(t, g)
  BY <1>1, <1>2, <1>3
<1>12. \A g : g \in F <=> \E t \in X : t \notin spoilt /\ g = Whole(t)
  OBVIOUS
<1>13. \A g : g \in Promise!Spoilt(F) <=> \E t \in X : t \notin spoilt /\ g = Part(t)
  <2>1. ASSUME NEW t PROVE [Whole(t) EXCEPT !.intact = FALSE] = Part(t)
    BY SpoiltCopy, Zenon
  <2>. HIDE DEF Whole, Part
  <2>. QED
    BY <2>1, <1>12 DEF Promise!Spoilt
<1>14. \A t \in X : ~Due1(t, Whole(t)) /\ (t # s => ~Due(t, Whole(t)))
  <2>1. \A t \in X : p \notin todo'[t] /\ (t # s => p \notin todo[t])
    BY <1>3, <1>4
  <2>2. \A t : Whole(t).to = p
    OBVIOUS
  <2>3. \A t, g : /\ Due1(t, g) => g.to \in todo'[t]
                  /\ Due(t, g) => g.to \in todo[t]
    OBVIOUS
  <2>. HIDE DEF Whole, Due, Due1
  <2>. QED
    BY <2>1, <2>2, <2>3
<1>15. \A t, g : /\ Due(t, g) \/ Out(t, g) \/ Due1(t, g) \/ Out1(t, g) => g.from = t
                 /\ g = Whole(t) \/ g = Part(t) => g.from = t
  OBVIOUS
<1>16. \A t, g : Due(t, g) \/ Due1(t, g) \/ g = Whole(t) => g # Part(t)
  <2>1. \A t, g : /\ Due(t, g) \/ Due1(t, g) \/ g = Whole(t) => g.intact = TRUE
                  /\ Part(t).intact = FALSE
    OBVIOUS
  <2>. HIDE DEF Whole, Part, Due, Due1
  <2>. QED
    BY <2>1
<1>17. \A t, u : Whole(t) = Whole(u) => t = u
  BY <1>15
<1>. HIDE DEF Whole, Part, Due, Due1, Out, Out1, F
<1>18. F \subseteq PromisedPend
  BY <1>1, <1>4, <1>5, <1>7, <1>10, <1>12
<1>19. \A f \in F : \E g \in PromisedPend : g.to = f.to /\ g.from # f.from
  <2>. SUFFICES ASSUME NEW t \in X, t \notin spoilt
                PROVE  \E g \in PromisedPend : g.to = Whole(t).to /\ g.from # Whole(t).from
    BY <1>12
  <2>0. \A u : Whole(u).to = p /\ Whole(u).from = u
    BY DEF Whole
  <2>1. CASE t = s
    <3>1. PICK u \in WritersTo(p) : TRUE
      BY <1>2
    <3>2. u \in Session /\ pc[u] = "write" /\ tgt[u] = p /\ u # s
      BY <1>1, <3>1 DEF WritersTo
    <3>. DEFINE g == [from |-> u, n |-> taken[u], intact |-> u \notin spoilt, to |-> tgt[u]]
    <3>3. g.from = u /\ g.to = tgt[u] /\ Out(u, g)
      BY DEF Out
    <3>4. g \in PromisedPend
      BY <1>5, <3>2, <3>3
    <3>. HIDE DEF g
    <3>. QED
      BY <2>0, <2>1, <3>2, <3>3, <3>4
  <2>2. CASE t # s
    <3>1. Whole(s) \in PromisedPend
      BY <1>5, <1>7
    <3>. QED
      BY <2>0, <2>2, <3>1
  <2>. QED
    BY <2>1, <2>2
<1>20. PromisedPend' = (PromisedPend \ F) \cup Promise!Spoilt(F)
  <2>1. ASSUME NEW g, g \in PromisedPend' PROVE g \in (PromisedPend \ F) \cup Promise!Spoilt(F)
    <3>1. PICK t \in Session : Due1(t, g) \/ (pc'[t] = "write" /\ Out1(t, g))
      BY <2>1, <1>6
    <3>2. CASE Due1(t, g)
      <4>1. g \in PromisedPend
        BY <3>2, <1>5, <1>7, <1>8
      <4>2. g \notin F
        BY <3>2, <1>12, <1>14, <1>15
      <4>. QED
        BY <4>1, <4>2
    <3>3. CASE Out1(t, g) /\ t = s
      <4>1. CASE s \in X
        BY <3>3, <4>1, <1>1, <1>9, <1>13
      <4>2. CASE s \notin X
        <5>1. g = Whole(s)
          BY <3>3, <4>2, <1>9
        <5>2. g \in PromisedPend
          BY <5>1, <1>5, <1>7
        <5>3. g \notin F
          BY <5>1, <4>2, <1>12, <1>17
        <5>. QED
          BY <5>2, <5>3
      <4>. QED
        BY <4>1, <4>2
    <3>4. CASE Out1(t, g) /\ t # s /\ t \in X
      <4>1. g = Part(t)
        BY <3>4, <1>10
      <4>2. CASE t \notin spoilt
        BY <3>4, <4>1, <4>2, <1>13
      <4>3. CASE t \in spoilt
        <5>1. g \in PromisedPend
          BY <3>4, <4>1, <4>3, <1>4, <1>5, <1>10
        <5>2. g \notin F
          BY <4>1, <1>12, <1>15, <1>16
        <5>. QED
          BY <5>1, <5>2
      <4>. QED
        BY <4>2, <4>3
    <3>5. CASE Out1(t, g) /\ t # s /\ t \notin X
      <4>1. pc[t] = "write" \/ Due1(t, g)
        BY <3>1, <3>5, <1>3
      <4>2. g \notin F
        BY <3>5, <1>12, <1>15
      <4>. QED
        BY <3>2, <3>5, <4>1, <4>2, <1>5, <1>11
    <3>. QED
      BY <3>1, <3>2, <3>3, <3>4, <3>5
  <2>2. ASSUME NEW g, g \in PromisedPend, g \notin F PROVE g \in PromisedPend'
    <3>1. PICK t \in Session : Due(t, g) \/ (pc[t] = "write" /\ Out(t, g))
      BY <2>2, <1>5
    <3>2. CASE t = s
      BY <2>2, <3>1, <3>2, <1>1, <1>3, <1>6, <1>7, <1>9, <1>12
    <3>3. CASE t # s /\ Due(t, g)
      BY <3>3, <1>6, <1>8
    <3>4. CASE t # s /\ pc[t] = "write" /\ Out(t, g)
      BY <2>2, <3>4, <1>3, <1>6, <1>10, <1>11, <1>12
    <3>. QED
      BY <3>1, <3>2, <3>3, <3>4
  <2>3. ASSUME NEW g, g \in Promise!Spoilt(F) PROVE g \in PromisedPend'
    <3>1. PICK t \in X : t \notin spoilt /\ g = Part(t)
      BY <2>3, <1>13
    <3>. QED
      BY <3>1, <1>3, <1>4, <1>6, <1>9, <1>10
  <2>. QED
    BY <2>1, <2>2, <2>3
<1>21. PromisedTaken' = PromisedTaken
  BY <1>1, <1>3, TakenStays
<1>22. PromisedStatus' = PromisedStatus
  <2>1. StatusAt("fanout") = "in" /\ StatusAt("write") = "in"
    BY DEF StatusAt, Loop
  <2>. QED
    BY <1>1, <2>1, StatusMoves DEF BeginWrite
<1>. QED
  BY <1>1, <1>18, <1>19, <1>20, <1>21, <1>22 DEF Promise!Collide

\* A process that dies takes every connection with it, those not answered yet
\* and the frames that were read and not collected included.
LEMMA ResetStep ==
  ASSUME TypeOK, HandOff, NEW s \in Session, ReplyThrows(s)
  PROVE  \E S \in SUBSET {c \in Session : PromisedStatus[c] = "out"} :
           \E T \in SUBSET {c \in Session : PromisedStatus[c] = "in" /\ PromisedTaken[c] < sent[c]} :
             Promise!Reset(S, T)
<1>. DEFINE S == {c \in Session : pc[c] = "http"}
            T == {c \in Session : pc[c] = "collect"}
            lost == {c \in Session : pc[c] \notin {"idle", "done"}}
<1>1. /\ pc' = [c \in Session |-> IF c \in lost THEN "done" ELSE pc[c]]
      /\ closed' = [c \in Session |-> c \in lost \/ closed[c]]
      /\ todo' = [c \in Session |-> {}]
      /\ UNCHANGED <<room, sent, taken, got>>
  BY DEF ReplyThrows, Die
<1>2. \A c \in Session : /\ PromisedStatus[c] = StatusAt(pc[c])
                         /\ PromisedStatus'[c] = StatusAt(pc'[c])
  BY StatusIs
<1>3. \A c \in Session : /\ c \in S => PromisedStatus[c] = "out"
                         /\ c \in T => PromisedStatus[c] = "in"
                         /\ PromisedStatus[c] \in {"open", "in"} \/ c \in S <=> c \in lost
                         /\ c \in lost => PromisedStatus'[c] = "gone"
                         /\ c \notin lost => PromisedStatus'[c] = PromisedStatus[c]
  BY <1>1, <1>2 DEF StatusAt, Loop, TypeOK
<1>4. \A c \in Session : pc'[c] \notin {"collect", "write"}
  BY <1>1
<1>5. S \cup {c \in Session : PromisedStatus[c] \in {"open", "in"}} = lost
  BY <1>3
<1>6. \A c \in T : PromisedTaken[c] < sent[c]
  <2>. SUFFICES ASSUME NEW c \in T PROVE PromisedTaken[c] < sent[c]
    OBVIOUS
  <2>1. taken[c] = PromisedTaken[c] + 1 /\ PromisedTaken[c] \in Nat
    BY TakenIs
  <2>2. taken[c] <= sent[c] /\ sent[c] \in Nat
    BY DEF TypeOK
  <2>. QED
    BY <2>1, <2>2
<1>7. PromisedStatus' = [c \in Session |-> IF c \in lost THEN "gone" ELSE PromisedStatus[c]]
  BY <1>3, StatusIs
<1>8. PromisedTaken' = [c \in Session |-> IF c \in T THEN PromisedTaken[c] + 1 ELSE PromisedTaken[c]]
  <2>1. \A c \in Session : taken[c] = IF c \in T THEN PromisedTaken[c] + 1 ELSE PromisedTaken[c]
    BY TakenIs
  <2>2. PromisedTaken' = [c \in Session |-> taken[c]]
    BY <1>1, <1>4 DEF PromisedTaken
  <2>. HIDE DEF T
  <2>. QED
    BY <2>1, <2>2
<1>9. PromisedPend' = {}
  BY <1>1, <1>4, CopyWas
<1>10. S \in SUBSET {c \in Session : PromisedStatus[c] = "out"}
  BY <1>3
<1>11. T \in SUBSET {c \in Session : PromisedStatus[c] = "in" /\ PromisedTaken[c] < sent[c]}
  BY <1>3, <1>6
<1>12. Promise!Reset(S, T)
  <2>. HIDE DEF S, T, lost
  <2>. QED
    BY <1>1, <1>5, <1>7, <1>8, <1>9 DEF Promise!Reset
<1>. HIDE DEF S, T
<1>. QED
  BY <1>10, <1>11, <1>12

\* Every step of the relay is a step of the abstract room, or none.
LEMMA PromiseKeeps ==
  ASSUME TypeOK, Registry, HandOff, [Next]_vars
  PROVE  [Promise!Next]_(Promise!bvars)
<1>1. ASSUME NEW s \in Session, Reply(s) \/ AcceptFails(s) PROVE Promise!Next
  BY <1>1, RefuseStep DEF Promise!Next, Promise!RelayStep
<1>2. ASSUME NEW s \in Session, Accept(s) PROVE Promise!Next
  BY <1>2, OpenStep DEF Promise!Next, Promise!RelayStep
<1>3. ASSUME NEW s \in Session, Register(s) PROVE Promise!Next
  BY <1>3, JoinStep DEF Promise!Next, Promise!RelayStep
<1>4. ASSUME NEW s \in Session, Collect(s) PROVE Promise!Next
  BY <1>4, TakeStep DEF Promise!Next, Promise!RelayStep
<1>5. ASSUME NEW s \in Session, NEW p \in Session, BeginWrite(s, p) PROVE Promise!Next
  BY <1>5, CollideStep DEF Promise!Next, Promise!RelayStep
<1>6. ASSUME NEW s \in Session, EndWrite(s) \/ WriteFails(s) PROVE Promise!Next
  BY <1>6, DeliverStep, LoseStep DEF Promise!Next, Promise!RelayStep
<1>7. ASSUME NEW s \in Session, Leave(s) PROVE Promise!Next
  BY <1>7, LeaveStep DEF Promise!Next, Promise!RelayStep
<1>8. ASSUME NEW s \in Session, ReplyThrows(s) PROVE Promise!Next
  BY <1>8, ResetStep DEF Promise!Next, Promise!RelayStep
<1>9. ASSUME NEW s \in Session, ClientSend(s) \/ ClientClose(s) PROVE Promise!Next
  BY <1>9, ClientStep DEF Promise!Next
<1>10. ASSUME NEW s \in Session,
              Connect(s) \/ ReadFrame(s) \/ FanoutDone(s) \/ ClientRecv(s)
       PROVE  UNCHANGED Promise!bvars
  BY <1>10, UnseenStep
<1>11. ASSUME Restart \/ UNCHANGED vars PROVE UNCHANGED Promise!bvars
  BY <1>11, StatusIs, TakenStays, CopiesStay DEF Restart, vars, Promise!bvars
<1>. QED
  BY <1>1, <1>2, <1>3, <1>4, <1>5, <1>6, <1>7, <1>8, <1>9, <1>10, <1>11 DEF Next, Thread, Quiet

LEMMA HandOffHolds == Spec => []HandOff
<1>1. Init => HandOff
  BY DEF Init, HandOff
<1>2. TypeOK /\ HandOff /\ [Next]_vars => HandOff'
  BY HandOffStep
<1>. QED
  BY <1>1, <1>2, TypeCorrect, PTL DEF Spec

\* For any sessions, rooms and bounds: the threads, the lock and the sockets of
\* relay_server.cpp do to each frame what the abstract room does, in every
\* interleaving, with clients that close and a process that dies and restarts.
THEOREM RelayImplements == Spec => Implements
<1>1. TypeOK /\ Registry /\ HandOff /\ [Next]_vars => [Promise!Next]_(Promise!bvars)
  BY PromiseKeeps
<1>. QED
  BY <1>1, PromiseStarts, TypeCorrect, RegistryCorrect, HandOffHolds, PTL
     DEF Spec, Implements, Promise!Spec

=============================================================================
