------------------------ MODULE RoomBroadcastProofs ------------------------
(***************************************************************************)
(* What the relay promises, for any number of clients and rooms: frames of *)
(* one sender arrive in order, at most once, and without gaps between the  *)
(* first and the last.  The inductive invariant grows in parts:            *)
(*   TypeOK    types                                                       *)
(*   Copies    a copy under way is of the last frame taken, for a member   *)
(*   Arrived   what has arrived is older than what is under way            *)
(*   Covered   an open connection has, or is about to get, every frame     *)
(*             taken since the first one it got of that sender             *)
(***************************************************************************)
EXTENDS RoomBroadcast, TLAPS

Copies ==
  /\ \A c \in Client : taken[c] <= sent[c]
  /\ \A f \in pend : /\ f.n = taken[f.from] /\ f.n >= 1
                     /\ f.to # f.from /\ room[f.to] = room[f.from]
                     /\ status[f.to] = "in" \/ closed[f.to]
  /\ \A f, g \in pend : (f.from = g.from /\ f.to = g.to) => f = g

Arrived ==
  /\ \A c \in Client : \A i \in 1 .. Len(got[c]) :
       /\ got[c][i].from # c /\ room[got[c][i].from] = room[c]
       /\ got[c][i].n \in 1 .. taken[got[c][i].from]
       /\ status[c] = "in" \/ closed[c]
  /\ \A f \in pend : \A i \in 1 .. Len(got[f.to]) :
       got[f.to][i].from = f.from => got[f.to][i].n < f.n

\* One sender's frames reach one client in the order sent and at most once.
FramesInOrder ==
  \A c \in Client : \A i, j \in 1 .. Len(got[c]) :
    (i < j /\ got[c][i].from = got[c][j].from) => got[c][i].n < got[c][j].n

Has(c, s, n) == \E k \in 1 .. Len(got[c]) : got[c][k].from = s /\ got[c][k].n = n
Due(c, s, n) == \E f \in pend : f.to = c /\ f.from = s /\ f.n = n

Covered ==
  \A c \in Client : \A i \in 1 .. Len(got[c]) :
    ~closed[c] =>
      \A n \in got[c][i].n .. taken[got[c][i].from] :
        Has(c, got[c][i].from, n) \/ Due(c, got[c][i].from, n)

\* No frame of a sender is missing between two that have arrived.
FramesComplete ==
  \A c \in Client : \A i, j \in 1 .. Len(got[c]) :
    got[c][i].from = got[c][j].from =>
      \A n \in got[c][i].n .. got[c][j].n : Has(c, got[c][i].from, n)

NetInv == TypeOK /\ Copies /\ Arrived /\ FramesInOrder /\ Covered /\ FramesComplete

-----------------------------------------------------------------------------
(* Steps *)

\* A step that moves no frame: a connection is answered, joins, sends, closes
\* or leaves.  Only a closed connection stops being a member.
Still ==
  /\ UNCHANGED <<room, taken, pend, got>>
  /\ closed' \in [Client -> BOOLEAN] /\ sent' \in [Client -> Nat]
  /\ status' \in [Client -> {"out", "open", "in", "gone"}]
  /\ \A c \in Client : /\ closed[c] => closed'[c]
                       /\ sent[c] <= sent'[c]
                       /\ status[c] = "in" => (status'[c] = "in" \/ closed'[c])

\* Every step is one of six kinds.
LEMMA StepKinds ==
  ASSUME TypeOK, [Next]_bvars
  PROVE  \/ Still
         \/ \E c \in Client : Take(c)
         \/ \E F \in SUBSET pend : Collide(F)
         \/ \E f \in pend : Deliver(f)
         \/ \E f \in pend : Lose(f)
         \/ \E S \in SUBSET {c \in Client : status[c] = "out"} :
              \E T \in SUBSET {c \in Client : status[c] = "in" /\ taken[c] < sent[c]} :
                Reset(S, T)
<1>1. ASSUME NEW c \in Client, Open(c) PROVE Still
  BY <1>1 DEF Open, Still, TypeOK
<1>2. ASSUME NEW c \in Client, Refuse(c) PROVE Still
  BY <1>2 DEF Refuse, Still, TypeOK
<1>3. ASSUME NEW c \in Client, Join(c) PROVE Still
  BY <1>3 DEF Join, Still, TypeOK
<1>4. ASSUME NEW c \in Client, Send(c) PROVE Still
  BY <1>4 DEF Send, Still, TypeOK
<1>5. ASSUME NEW c \in Client, Close(c) PROVE Still
  BY <1>5 DEF Close, Still, TypeOK
<1>6. ASSUME NEW c \in Client, Leave(c) PROVE Still
  BY <1>6 DEF Leave, Still, TypeOK
<1>7. CASE UNCHANGED bvars
  BY <1>7 DEF bvars, Still, TypeOK
<1>. QED
  BY <1>1, <1>2, <1>3, <1>4, <1>5, <1>6, <1>7 DEF Next, RelayStep

\* What Deliver does to the frames that have arrived.
LEMMA DeliverAppends ==
  ASSUME TypeOK, NEW f \in pend, Deliver(f)
  PROVE  /\ f.to \in Client /\ f.from \in Client /\ f.n \in Nat
         /\ got' \in [Client -> Seq(Frame)]
         /\ \A c \in Client \ {f.to} : got'[c] = got[c]
         /\ Len(got[f.to]) \in Nat /\ Len(got'[f.to]) = Len(got[f.to]) + 1
         /\ \A i \in 1 .. Len(got[f.to]) : got'[f.to][i] = got[f.to][i]
         /\ got'[f.to][Len(got[f.to]) + 1].from = f.from
         /\ got'[f.to][Len(got[f.to]) + 1].n = f.n
<1>. DEFINE g == [from |-> f.from, n |-> f.n, intact |-> f.intact]
<1>1. f \in [from : Client, n : Nat, intact : BOOLEAN, to : Client]
  BY DEF TypeOK
<1>2. g \in Frame /\ f.to \in Client
  BY <1>1 DEF Frame
<1>3. got[f.to] \in Seq(Frame)
  BY <1>2 DEF TypeOK
<1>4. /\ got' = [got EXCEPT ![f.to] = Append(got[f.to], g)]
      /\ got \in [Client -> Seq(Frame)]
  BY DEF Deliver, TypeOK
<1>5. /\ Append(got[f.to], g) \in Seq(Frame)
      /\ Len(Append(got[f.to], g)) = Len(got[f.to]) + 1
      /\ \A i \in 1 .. Len(got[f.to]) : Append(got[f.to], g)[i] = got[f.to][i]
      /\ Append(got[f.to], g)[Len(got[f.to]) + 1] = g
  BY <1>2, <1>3
<1>6. got'[f.to] = Append(got[f.to], g)
  BY <1>2, <1>4
<1>. HIDE DEF g
<1>7. /\ \A c \in Client \ {f.to} : got'[c] = got[c]
      /\ got' \in [Client -> Seq(Frame)]
  BY <1>2, <1>4, <1>5
<1>8. g.from = f.from /\ g.n = f.n
  BY DEF g
<1>. QED
  BY <1>1, <1>2, <1>3, <1>5, <1>6, <1>7, <1>8

\* The copies that Take makes.
LEMMA FreshCopies ==
  ASSUME TypeOK, NEW c \in Client, Take(c), NEW g \in pend', g \notin pend
  PROVE  /\ g \in [from : Client, n : Nat, intact : BOOLEAN, to : Client]
         /\ g.from = c /\ g.to \in Members(room[c]) \ {c} /\ g.n = taken[c] + 1
         /\ g.intact
<1>1. PICK d \in Members(room[c]) \ {c} :
        g = [from |-> c, n |-> taken[c] + 1, intact |-> TRUE, to |-> d]
  BY DEF Take
<1>2. d \in Client /\ taken[c] + 1 \in Nat
  BY DEF TypeOK, Members
<1>. QED
  BY <1>1, <1>2

\* A spoilt copy is one of those that were under way, but for its content.
LEMMA SpoiltCopies ==
  ASSUME TypeOK, NEW F \in SUBSET pend, NEW g \in Spoilt(F)
  PROVE  /\ g \in [from : Client, n : Nat, intact : BOOLEAN, to : Client]
         /\ \E f \in F : g.from = f.from /\ g.to = f.to /\ g.n = f.n
<1>1. PICK f \in F : g = [f EXCEPT !.intact = FALSE]
  BY DEF Spoilt
<1>2. f \in [from : Client, n : Nat, intact : BOOLEAN, to : Client]
  BY DEF TypeOK
<1>. QED
  BY <1>1, <1>2

\* And a copy that is spoilt is under way still.
LEMMA SpoiltStays ==
  ASSUME TypeOK, NEW F \in SUBSET pend, NEW f \in F
  PROVE  \E g \in Spoilt(F) : g.from = f.from /\ g.to = f.to /\ g.n = f.n
<1>1. f \in [from : Client, n : Nat, intact : BOOLEAN, to : Client]
  BY DEF TypeOK
<1>2. [f EXCEPT !.intact = FALSE] \in Spoilt(F)
  BY DEF Spoilt
<1>. QED
  BY <1>1, <1>2

\* The types of everything the relay keeps.
LEMMA TypeStep ==
  ASSUME TypeOK, [Next]_bvars
  PROVE  TypeOK'
<1>1. CASE Still
  BY <1>1 DEF Still, TypeOK
<1>2. ASSUME NEW c \in Client, Take(c) PROVE TypeOK'
  <2>1. pend' \subseteq [from : Client, n : Nat, intact : BOOLEAN, to : Client]
    BY <1>2, FreshCopies DEF Take, TypeOK
  <2>. QED
    BY <1>2, <2>1 DEF Take, TypeOK
<1>3. ASSUME NEW F \in SUBSET pend, Collide(F) PROVE TypeOK'
  <2>1. pend' \subseteq [from : Client, n : Nat, intact : BOOLEAN, to : Client]
    BY <1>3, SpoiltCopies DEF Collide, TypeOK
  <2>. QED
    BY <1>3, <2>1 DEF Collide, TypeOK
<1>4. ASSUME NEW f \in pend, Deliver(f) PROVE TypeOK'
  BY <1>4, DeliverAppends DEF Deliver, TypeOK
<1>5. ASSUME NEW f \in pend, Lose(f) PROVE TypeOK'
  BY <1>5 DEF Lose, TypeOK
<1>6. ASSUME NEW S \in SUBSET Client, NEW T \in SUBSET Client, Reset(S, T) PROVE TypeOK'
  BY <1>6 DEF Reset, TypeOK
<1>. QED
  BY StepKinds, <1>1, <1>2, <1>3, <1>4, <1>5, <1>6

\* Types hold throughout, for every number of clients and rooms.
THEOREM TypeCorrect == Spec => []TypeOK
<1>1. Init => TypeOK
  BY DEF Init, TypeOK, Frame
<1>2. TypeOK /\ [Next]_bvars => TypeOK'
  BY TypeStep
<1>. QED
  BY <1>1, <1>2, PTL DEF Spec

LEMMA FrameFields ==
  ASSUME TypeOK, NEW c \in Client, NEW i \in 1 .. Len(got[c])
  PROVE  got[c][i].from \in Client /\ got[c][i].n \in Nat /\ got[c][i].intact \in BOOLEAN
<1>1. got[c] \in Seq(Frame)
  BY DEF TypeOK
<1>2. got[c][i] \in Frame
  BY <1>1
<1>. QED
  BY <1>2 DEF Frame

LEMMA FrameFieldsNext ==
  ASSUME TypeOK, [Next]_bvars, NEW c \in Client, NEW i \in 1 .. Len(got'[c])
  PROVE  got'[c][i].from \in Client /\ got'[c][i].n \in Nat
<1>1. got'[c] \in Seq(Frame)
  BY TypeStep DEF TypeOK
<1>2. got'[c][i] \in Frame
  BY <1>1
<1>. QED
  BY <1>2 DEF Frame

-----------------------------------------------------------------------------
LEMMA CopiesStep ==
  ASSUME TypeOK, Copies, [Next]_bvars
  PROVE  Copies'
<1>1. CASE Still
  <2>1. \A c \in Client : taken'[c] <= sent'[c]
    BY <1>1 DEF Still, Copies, TypeOK
  <2>2. \A f \in pend : f.to \in Client
    BY DEF TypeOK
  <2>. QED
    BY <1>1, <2>1, <2>2 DEF Still, Copies
<1>2. ASSUME NEW c \in Client, Take(c) PROVE Copies'
  <2>1. /\ UNCHANGED <<status, room, closed, sent>>
        /\ taken' \in [Client -> Nat]
        /\ taken'[c] = taken[c] + 1 /\ taken[c] < sent[c]
        /\ \A d \in Client \ {c} : taken'[d] = taken[d]
    BY <1>2 DEF Take, TypeOK
  <2>2. \A d \in Client : taken'[d] <= sent'[d]
    <3>1. \A d \in Client : taken[d] <= sent[d] /\ taken[d] \in Nat /\ sent[d] \in Nat
      BY DEF Copies, TypeOK
    <3>. QED
      BY <2>1, <3>1
  <2>3. \A f \in pend : f.from \in Client /\ f.from # c
    BY <1>2 DEF Take, TypeOK
  <2>4. \A g \in pend' : g \in pend \/ (/\ g.from = c /\ g.to \in Members(room[c]) \ {c}
                                         /\ g.n = taken[c] + 1 /\ g.intact)
    BY <1>2, FreshCopies
  <2>5. \A g \in pend' : /\ g.n = taken'[g.from] /\ g.n >= 1
                         /\ g.to # g.from /\ room[g.to] = room[g.from]
                         /\ status[g.to] = "in" \/ closed[g.to]
    BY <2>1, <2>3, <2>4 DEF Copies, Members, TypeOK
  <2>6. \A f, g \in pend' : (f.from = g.from /\ f.to = g.to) => f = g
    <3>. SUFFICES ASSUME NEW f \in pend', NEW g \in pend', f.from = g.from, f.to = g.to
                  PROVE  f = g
      OBVIOUS
    <3>1. CASE f \in pend
      BY <3>1, <2>3, <2>4 DEF Copies
    <3>2. CASE f \notin pend
      <4>1. g \notin pend
        BY <3>2, <2>3, <2>4
      <4>2. /\ f \in [from : Client, n : Nat, intact : BOOLEAN, to : Client]
            /\ g \in [from : Client, n : Nat, intact : BOOLEAN, to : Client]
            /\ f.n = g.n /\ f.intact = TRUE /\ g.intact = TRUE
        BY <1>2, <3>2, <4>1, FreshCopies
      <4>. QED
        BY <4>2
    <3>. QED
      BY <3>1, <3>2
  <2>. QED
    BY <2>1, <2>2, <2>5, <2>6 DEF Copies
<1>3. ASSUME NEW F \in SUBSET pend, Collide(F) PROVE Copies'
  <2>1. /\ UNCHANGED <<status, room, closed, sent, taken>>
        /\ pend' = (pend \ F) \cup Spoilt(F)
    BY <1>3 DEF Collide
  <2>2. \A g \in pend' : /\ g.n = taken[g.from] /\ g.n >= 1
                         /\ g.to # g.from /\ room[g.to] = room[g.from]
                         /\ status[g.to] = "in" \/ closed[g.to]
    BY <2>1, SpoiltCopies DEF Copies
  <2>3. ASSUME NEW f \in pend', NEW g \in pend', f.from = g.from, f.to = g.to
        PROVE  f = g
    <3>1. CASE f \notin Spoilt(F) /\ g \notin Spoilt(F)
      BY <3>1, <2>1, <2>3 DEF Copies
    <3>2. CASE f \in Spoilt(F) /\ g \in Spoilt(F)
      <4>1. PICK e \in F : f = [e EXCEPT !.intact = FALSE]
        BY <3>2 DEF Spoilt
      <4>2. PICK h \in F : g = [h EXCEPT !.intact = FALSE]
        BY <3>2 DEF Spoilt
      <4>3. /\ e \in [from : Client, n : Nat, intact : BOOLEAN, to : Client]
            /\ h \in [from : Client, n : Nat, intact : BOOLEAN, to : Client]
        BY DEF TypeOK
      <4>4. e.from = h.from /\ e.to = h.to
        BY <4>1, <4>2, <4>3, <2>3
      <4>5. e = h
        BY <4>4 DEF Copies
      <4>. QED
        BY <4>1, <4>2, <4>5
    <3>3. ASSUME NEW x \in Spoilt(F), NEW y \in pend', y \notin Spoilt(F)
          PROVE  ~(x.from = y.from /\ x.to = y.to)
      <4>1. PICK e \in F : x.from = e.from /\ x.to = e.to
        BY SpoiltCopies
      <4>2. y \in pend \ F
        BY <3>3, <2>1
      <4>. QED
        BY <4>1, <4>2 DEF Copies
    <3>. QED
      BY <3>1, <3>2, <3>3, <2>3
  <2>. QED
    BY <2>1, <2>2, <2>3 DEF Copies
<1>4. ASSUME NEW f \in pend, Deliver(f) \/ Lose(f) PROVE Copies'
  BY <1>4 DEF Deliver, Lose, Copies
<1>5. ASSUME NEW S \in SUBSET Client,
             NEW T \in SUBSET {c \in Client : status[c] = "in" /\ taken[c] < sent[c]},
             Reset(S, T)
      PROVE  Copies'
  <2>1. pend' = {} /\ sent' = sent
    BY <1>5 DEF Reset
  <2>2. \A c \in Client : taken'[c] <= sent[c]
    BY <1>5 DEF Reset, TypeOK, Copies
  <2>. QED
    BY <2>1, <2>2 DEF Copies
<1>. QED
  BY StepKinds, <1>1, <1>2, <1>3, <1>4, <1>5

LEMMA ArrivedStep ==
  ASSUME TypeOK, Copies, Arrived, [Next]_bvars
  PROVE  Arrived'
<1>0. \A c \in Client : \A i \in 1 .. Len(got[c]) :
        got[c][i].from \in Client /\ got[c][i].n \in Nat
  BY FrameFields
<1>. DEFINE OkNow(c, i) ==
       /\ got[c][i].from # c /\ room[got[c][i].from] = room[c]
       /\ got[c][i].n \in 1 .. taken[got[c][i].from]
       /\ status[c] = "in" \/ closed[c]
<1>1. CASE Still
  BY <1>1 DEF Still, Arrived, TypeOK
<1>2. ASSUME NEW c \in Client, Take(c) PROVE Arrived'
  <2>1. /\ UNCHANGED <<status, room, closed, got>>
        /\ \A d \in Client : taken'[d] \in Nat /\ taken[d] \in Nat /\ taken[d] <= taken'[d]
    BY <1>2 DEF Take, TypeOK
  <2>2. \A d \in Client : \A i \in 1 .. Len(got[d]) : got[d][i].n \in 1 .. taken'[got[d][i].from]
    <3>. SUFFICES ASSUME NEW d \in Client, NEW i \in 1 .. Len(got[d])
                  PROVE  got[d][i].n \in 1 .. taken'[got[d][i].from]
      OBVIOUS
    <3>1. got[d][i].from \in Client /\ got[d][i].n \in 1 .. taken[got[d][i].from]
      BY <1>0 DEF Arrived
    <3>2. ASSUME NEW a \in Nat, NEW b \in Nat, a <= b, NEW x \in 1 .. a  PROVE  x \in 1 .. b
      BY <3>2
    <3>. QED
      BY <2>1, <3>1, <3>2
  <2>3. \A g \in pend' : \A i \in 1 .. Len(got[g.to]) :
          got[g.to][i].from = g.from => got[g.to][i].n < g.n
    <3>. SUFFICES ASSUME NEW g \in pend', NEW i \in 1 .. Len(got[g.to]),
                         got[g.to][i].from = g.from
                  PROVE  got[g.to][i].n < g.n
      OBVIOUS
    <3>1. CASE g \in pend
      BY <3>1 DEF Arrived
    <3>2. CASE g \notin pend
      <4>1. g.from = c /\ g.to \in Client /\ g.n = taken[c] + 1
        BY <1>2, <3>2, FreshCopies DEF Members
      <4>2. got[g.to][i].n \in 1 .. taken[c] /\ taken[c] \in Nat
        BY <4>1 DEF Arrived, TypeOK
      <4>. QED
        BY <4>1, <4>2
    <3>. QED
      BY <3>1, <3>2
  <2>. QED
    BY <2>1, <2>2, <2>3 DEF Arrived
<1>3. ASSUME NEW F \in SUBSET pend, Collide(F) PROVE Arrived'
  <2>1. /\ UNCHANGED <<status, room, closed, taken, got>>
        /\ pend' = (pend \ F) \cup Spoilt(F)
    BY <1>3 DEF Collide
  <2>2. \A g \in pend' : \A i \in 1 .. Len(got[g.to]) :
          got[g.to][i].from = g.from => got[g.to][i].n < g.n
    BY <2>1, SpoiltCopies DEF Arrived
  <2>. QED
    BY <2>1, <2>2 DEF Arrived
<1>4. ASSUME NEW f \in pend, Deliver(f) PROVE Arrived'
  <2>. DEFINE d == f.to  k == Len(got[f.to])
  <2>1. /\ UNCHANGED <<status, room, closed, taken>> /\ pend' = pend \ {f}
        /\ f.to \in Client /\ f.from \in Client
        /\ f.n = taken[f.from] /\ f.n >= 1 /\ f.n \in Nat
        /\ d # f.from /\ room[d] = room[f.from]
        /\ status[d] = "in" \/ closed[d]
    BY <1>4, DeliverAppends DEF Deliver, Copies
  <2>2. /\ \A c \in Client \ {d} : got'[c] = got[c]
        /\ Len(got'[d]) = k + 1 /\ k \in Nat
        /\ \A i \in 1 .. k : got'[d][i] = got[d][i]
        /\ got'[d][k + 1].from = f.from /\ got'[d][k + 1].n = f.n
    BY <1>4, <2>1, DeliverAppends
  <2>3. ASSUME NEW c \in Client, NEW i \in 1 .. Len(got'[c])
        PROVE  OkNow(c, i)'
    <3>1. CASE c # d \/ i \in 1 .. k
      <4>1. i \in 1 .. Len(got[c]) /\ got'[c][i] = got[c][i]
        BY <3>1, <2>2
      <4>. QED
        BY <4>1, <2>1 DEF Arrived
    <3>2. CASE c = d /\ i \notin 1 .. k
      <4>1. i = k + 1
        BY <3>2, <2>2
      <4>. QED
        BY <3>2, <4>1, <2>1, <2>2
    <3>. QED
      BY <3>1, <3>2
  <2>4. ASSUME NEW g \in pend', NEW i \in 1 .. Len(got'[g.to]),
               got'[g.to][i].from = g.from
        PROVE  got'[g.to][i].n < g.n
    <3>1. g \in pend /\ g # f /\ g.to \in Client
      BY <2>1 DEF TypeOK
    <3>2. CASE g.to # d \/ i \in 1 .. k
      <4>1. i \in 1 .. Len(got[g.to]) /\ got'[g.to][i] = got[g.to][i]
        BY <3>1, <3>2, <2>2
      <4>. QED
        BY <4>1, <3>1, <2>4 DEF Arrived
    <3>3. CASE g.to = d /\ i \notin 1 .. k
      <4>1. i = k + 1
        BY <3>3, <2>2
      <4>2. g.from = f.from
        BY <4>1, <3>3, <2>2, <2>4
      <4>. QED
        BY <4>2, <3>1, <3>3 DEF Copies
    <3>. QED
      BY <3>2, <3>3
  <2>. HIDE DEF d, k
  <2>. QED
    BY <2>1, <2>3, <2>4 DEF Arrived
<1>5. ASSUME NEW f \in pend, Lose(f) PROVE Arrived'
  BY <1>5 DEF Lose, Arrived
<1>6. ASSUME NEW S \in SUBSET Client, NEW T \in SUBSET Client, Reset(S, T)
      PROVE  Arrived'
  <2>0. /\ pend' = {} /\ UNCHANGED <<room, got>>
        /\ \A c \in Client : taken'[c] = IF c \in T THEN taken[c] + 1 ELSE taken[c]
        /\ \A c \in Client : closed'[c] = (c \in S \/ status[c] \in {"open", "in"} \/ closed[c])
    BY <1>6 DEF Reset
  <2>1. /\ \A c \in Client : taken'[c] \in Nat /\ taken[c] \in Nat /\ taken[c] <= taken'[c]
        /\ \A c \in Client : (status[c] = "in" \/ closed[c]) => closed'[c]
    <3>1. \A c \in Client : taken[c] \in Nat
      BY DEF TypeOK
    <3>2. \A c \in Client : taken'[c] \in Nat /\ taken[c] <= taken'[c]
      BY <2>0, <3>1
    <3>3. \A c \in Client : (status[c] = "in" \/ closed[c]) => closed'[c]
      BY <2>0
    <3>. QED
      BY <3>1, <3>2, <3>3
  <2>2. \A d \in Client : \A i \in 1 .. Len(got[d]) : got[d][i].n \in 1 .. taken'[got[d][i].from]
    BY <1>0, <2>1 DEF Arrived
  <2>. QED
    BY <2>0, <2>1, <2>2 DEF Arrived
<1>. QED
  BY StepKinds, <1>1, <1>2, <1>3, <1>4, <1>5, <1>6

-----------------------------------------------------------------------------
LEMMA OrderStep ==
  ASSUME TypeOK, Copies, Arrived, FramesInOrder, [Next]_bvars
  PROVE  FramesInOrder'
<1>1. CASE UNCHANGED got
  BY <1>1 DEF FramesInOrder
<1>2. ASSUME NEW f \in pend, Deliver(f) PROVE FramesInOrder'
  <2>. DEFINE d == f.to  k == Len(got[f.to])
  <2>1. /\ f.to \in Client /\ k \in Nat
        /\ \A c \in Client \ {d} : got'[c] = got[c]
        /\ Len(got'[d]) = k + 1
        /\ \A i \in 1 .. k : got'[d][i] = got[d][i]
        /\ got'[d][k + 1].from = f.from /\ got'[d][k + 1].n = f.n
    BY <1>2, DeliverAppends
  <2>2. \A i \in 1 .. k : got[d][i].from = f.from => got[d][i].n < f.n
    BY DEF Arrived
  <2>. SUFFICES ASSUME NEW c \in Client, NEW i \in 1 .. Len(got'[c]), NEW j \in 1 .. Len(got'[c]),
                       i < j, got'[c][i].from = got'[c][j].from
                PROVE  got'[c][i].n < got'[c][j].n
    BY DEF FramesInOrder
  <2>3. CASE c # d \/ j \in 1 .. k
    <3>1. /\ i \in 1 .. Len(got[c]) /\ j \in 1 .. Len(got[c])
          /\ got'[c][i] = got[c][i] /\ got'[c][j] = got[c][j]
      BY <2>1, <2>3
    <3>. QED
      BY <3>1 DEF FramesInOrder
  <2>4. CASE c = d /\ j \notin 1 .. k
    <3>1. j = k + 1 /\ i \in 1 .. k
      BY <2>1, <2>4
    <3>. QED
      BY <2>1, <2>2, <2>4, <3>1
  <2>. QED
    BY <2>3, <2>4
<1>. QED
  BY StepKinds, <1>1, <1>2 DEF Still, Take, Collide, Lose, Reset

\* What has arrived stays.
LEMMA HasKept ==
  ASSUME TypeOK, [Next]_bvars, NEW c \in Client, NEW s, NEW n, Has(c, s, n)
  PROVE  Has(c, s, n)'
<1>1. CASE UNCHANGED got
  BY <1>1 DEF Has
<1>2. ASSUME NEW f \in pend, Deliver(f) PROVE Has(c, s, n)'
  <2>1. PICK k \in 1 .. Len(got[c]) : got[c][k].from = s /\ got[c][k].n = n
    BY DEF Has
  <2>2. k \in 1 .. Len(got'[c]) /\ got'[c][k] = got[c][k]
    BY <1>2, DeliverAppends
  <2>. QED
    BY <2>1, <2>2 DEF Has
<1>. QED
  BY StepKinds, <1>1, <1>2 DEF Still, Take, Collide, Lose, Reset

\* A frame under way to an open connection is under way still, or has arrived.
LEMMA DueArrives ==
  ASSUME TypeOK, Copies, [Next]_bvars, NEW c \in Client, NEW s, NEW n,
         Due(c, s, n), ~closed'[c]
  PROVE  Due(c, s, n)' \/ Has(c, s, n)'
<1>. PICK f \in pend : f.to = c /\ f.from = s /\ f.n = n
  BY DEF Due
<1>1. CASE Still
  BY <1>1 DEF Still, Due
<1>2. ASSUME NEW b \in Client, Take(b) PROVE Due(c, s, n)'
  BY <1>2 DEF Take, Due
<1>3. ASSUME NEW F \in SUBSET pend, Collide(F) PROVE Due(c, s, n)'
  <2>1. \E g \in pend' : g.to = c /\ g.from = s /\ g.n = n
    <3>1. CASE f \in F
      BY <1>3, <3>1, SpoiltStays DEF Collide
    <3>2. CASE f \notin F
      BY <1>3, <3>2 DEF Collide
    <3>. QED
      BY <3>1, <3>2
  <2>. QED
    BY <2>1 DEF Due
<1>4. ASSUME NEW g \in pend, Deliver(g) PROVE Due(c, s, n)' \/ Has(c, s, n)'
  <2>1. CASE g = f
    <3>1. /\ Len(got[c]) \in Nat /\ Len(got'[c]) = Len(got[c]) + 1
          /\ got'[c][Len(got[c]) + 1].from = s /\ got'[c][Len(got[c]) + 1].n = n
      BY <1>4, <2>1, DeliverAppends
    <3>. QED
      BY <3>1 DEF Has
  <2>2. CASE g # f
    BY <1>4, <2>2 DEF Deliver, Due
  <2>. QED
    BY <2>1, <2>2
<1>5. ASSUME NEW g \in pend, Lose(g) PROVE Due(c, s, n)'
  BY <1>5 DEF Lose, Due
<1>6. ASSUME NEW S \in SUBSET Client, NEW T \in SUBSET Client, Reset(S, T)
      PROVE  FALSE
  <2>1. status[c] = "in" \/ closed[c]
    BY <1>6 DEF Copies
  <2>. QED
    BY <1>6, <2>1 DEF Reset
<1>. QED
  BY StepKinds, <1>1, <1>2, <1>3, <1>4, <1>5, <1>6

LEMMA GotGrows ==
  ASSUME TypeOK, [Next]_bvars, NEW c \in Client
  PROVE  /\ Len(got[c]) \in Nat /\ Len(got'[c]) \in Nat /\ Len(got[c]) <= Len(got'[c])
         /\ \A i \in 1 .. Len(got[c]) : got'[c][i] = got[c][i]
<1>0. Len(got[c]) \in Nat
  BY DEF TypeOK
<1>1. CASE UNCHANGED got
  BY <1>0, <1>1
<1>2. ASSUME NEW f \in pend, Deliver(f)
      PROVE  /\ Len(got'[c]) \in Nat /\ Len(got[c]) <= Len(got'[c])
             /\ \A i \in 1 .. Len(got[c]) : got'[c][i] = got[c][i]
  BY <1>0, <1>2, DeliverAppends
<1>. QED
  BY StepKinds, <1>0, <1>1, <1>2 DEF Still, Take, Collide, Lose, Reset

LEMMA CoveredStep ==
  ASSUME TypeOK, Copies, Arrived, Covered, [Next]_bvars
  PROVE  Covered'
<1>0. \A c \in Client : \A i \in 1 .. Len(got'[c]) :
        got'[c][i].from \in Client /\ got'[c][i].n \in Nat
  BY FrameFieldsNext
<1>. SUFFICES ASSUME NEW c \in Client, NEW i \in 1 .. Len(got'[c]), ~closed'[c],
                     NEW s \in Client, s = got'[c][i].from,
                     NEW n \in Nat, n \in got'[c][i].n .. taken'[s]
              PROVE  Has(c, s, n)' \/ Due(c, s, n)'
  BY <1>0 DEF Covered, Has, Due
<1>1. ASSUME i \in 1 .. Len(got[c]), got'[c][i] = got[c][i]
      PROVE  Has(c, s, n)' \/ Due(c, s, n)'
  <2>1. /\ s \in Client /\ got[c][i].n \in Nat /\ n \in Nat
        /\ got[c][i].from = s /\ got[c][i].n <= n /\ n <= taken'[s] /\ taken[s] \in Nat /\ taken'[s] \in Nat
    <3>1. got[c][i].from \in Client /\ got[c][i].n \in Nat
      BY <1>1, FrameFields
    <3>2. taken \in [Client -> Nat] /\ taken' \in [Client -> Nat]
      BY TypeStep DEF TypeOK
    <3>. QED
      BY <1>1, <3>1, <3>2
  <2>2. CASE n <= taken[s] /\ ~closed[c]
    <3>1. n \in got[c][i].n .. taken[got[c][i].from]
      BY <1>1, <2>1, <2>2
    <3>2. Has(c, got[c][i].from, n) \/ Due(c, got[c][i].from, n)
      BY <1>1, <2>2, <3>1 DEF Covered
    <3>. QED
      BY <1>1, <3>2, HasKept, DueArrives
  <2>3. CASE n > taken[s] /\ ~closed[c]
    <3>0. status[c] = "in" /\ room[s] = room[c] /\ s # c
      BY <1>1, <2>3 DEF Arrived
    <3>1. CASE taken' = taken
      BY <2>1, <2>3, <3>1
    <3>2. ASSUME NEW b \in Client, Take(b) PROVE Due(c, s, n)'
      <4>1. taken' = [taken EXCEPT ![b] = taken[b] + 1] /\ taken \in [Client -> Nat]
        BY <3>2 DEF Take, TypeOK
      <4>2. b = s /\ n = taken[s] + 1
        BY <4>1, <2>1, <2>3
      <4>3. c \in Members(room[s]) \ {s}
        BY <3>0 DEF Members
      <4>4. [from |-> s, n |-> taken[s] + 1, intact |-> TRUE, to |-> c] \in pend'
        BY <3>2, <4>2, <4>3 DEF Take
      <4>. QED
        BY <4>2, <4>4 DEF Due
    <3>3. ASSUME NEW S \in SUBSET Client, NEW T \in SUBSET Client, Reset(S, T) PROVE FALSE
      BY <3>0, <3>3 DEF Reset
    <3>. QED
      BY StepKinds, <3>1, <3>2, <3>3 DEF Still, Collide, Deliver, Lose
  <2>4. ~closed[c]
    BY StepKinds DEF Still, Take, Collide, Deliver, Lose, Reset
  <2>. QED
    BY <2>1, <2>2, <2>3, <2>4
<1>2. CASE UNCHANGED got
  BY <1>1, <1>2
<1>3. ASSUME NEW f \in pend, Deliver(f) PROVE Has(c, s, n)' \/ Due(c, s, n)'
  <2>1. CASE c # f.to \/ i \in 1 .. Len(got[c])
    BY <1>1, <1>3, <2>1, DeliverAppends
  <2>2. CASE c = f.to /\ i \notin 1 .. Len(got[c])
    <3>1. i = Len(got[c]) + 1 /\ s = f.from /\ got'[c][i].n = f.n
      BY <1>3, <2>2, DeliverAppends
    <3>2. f.n = taken[f.from] /\ taken' = taken /\ f.n \in Nat
      BY <1>3, DeliverAppends DEF Copies, Deliver
    <3>3. n = f.n
      BY <3>1, <3>2
    <3>. QED
      BY <3>1, <3>3 DEF Has
  <2>. QED
    BY <2>1, <2>2
<1>. QED
  BY StepKinds, <1>2, <1>3 DEF Still, Take, Collide, Lose, Reset

LEMMA CompleteStep ==
  ASSUME TypeOK, Copies, Arrived, Covered, FramesComplete, [Next]_bvars
  PROVE  FramesComplete'
<1>1. CASE UNCHANGED got
  <2>. DEFINE Full(g) ==
         \A c \in Client : \A i, j \in 1 .. Len(g[c]) :
           g[c][i].from = g[c][j].from =>
             \A n \in g[c][i].n .. g[c][j].n :
               \E k \in 1 .. Len(g[c]) : g[c][k].from = g[c][i].from /\ g[c][k].n = n
  <2>1. Full(got) /\ (Full(got') => FramesComplete')
    BY DEF FramesComplete, Has
  <2>. HIDE DEF Full
  <2>. QED
    BY <1>1, <2>1
<1>2. ASSUME NEW f \in pend, Deliver(f) PROVE FramesComplete'
  <2>. DEFINE d == f.to  k == Len(got[f.to])
  <2>1. /\ f.to \in Client /\ k \in Nat /\ f.n \in Nat
        /\ \A c \in Client \ {d} : got'[c] = got[c]
        /\ Len(got'[d]) = k + 1
        /\ \A i \in 1 .. k : got'[d][i] = got[d][i]
        /\ got'[d][k + 1].from = f.from /\ got'[d][k + 1].n = f.n
    BY <1>2, DeliverAppends
  <2>0. \A c \in Client : \A i \in 1 .. Len(got'[c]) : got'[c][i].n \in Nat
    BY FrameFieldsNext
  <2>. SUFFICES ASSUME NEW c \in Client, NEW i \in 1 .. Len(got'[c]), NEW j \in 1 .. Len(got'[c]),
                       NEW s, got'[c][i].from = s, got'[c][j].from = s,
                       NEW n \in Nat, n \in got'[c][i].n .. got'[c][j].n
                PROVE  Has(c, s, n)'
    BY <2>0 DEF FramesComplete, Has
  <2>2. CASE c # d \/ (i \in 1 .. k /\ j \in 1 .. k)
    <3>1. /\ i \in 1 .. Len(got[c]) /\ j \in 1 .. Len(got[c])
          /\ got'[c][i] = got[c][i] /\ got'[c][j] = got[c][j]
      BY <2>1, <2>2
    <3>2. Has(c, got[c][i].from, n)
      BY <3>1 DEF FramesComplete
    <3>. QED
      BY <3>1, <3>2, HasKept
  <2>3. CASE c = d /\ i \in 1 .. k /\ j \notin 1 .. k
    <3>1. j = k + 1 /\ got'[c][i] = got[c][i] /\ got[c][i].from = f.from
      BY <2>1, <2>3
    <3>2. n \in got[c][i].n .. taken[f.from] /\ ~closed[c]
      BY <1>2, <2>1, <2>3, <3>1 DEF Copies, Deliver
    <3>3. Has(c, f.from, n) \/ Due(c, f.from, n)
      BY <2>3, <3>1, <3>2 DEF Covered
    <3>4. CASE Has(c, f.from, n)
      BY <3>1, <3>4, HasKept
    <3>5. CASE Due(c, f.from, n)
      <4>1. PICK g \in pend : g.to = c /\ g.from = f.from /\ g.n = n
        BY <3>5 DEF Due
      <4>2. n = f.n
        BY <4>1, <2>3 DEF Copies
      <4>. QED
        BY <2>1, <2>3, <3>1, <4>2 DEF Has
    <3>. QED
      BY <3>3, <3>4, <3>5
  <2>4. CASE c = d /\ i \notin 1 .. k
    <3>1. i = k + 1 /\ got'[c][i].from = f.from /\ got'[c][i].n = f.n
      BY <2>1, <2>4
    <3>2. CASE j \in 1 .. k
      <4>1. got'[c][j] = got[c][j] /\ got[c][j].from = f.from /\ got[c][j].n \in Nat
        BY <2>1, <2>4, <3>1, <3>2, FrameFields
      <4>2. got[c][j].n < f.n
        BY <2>4, <3>2, <4>1 DEF Arrived
      <4>. QED
        BY <2>1, <3>1, <4>1, <4>2
    <3>3. CASE j \notin 1 .. k
      <4>1. j = k + 1 /\ n = f.n
        BY <2>1, <2>4, <3>1, <3>3
      <4>. QED
        BY <2>1, <2>4, <3>1, <4>1 DEF Has
    <3>. QED
      BY <3>2, <3>3
  <2>. QED
    BY <2>1, <2>2, <2>3, <2>4
<1>. QED
  BY StepKinds, <1>1, <1>2 DEF Still, Take, Collide, Lose, Reset

-----------------------------------------------------------------------------
LEMMA NetStart == Init => NetInv
BY MaxSentAssumption
   DEF Init, NetInv, TypeOK, Frame, Copies, Arrived, FramesInOrder, Covered, FramesComplete

LEMMA NetStep ==
  ASSUME NetInv, [Next]_bvars
  PROVE  NetInv'
BY TypeStep, CopiesStep, ArrivedStep, OrderStep, CoveredStep, CompleteStep DEF NetInv

\* Order and completeness of what arrives, from any sender at any client, for
\* every number of clients: do_run's loop takes a sender's next frame only when
\* the copies of the last one are written.
THEOREM PromiseKept == Spec => [](FramesInOrder /\ FramesComplete)
<1>1. Init => NetInv
  BY NetStart
<1>2. NetInv /\ [Next]_bvars => NetInv'
  BY NetStep
<1>3. NetInv => FramesInOrder /\ FramesComplete
  BY DEF NetInv
<1>. QED
  BY <1>1, <1>2, <1>3, PTL DEF Spec
=============================================================================
