----------------------------- MODULE TcpFraming -----------------------------
(***************************************************************************)
(* tcp_transport.cpp: frames over a byte stream, each a length in network  *)
(* order and then its bytes, in two writes; recv reads the length, then    *)
(* that many bytes.  A direction is named after the end that writes it.    *)
(*                                                                         *)
(* Bytes are units: a frame has Header units of length and then as many as *)
(* its body has.  The kernel takes and hands over one unit at a time,      *)
(* which covers every way of splitting and joining writes and reads.       *)
(***************************************************************************)
EXTENDS Naturals, Sequences

CONSTANTS End, Frame, Header, Body,
          Capacity  \* bound: units a direction holds that are not read yet

ASSUME FramingAssumption ==
  Header \in Nat \ {0} /\ Body \in [Frame -> Nat \ {0}] /\ Capacity \in Nat \ {0}

VARIABLES
  out,     \* what is left to write of the frame that an end is sending
  flight,  \* units written and not arrived
  inbox,   \* units arrived and not read
  buf,     \* what recv at the other end has read of the current frame
  state,   \* of a direction: "open", "closed" by its sender, "failed"
  sent,    \* frames whose last unit is written
  got,     \* what recv has returned for frames
  gaveup   \* recv has returned false

streamVars == <<out, flight, inbox, buf, state, sent, got, gaveup>>

Bytes(f) == [i \in 1 .. Header + Body[f] |-> <<f, i>>]
Unit == UNION {{<<f, i>> : i \in 1 .. Header + Body[f]} : f \in Frame}

StreamTypeOK ==
  /\ out \in [End -> Seq(Unit)] /\ flight \in [End -> Seq(Unit)]
  /\ inbox \in [End -> Seq(Unit)] /\ buf \in [End -> Seq(Unit)]
  /\ state \in [End -> {"open", "closed", "failed"}]
  /\ sent \in [End -> Seq(Frame)] /\ got \in [End -> Seq(Seq(Unit))]
  /\ gaveup \in [End -> BOOLEAN]
  /\ \A e \in End : Len(flight[e]) + Len(inbox[e]) <= Capacity

StreamInit ==
  /\ out = [e \in End |-> <<>>] /\ flight = [e \in End |-> <<>>]
  /\ inbox = [e \in End |-> <<>>] /\ buf = [e \in End |-> <<>>]
  /\ state = [e \in End |-> "open"]
  /\ sent = [e \in End |-> <<>>] /\ got = [e \in End |-> <<>>]
  /\ gaveup = [e \in End |-> FALSE]

-----------------------------------------------------------------------------
(* send *)

\* Fault: the body is not written after the length.
BeginSendLength(e, f) ==
  /\ out' = [out EXCEPT ![e] = SubSeq(Bytes(f), 1, Header)]
  /\ UNCHANGED <<flight, inbox, buf, state, sent, got, gaveup>>

BeginSend(e, f) ==
  /\ out' = [out EXCEPT ![e] = Bytes(f)]
  /\ UNCHANGED <<flight, inbox, buf, state, sent, got, gaveup>>

\* The kernel takes a unit when there is room; on a direction that has failed
\* it takes what nobody will read, until the sender is told.
WriteUnit(e, f) ==
  /\ out[e] # <<>>
  /\ \/ /\ state[e] = "open" /\ Len(flight[e]) + Len(inbox[e]) < Capacity
        /\ flight' = [flight EXCEPT ![e] = Append(@, Head(out[e]))]
     \/ state[e] = "failed" /\ UNCHANGED flight
  /\ out' = [out EXCEPT ![e] = Tail(@)]
  /\ sent' = IF Len(out[e]) = 1 THEN [sent EXCEPT ![e] = Append(@, f)] ELSE sent
  /\ UNCHANGED <<inbox, buf, state, got, gaveup>>

-----------------------------------------------------------------------------
(* recv of what e sends *)
Arrive(e) ==
  /\ flight[e] # <<>> /\ state[e] # "failed"
  /\ inbox' = [inbox EXCEPT ![e] = Append(@, Head(flight[e]))]
  /\ flight' = [flight EXCEPT ![e] = Tail(@)]
  /\ UNCHANGED <<out, buf, state, sent, got, gaveup>>

\* The length is known when its last unit is read.
Complete(units) == Len(units) > Header /\ Len(units) = Header + Body[units[1][1]]

ReadUnit(e) ==
  /\ inbox[e] # <<>>
  /\ inbox' = [inbox EXCEPT ![e] = Tail(@)]
  /\ LET units == Append(buf[e], Head(inbox[e])) IN
       IF Complete(units)
       THEN /\ got' = [got EXCEPT ![e] = Append(@, units)]
            /\ buf' = [buf EXCEPT ![e] = <<>>]
       ELSE /\ buf' = [buf EXCEPT ![e] = units]
            /\ UNCHANGED got
  /\ UNCHANGED <<out, flight, state, sent, gaveup>>

\* Fault: what was read of a frame at the end of the stream counts as one.
RecvPart(e) ==
  /\ \/ state[e] = "failed"
     \/ state[e] = "closed" /\ flight[e] = <<>> /\ inbox[e] = <<>>
  /\ got' = [got EXCEPT ![e] = Append(@, buf[e])]
  /\ UNCHANGED <<out, flight, inbox, buf, state, sent, gaveup>>

\* The end of the stream, or an error: an exception, and recv returns false,
\* whatever it has read of a frame.
RecvFails(e) ==
  /\ \/ state[e] = "failed"
     \/ state[e] = "closed" /\ flight[e] = <<>> /\ inbox[e] = <<>>
  /\ gaveup' = [gaveup EXCEPT ![e] = TRUE]
  /\ UNCHANGED <<out, flight, inbox, buf, state, sent, got>>
=============================================================================
