---------------------------- MODULE FrameChannel ----------------------------
(***************************************************************************)
(* What transport.h promises of send and recv, and what the Channel of     *)
(* tools/engine_loopback_test.cpp does: in each direction whole frames     *)
(* come out in the order they went in, and recv gives up only on a channel *)
(* that is closed and has nothing left, or that has failed.                *)
(***************************************************************************)
EXTENDS Naturals, Sequences

CONSTANTS End,   \* the two ends; a direction is named after its sender
          Frame

VARIABLES
  sent,   \* frames each end has sent
  got,    \* frames that have come out of each direction
  state,  \* of each direction: "open", "closed" by its sender, "failed"
  gaveup  \* recv at the other end has returned false

chvars == <<sent, got, state, gaveup>>

ChannelInit ==
  /\ sent = [e \in End |-> <<>>]
  /\ got = [e \in End |-> <<>>]
  /\ state = [e \in End |-> "open"]
  /\ gaveup = [e \in End |-> FALSE]

SendFrame(e) ==
  /\ state[e] # "closed"
  /\ \E f \in Frame : sent' = [sent EXCEPT ![e] = Append(@, f)]
  /\ UNCHANGED <<got, state, gaveup>>

RecvFrame(e) ==
  /\ Len(got[e]) < Len(sent[e]) /\ ~gaveup[e]
  /\ got' = [got EXCEPT ![e] = Append(@, sent[e][Len(@) + 1])]
  /\ UNCHANGED <<sent, state, gaveup>>

GiveUp(e) ==
  /\ state[e] = "failed" \/ (state[e] = "closed" /\ got[e] = sent[e])
  /\ gaveup' = [gaveup EXCEPT ![e] = TRUE]
  /\ UNCHANGED <<sent, got, state>>

CloseChannel(e) ==
  /\ state[e] = "open"
  /\ state' = [state EXCEPT ![e] = "closed"]
  /\ UNCHANGED <<sent, got, gaveup>>

\* Directions may fail together.
FailChannels(es) ==
  /\ state' = [e \in End |-> IF e \in es THEN "failed" ELSE state[e]]
  /\ UNCHANGED <<sent, got, gaveup>>

ChannelNext ==
  \/ \E e \in End : SendFrame(e) \/ RecvFrame(e) \/ GiveUp(e) \/ CloseChannel(e)
  \/ \E es \in SUBSET End : FailChannels(es)

ChannelSpec == ChannelInit /\ [][ChannelNext]_chvars
=============================================================================
