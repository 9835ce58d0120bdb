-------------------------- MODULE RelayRefinement --------------------------
(***************************************************************************)
(* RelayServer implements RoomBroadcast.  The relay has taken a frame when *)
(* Collect has fixed who gets it, not when ws.read returned it, and a copy *)
(* is pending from then until ws.write on its target returns.              *)
(***************************************************************************)
EXTENDS RelayServer

PromisedStatus ==
  [s \in Session |-> IF pc[s] \in {"idle", "http"} THEN "out"
                     ELSE IF pc[s] = "upgraded" THEN "open"
                     ELSE IF pc[s] \in Loop THEN "in" ELSE "gone"]

PromisedTaken ==
  [s \in Session |-> IF pc[s] = "collect" THEN taken[s] - 1 ELSE taken[s]]

Copy(s, p, ok) == [from |-> s, n |-> taken[s], intact |-> ok, to |-> p]

PromisedPend ==
  (UNION {{Copy(s, p, TRUE) : p \in todo[s]} : s \in Session})
    \cup {Copy(s, tgt[s], s \notin spoilt) : s \in {t \in Session : pc[t] = "write"}}

Promise == INSTANCE RoomBroadcast WITH
             Client <- Session,
             status <- PromisedStatus, taken <- PromisedTaken, pend <- PromisedPend

\* The threads, the lock and the sockets of relay_server.cpp do to each frame
\* what the abstract room does, whatever the interleaving and the crashes.
Implements == Promise!Spec
=============================================================================
