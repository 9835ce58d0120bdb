---------------------------- MODULE MCSecureChat ----------------------------
(* SecureChat on small instances.                                          *)
EXTENDS SecureChat, TLC

CONSTANTS a, b, d

\* The first connection, whichever side it runs, also sends a message; the
\* others only shake hands.
OneTalks == a :> 2 @@ b :> 1 @@ d :> 1

\* A handshake frame and three messages one way, two the other way.
BothTalk == a :> 4 @@ b :> 3

OwnId == [c \in Client |-> c]

Symmetry == Permutations({b, d})

OneRoom == {"demo"}
=============================================================================
