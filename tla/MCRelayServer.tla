--------------------------- MODULE MCRelayServer ---------------------------
(* RelayServer on small instances, and its refinement of RoomBroadcast.    *)
EXTENDS RelayRefinement, TLC

CONSTANTS s1, s2, s3, r1, r2

\* Two clients talk, the third only listens: enough for two writers to meet on
\* a third stream.
TwoTalk == s1 :> 2 @@ s2 :> 1 @@ s3 :> 0

\* Both members talk; three frames of one sender have a middle that can be
\* missing.
ThreeAndOne == s1 :> 3 @@ s2 :> 1 @@ s3 :> 0

Symmetry == Permutations({r1, r2})
=============================================================================
