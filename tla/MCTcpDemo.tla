----------------------------- MODULE MCTcpDemo -----------------------------
(* TcpDemo with bodies of different lengths, two of them longer than what  *)
(* a direction holds, and a length of two units that the stream can cut.   *)
EXTENDS TcpDemo, TLC

Lengths == "hello" :> 6 @@ "response" :> 4 @@ "message" :> 2

Ends == {client, server}

Three == {"hello", "response", "message"}
=============================================================================
