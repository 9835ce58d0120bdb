----------------------------- MODULE RoomNames -----------------------------
(***************************************************************************)
(* From the room a user types to the room the relay puts the client in:    *)
(* relay_cli.cpp's ws_join appends the name to the URL as it is, and       *)
(* relay_server.cpp's get_query_value and url_decode read it back.         *)
(*                                                                         *)
(* A name is a sequence of characters; an escape counts as one of them.    *)
(* Names with a space, which break the request line, are left out.         *)
(***************************************************************************)
EXTENDS Naturals, Sequences

\* The value of the query's first part, which ends at the first ampersand.
FirstPart(name) ==
  LET n == CHOOSE n \in 0 .. Len(name) :
             /\ \A i \in 1 .. n : name[i] # "&"
             /\ n = Len(name) \/ name[n + 1] = "&"
  IN SubSeq(name, 1, n)

\* url_decode, with one escape standing for all.
Decoded(ch) == CASE ch = "+" -> " " [] ch = "%26" -> "&" [] OTHER -> ch

\* The room the relay puts a client in; do_http makes an empty one "default".
RelayRoom(name) ==
  LET room == [i \in 1 .. Len(FirstPart(name)) |-> Decoded(FirstPart(name)[i])]
  IN IF room = <<>> THEN <<"default">> ELSE room
=============================================================================
