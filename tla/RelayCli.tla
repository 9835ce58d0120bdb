------------------------------ MODULE RelayCli ------------------------------
(***************************************************************************)
(* relay_cli.cpp's main, from its start to its exit and over restarts: the *)
(* processes of a few terminals on one machine or several.  Processes in   *)
(* one working directory share pins.txt, those given one --id-file share   *)
(* the profile.                                                            *)
(*                                                                         *)
(* The handshake and the relay are one step here, whose outcomes are those *)
(* of SecureChat: who is at the other end, or that it failed.  Any session *)
(* may also be with somebody elsewhere.                                    *)
(***************************************************************************)
EXTENDS TofuPins, RoomNames

CONSTANTS Setup,      \* command lines, profiles there from the start, disks that may get full
          Stranger,   \* people elsewhere
          MaxStarts   \* bound: how often a process is started

VARIABLES
  setup,    \* the one of Setup this behaviour has; it never changes
  starts,
  stage,    \* where main is
  conn,     \* "none", "up", "ending": our close frame is on its way, "down"
  running,
  rx,       \* the receive thread: "none", "read" or "ended"
  peer      \* peer_fp

mainVars == <<setup, starts, stage, conn, running, rx, peer>>
vars == <<mainVars, storeVars, pinVars>>

-----------------------------------------------------------------------------
(* Who has which key pair, and what a process was told on its command line *)
MadeBy(p, n) == <<p, n>>
FoundAt(f) == <<f, 0>>
FaceOf(s) == <<s, 0>>

Cmd(p) == setup.cmd[p]
KeyOf(p) == Cmd(p).room
Faces(p, q) == RelayRoom(KeyOf(p)) = RelayRoom(KeyOf(q)) /\ Cmd(p).mode # Cmd(q).mode

CommandLine == [mode : {"host", "connect"}, room : PinKey, pw : Password, path : Path, dir : Dir]

ASSUME CliAssumption ==
  /\ Setup \subseteq [cmd : [Proc -> CommandLine], old : SUBSET Path, full : SUBSET Dir]
  /\ MaxStarts \in Nat \ {0}
  /\ \A p \in Proc, n \in 1 .. MaxStarts : MadeBy(p, n) \in Identity
  /\ \A f \in Path : FoundAt(f) \in Identity
  /\ \A s \in Stranger : FaceOf(s) \in Identity

Stages == {"off", "identity", "dial", "shake", "pin", "chat", "quit", "closing", "exit", "over"}

\* A process that is not in its chat or on the way out of it has no receive
\* thread, and one whose receive thread has ended is not running.
CliTypeOK ==
  /\ StoreTypeOK /\ PinTypeOK
  /\ setup \in Setup
  /\ starts \in [Proc -> 0 .. MaxStarts]
  /\ stage \in [Proc -> Stages]
  /\ conn \in [Proc -> {"none", "up", "ending", "down"}]
  /\ running \in [Proc -> BOOLEAN]
  /\ rx \in [Proc -> {"none", "read", "ended"}]
  /\ peer \in [Proc -> Identity]
  /\ \A p \in Proc :
       /\ rx[p] # "none" => stage[p] \in {"chat", "quit", "closing", "exit"}
       /\ running[p] => rx[p] = "read"

CliInit ==
  /\ setup \in Setup
  /\ exists = [f \in Path |-> f \in setup.old]
  /\ \E whole \in SUBSET setup.old, pw \in [Path -> Password] :
       content = [f \in Path |-> IF f \in whole THEN {[id |-> FoundAt(f), pw |-> pw[f]]} ELSE {}]
  /\ idstep = [p \in Proc |-> "check"]
  /\ mine = [p \in Proc |-> FoundAt(Cmd(p).path)]
  /\ pins = [d \in Dir |-> <<>>]
  /\ torn = [d \in Dir |-> {}]
  /\ pinstep = [p \in Proc |-> "look"]
  /\ found = [p \in Proc |-> FALSE]
  /\ starts = [p \in Proc |-> 0]
  /\ stage = [p \in Proc |-> "off"]
  /\ conn = [p \in Proc |-> "none"]
  /\ running = [p \in Proc |-> FALSE]
  /\ rx = [p \in Proc |-> "none"]
  /\ peer = mine

-----------------------------------------------------------------------------
Move(p, to) == stage' = [stage EXCEPT ![p] = to]

Start(p) ==
  /\ stage[p] \in {"off", "over"} /\ starts[p] < MaxStarts
  /\ starts' = [starts EXCEPT ![p] = @ + 1]
  /\ Move(p, "identity")
  /\ UNCHANGED <<setup, conn, running, rx, peer, storeVars, pinVars>>

\* engine.loadOrCreateIdentity; an error ends the program.
IdentityStep(p) ==
  /\ stage[p] = "identity"
  /\ LoadOrCreate(p, Cmd(p).path, Cmd(p).pw, MadeBy(p, starts[p]))
  /\ Move(p, CASE idstep'[p] = "done" -> "dial"
               [] idstep'[p] = "error" -> "exit"
               [] OTHER -> "identity")
  /\ UNCHANGED <<setup, starts, conn, running, rx, peer, pinVars>>

\* ws.connect_url.  It returns false only for a bad URL; a connection refused or
\* an answer other than 101 is an exception that nobody catches.
Dial(p) ==
  /\ stage[p] = "dial"
  /\ \/ Move(p, "shake") /\ conn' = [conn EXCEPT ![p] = "up"]
     \/ Move(p, "exit") /\ UNCHANGED conn
  /\ UNCHANGED <<setup, starts, running, rx, peer, storeVars, pinVars>>

Shaking(p) == stage[p] = "shake" /\ conn[p] = "up"

\* h's answer to c's hello is the end of the handshake for h; whether it gets
\* to c is open.
ShakeHands(h, c) ==
  /\ Shaking(h) /\ Cmd(h).mode = "host" /\ Shaking(c) /\ Faces(h, c)
  /\ \E end \in {"pin", "quit"} : stage' = [stage EXCEPT ![h] = "pin", ![c] = end]
  /\ peer' = [peer EXCEPT ![h] = mine[c], ![c] = mine[h]]
  /\ UNCHANGED <<setup, starts, conn, running, rx, storeVars, pinVars>>

ShakeStranger(p) ==
  /\ Shaking(p)
  /\ \E s \in Stranger : peer' = [peer EXCEPT ![p] = FaceOf(s)]
  /\ Move(p, "pin")
  /\ UNCHANGED <<setup, starts, conn, running, rx, storeVars, pinVars>>

\* Another frame than the expected one, or the end of the connection.  To return
\* from main is to destroy the transport, which closes it: see Quit.
ShakeFails(p) ==
  /\ stage[p] = "shake"
  /\ Move(p, "quit")
  /\ UNCHANGED <<setup, starts, conn, running, rx, peer, storeVars, pinVars>>

\* The peer is compared with the pin, or pinned; then the chat begins, with its
\* receive thread, or the program ends.
PinStep(p) ==
  /\ stage[p] = "pin"
  /\ PinPeer(p, Cmd(p).dir, KeyOf(p), peer[p], Cmd(p).dir \in setup.full)
  /\ Move(p, CASE pinstep'[p] = "ok" -> "chat"
               [] pinstep'[p] = "refused" -> "quit"
               [] OTHER -> "pin")
  /\ LET chats == pinstep'[p] = "ok" IN
       /\ running' = [running EXCEPT ![p] = chats]
       /\ rx' = [rx EXCEPT ![p] = IF chats THEN "read" ELSE "none"]
  /\ UNCHANGED <<setup, starts, conn, peer, storeVars>>

-----------------------------------------------------------------------------
(* The chat: main reads lines, the receive thread frames *)

\* Fault: running is not looked at after a line is sent.
TypeOn(p) ==
  /\ stage[p] = "chat" /\ conn[p] = "down" /\ running[p]
  /\ Move(p, "quit")
  /\ UNCHANGED <<setup, starts, conn, running, rx, peer, storeVars, pinVars>>

\* The user types a line: it is sent, and running looked at before the next is
\* read.  On a connection that is down send may fail or not; a line sent changes
\* nothing here.
Type(p) ==
  /\ stage[p] = "chat" /\ (conn[p] = "down" \/ ~running[p])
  /\ Move(p, "quit")
  /\ UNCHANGED <<setup, starts, conn, running, rx, peer, storeVars, pinVars>>

\* The end of the input: getline fails.
Eof(p) ==
  /\ stage[p] = "chat"
  /\ Move(p, "quit")
  /\ UNCHANGED <<setup, starts, conn, running, rx, peer, storeVars, pinVars>>

\* recv fails on a connection that is down; when it returns a frame, running is
\* looked at before the next one.
RxEnds(p) ==
  /\ rx[p] = "read" /\ (conn[p] = "down" \/ ~running[p])
  /\ rx' = [rx EXCEPT ![p] = "ended"]
  /\ running' = [running EXCEPT ![p] = FALSE]
  /\ UNCHANGED <<setup, starts, stage, conn, peer, storeVars, pinVars>>

-----------------------------------------------------------------------------
(* The end *)

\* Fault: the program waits for the receive thread without a close.
QuitOpen(p) ==
  /\ stage[p] = "quit"
  /\ Move(p, "exit")
  /\ running' = [running EXCEPT ![p] = FALSE]
  /\ UNCHANGED <<setup, starts, conn, rx, peer, storeVars, pinVars>>

\* ws.close sends a close frame and then reads until the relay's is there.
Quit(p) ==
  /\ stage[p] = "quit"
  /\ Move(p, "closing")
  /\ running' = [running EXCEPT ![p] = FALSE]
  /\ conn' = [conn EXCEPT ![p] = IF @ = "up" THEN "ending" ELSE @]
  /\ UNCHANGED <<setup, starts, rx, peer, storeVars, pinVars>>

\* The relay answers a close frame and ends the connection; close and the
\* receive thread are both reading, and whichever gets the answer, the other
\* gets the end of the stream.
RelayCloses(p) ==
  /\ conn[p] = "ending"
  /\ conn' = [conn EXCEPT ![p] = "down"]
  /\ UNCHANGED <<setup, starts, stage, running, rx, peer, storeVars, pinVars>>

\* The relay dies, or the network fails in a way the client is told of.
ConnLost(p) ==
  /\ conn[p] = "up"
  /\ conn' = [conn EXCEPT ![p] = "down"]
  /\ UNCHANGED <<setup, starts, stage, running, rx, peer, storeVars, pinVars>>

CloseReturns(p) ==
  /\ stage[p] = "closing" /\ conn[p] = "down"
  /\ Move(p, "exit")
  /\ UNCHANGED <<setup, starts, conn, running, rx, peer, storeVars, pinVars>>

\* What a process keeps in its memory is gone with it; mine is remembered here.
Gone(p) ==
  /\ Move(p, "over")
  /\ conn' = [conn EXCEPT ![p] = "none"]
  /\ running' = [running EXCEPT ![p] = FALSE]
  /\ rx' = [rx EXCEPT ![p] = "none"]
  /\ peer' = [peer EXCEPT ![p] = mine[p]]
  /\ idstep' = [idstep EXCEPT ![p] = "check"]
  /\ pinstep' = [pinstep EXCEPT ![p] = "look"]
  /\ found' = [found EXCEPT ![p] = FALSE]
  /\ UNCHANGED <<setup, starts, exists, content, mine, pins, torn>>

\* Fault: main returns without joining the receive thread.
ExitUnjoined(p) ==
  /\ stage[p] = "exit"
  /\ Move(p, "over")
  /\ UNCHANGED <<setup, starts, conn, running, rx, peer, storeVars, pinVars>>

\* rx.join, if there is such a thread, and the return from main.
Exit(p) == stage[p] = "exit" /\ rx[p] # "read" /\ Gone(p)

\* The process dies: by a signal, or by a frame that does not decrypt.
Die(p) == stage[p] \notin {"off", "over"} /\ Gone(p)

Step(p) ==
  \/ Start(p) \/ IdentityStep(p) \/ Dial(p) \/ ShakeStranger(p) \/ ShakeFails(p)
  \/ PinStep(p) \/ Type(p) \/ Eof(p) \/ RxEnds(p)
  \/ Quit(p) \/ RelayCloses(p) \/ ConnLost(p) \/ CloseReturns(p) \/ Exit(p) \/ Die(p)

CliNext == (\E p \in Proc : Step(p)) \/ (\E h, c \in Proc : ShakeHands(h, c))

CliSpec == CliInit /\ [][CliNext]_vars

\* The two threads of a program run, and the relay answers a close; no frame
\* needs to come.
Ending(p) == Quit(p) \/ CloseReturns(p) \/ Exit(p)

CliFairness ==
  \A p \in Proc :
    /\ WF_vars(Ending(p)) /\ WF_vars(RelayCloses(p))
    /\ WF_vars(RxEnds(p) /\ conn[p] = "down")

\* The user of a program that is waiting for a line types one some day.
UserTypes == \A p \in Proc : WF_vars(Type(p) /\ ~running[p])

FairCliSpec == CliSpec /\ CliFairness /\ UserTypes

-----------------------------------------------------------------------------
(* Correctness *)

\* relay_cli.cpp aborts when the fingerprint differs from the pinned one: a
\* chat for which a pin was found is with the peer that is pinned, now as well
\* as then, whatever other processes have written to pins.txt since.
PinObeyed ==
  \A p \in Proc : (stage[p] = "chat" /\ found[p]) => PinIs(Cmd(p).dir, KeyOf(p), peer[p])

\* No process is between its test for the file and its last write to it.
Quiet(f) ==
  exists[f] /\ ~\E p \in Proc : Cmd(p).path = f /\ idstep[p] \in {"create", "write"}

\* loadOrCreateIdentity makes a profile once: when those that found no file are
\* done, what is there (a whole profile, or the stump that a crash left) stays,
\* whoever is started and however often.
ProfileStays ==
  [][\A f \in Path : Quiet(f) => Quiet(f)' /\ content'[f] = content[f]]_vars

\* The only user of a profile keeps the identity it once had, through crashes,
\* full disks and restarts: the peers that pinned it never see another.
IdentityKept ==
  [][\A p \in Proc :
       (/\ \A q \in Proc \ {p} : Cmd(q).path # Cmd(p).path
        /\ mine[p] # FoundAt(Cmd(p).path) \/ Cmd(p).path \in setup.old)
          => mine'[p] = mine[p]]_vars

\* The profiles of those whose fingerprints processes in p's directory pin
\* under p's key.
PinnedPaths(p) ==
  {Cmd(r).path : r \in {r \in Proc : \E q \in Proc :
     Cmd(q).dir = Cmd(p).dir /\ KeyOf(q) = KeyOf(p) /\ Faces(q, r)}}

Settled(f) == f \in setup.old \/ \E p \in Proc : {q \in Proc : Cmd(q).path = f} = {p}

OneProfile(p) == \E f \in Path : PinnedPaths(p) \subseteq {f} /\ Settled(f)

StrangerMet(p) ==
  \E s \in Stranger : peer[p] = FaceOf(s) \/ PinIs(Cmd(p).dir, KeyOf(p), FaceOf(s))

LineCut(p) == CutLineOf(Cmd(p).dir, KeyOf(p), Identity)

\* Peers who come back are not refused: where the users of a pin always meet
\* the user of one profile, which was there from the start or has no other
\* user, "[TOFU] Peer fingerprint changed" takes somebody else in the room, or a
\* pin of the key that a full disk cut short or that was written behind a cut.
PeersNotRefused ==
  \A p \in Proc :
    (pinstep[p] = "refused" /\ OneProfile(p)) => StrangerMet(p) \/ LineCut(p)

\* Ctrl-D ends the program: main waits in close and then for the receive
\* thread, which waits in a read that only the close can end.
QuitEnds == \A p \in Proc : (stage[p] \in {"quit", "closing", "exit"}) ~> stage[p] = "over"

\* A program whose connection fails during a chat ends, if its user types.
LossEnds == \A p \in Proc : (stage[p] = "chat" /\ conn[p] = "down") ~> stage[p] = "over"
=============================================================================
