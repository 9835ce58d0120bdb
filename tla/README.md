# Verification of the E2EE messaging app

TLA+ models of the program in `src/`: a WebSocket relay (`relay_server.cpp`), an end-to-end encrypted chat
engine (`connection_engine.cpp`) and the clients that join the two. The modules are translated from the source;
`PROJECT.json` maps each definition to the lines it models. TLC checks the modules on small instances; TLAPS
proves every safety property and both refinements that TLC checks for every instance: any number of sessions, rooms
and frames in the relay and the engines over it, of users, directories and starts of the command line client, of
requests to the GUI's worker, and any lengths in the TCP framing.

## 1. Inventory

| Component | State | Operations | Interacts with | Hard behaviour | What makes it correct |
|---|---|---|---|---|---|
| Relay threads (`relay_server.cpp`) | one `do_http` thread per socket, one `do_run` thread per session; the frame and `peers` on each stack | accept, upgrade or answer, register, read, collect, write to each peer, leave | registry (under `g_rooms_mtx`), every peer's stream (outside it) | overlapping writes to one stream; writes that block; peers that leave between collect and write; an exception in a detached thread | frames go to the room, in order, once, without gaps; nobody waits for ever |
| Room registry (`g_rooms`) | room to list of `weak_ptr` | push, three clean-ups, erase | all session threads | a clean-up that removes too much or too little | exactly the sessions inside `do_run` |
| Beast client transport | one stream, `open` | connect, send, recv, close | relay | frames sent to an empty room are lost; no timeouts | send and recv see what the relay did |
| Connection engine: handshake | `session_`, `sessionReady_`, identity | client and server role | any transport, identity store, KEM, signatures | the first frame from a shared room may not be the expected one; the host is ready before the connector | equal keys, right identities, nobody waits for an answer that cannot come |
| Connection engine: messages | the session key | encrypt and serialise, parse and decrypt | transport, AES-GCM | garbled and foreign frames; the error path of `decrypt` | what is shown is the peer's, in order, once |
| Crypto wrappers | none | AES-GCM, HKDF, Kyber, Ed25519 | engine, identity store | error paths | symbolic here |
| Command line client | `running`, two threads, `pins.txt` | connect, handshake, pin, send loop, receive loop | engine, transport, pin file | two processes and two roles sharing one pin file; main thread in `getline` | a changed peer is refused, an unchanged one is not |
| Identity store | profile file | create, load | engine | crash between truncation and flush; two creators; wrong password | the file and the identity in use agree |
| Qt transport (`ws_transport.cpp`) | `inbox_`, `connected_`, `closed_`, condition variable | slots, connect, send, recv, close | the worker's event loop | recv blocks the thread that fills the inbox; wake-ups without the mutex | a waiting receiver is woken |
| GUI worker (`gui/EngineWorker.cpp`) | `mode_`, `isConnected_`, `running_`, `rxThread_`, transports | queued slots, `recvLoop` | both transports, window | start after a remote close; close while receiving | one receive thread per connection, every start is possible after a stop |
| TCP transport, demo programs | one socket | connect, accept, send, recv, close | worker, `client.cpp`, `server.cpp` | header and body written separately | frames are not torn |
| Room names and URLs | none | `ws_join` (two), `url_decode`, `get_query_value` | CLI, GUI, relay | names with reserved characters | both clients and the relay mean the same room |
| Loopback test | two queues | send, receive, one handshake and message | engine | none: one fixed order | its channel is the abstract transport |
| Build, deployment | none | | | | not modelled, except that systemd restarts the relay |

Hazards, each at its line, are listed in `PROJECT.json`.

## 2. Modules

| Module | What it is |
|---|---|
| `RoomBroadcast` | The abstract room: what the relay promises to its clients, with no threads, locks or sockets. |
| `RelayServer` | `relay_server.cpp` in detail: one action per critical section, blocking call, or end of a write. |
| `RelayRefinement` | The mapping under which `RelayServer` implements `RoomBroadcast`. |
| `SecureChat` | `connection_engine.cpp` and the clients' loops, composed with `RoomBroadcast` as the relay. |
| `WsTransport` | `ws_transport.cpp`: the Qt socket's slots and the blocking `recv`. |
| `EngineWorker` | `gui/EngineWorker.cpp` over `WsTransport` and the state of `tcp_transport.cpp`. |
| `IdentityStore` | `create_profile`, `load_profile` and `loadOrCreateIdentity` on a file system that processes share. |
| `TofuPins` | `load_pin` and `save_pin` on a `pins.txt` that processes share; extends `IdentityStore`, whose key pairs the pins name. |
| `RoomNames` | From the room typed to the room the relay reads: `get_query_value`, `url_decode`. |
| `RelayCli` | `relay_cli.cpp`'s `main` with its two threads, over `TofuPins` and `RoomNames`, for several terminals and restarts. |
| `FrameChannel` | The abstract transport: what `transport.h` promises and the loopback test's `Channel` does. |
| `TcpFraming` | `tcp_transport.cpp`'s `send` and `recv` over a byte stream. |
| `TcpDemo` | `client.cpp` and `server.cpp` over `TcpFraming`; shown to implement `FrameChannel`. |
| `RelayServerProofs`, `RoomBroadcastProofs`, `SecureChatProofs`, `EngineWorkerProofs`, `RelayCliProofs`, `TcpDemoProofs` | Theorems about the module each is named after. |
| `RelayRefinementProofs` | The theorem that `RelayServer` implements `RoomBroadcast`. |
| `MCRelayServer`, `MCSecureChat`, `MCRelayCli`, `MCTcpDemo` | Constants for TLC. |

### RelayServer

`pc[s]` is where the thread of connection `s` is: `http` (in `do_http`), `upgraded` (101 sent, `do_run` not begun),
`read`, `collect`, `fanout`, `write` (inside `do_run`), `done`. A step is what a thread does between two points where
another can see it, so `Register`, `Collect` and `Leave` are the three critical sections of `g_rooms_mtx`, and a
`ws.write` is two steps, `BeginWrite` and then `EndWrite` or `WriteFails`, since the lock is not held and writes of
different threads to one stream may overlap. Beast streams do not allow that: overlapping writes spoil any of the
frames or none (`spoilt`). A `write` blocks while the peer's connection holds `SockBuf` unread frames.

`g_rooms` is `rooms`, a partial function from rooms to sets of sessions. A `weak_ptr` is expired when the session's
thread has ended and no fan-out holds it (`Expired`). The order of a room's vector decides only the order in which
peers are written to; `BeginWrite` leaves it open.

`ReplyThrows` is the answer written with the throwing `http::write` on a connection that was reset: the exception leaves
a detached thread and the process dies (`Die`), closing all connections. `Restart` is systemd's `Restart=always`.

### RoomBroadcast and the refinement

A frame is *taken* when `Collect` has fixed who gets it, and one copy per member is *pending* until its write ends
(`PromisedTaken`, `PromisedPend`). Two senders' copies for one client may spoil one another (`Collide`); only copies for
closed connections are lost. `Implements` says that every step of the detailed relay is a step of the abstract one or a
stutter. `SecureChat` then uses the abstract room in place of the threads, so what it assumes of the relay is exactly
what `RelayServer` was shown to do.

### SecureChat

`stage[c]` follows `runClientHandshake` (`hello`, `await`) or `runServerHandshake` (`listen`) to `ready`. Cryptography is
symbolic: a key pair is named after the connection that made it, an encapsulation after the pair's owner and the host,
the session key like the encapsulation, and a signature is the pair of signer and signed parts. Hello and response have
the same wire shape (`handshake.proto` uses the same field numbers), so either parses as the other and only the
signature's context string tells them apart; the model keeps that. What a frame carries is `wire[c][n]`; the relay only
moves frame numbers. `End` is any end of a session: the user, a pin mismatch, a failed connection, a dead relay.

### WsTransport and EngineWorker

The window's requests are queued (`clicks`) and the worker's event loop calls one slot after another. `stack` holds the
slots under way: almost always one at most, but `connect_url` runs a nested event loop, and while it does (`at =
"opening"`) the next slot may be called on top. A slot of the relay kind remembers which transport `ws_` was when it
opened it (`ws`, numbered by `serial`); if another was put in its place meanwhile, `connect_url` returns into a destroyed
object (`crashed`). `crashed` is also the assignment to a joinable `rxThread_`, which is `std::terminate`, and the double
free in `decrypt` (`crypto.h:135`, `:143`), which `badTag` tells from the other two. A tag fails in a start whose password is
not the profile's (`IdentityError`, by way of `identity.cpp:132`) and in the receive thread, on a frame of another key
(`RxTcp`, `RxRelay`; over the relay any other session in the room can send one). As in `SecureChat`, where
`bad_frame_dropped` shows it, what follows the double free is that the program ends.

`recv` follows the one caller of `recv`, the worker in a handshake or the receive thread. `Wait` is two steps, the test
of the predicate and going to sleep, between which the mutex is held: `OnMessage` takes the mutex and is excluded there,
`OnDown` and `Close` do not and are not. The network (`line`, `tcp.peer`) comes and goes as it likes; a handshake is one
frame which is accepted or not, since `SecureChat` has its content.

`CloseWindow` is `~MainWindow`: a last Disconnect is queued and the worker's loop is quit at once, so that `LoopEnds` and
`Dispatch` race for it; the thread's end deletes the worker, whose destructor is the slot `~EngineWorker` here.
`sendMessage` is two steps over TCP, since the write may wait for the peer to read (`Written`). `WindowCloses` leaves out
relay sessions, where the join may wait for ever because `closed_` is set without the mutex, and every start that is under
way or queued, since one that waits for a peer keeps the window waiting too. A tag that fails may end the program first.

The user is either arbitrary or `careful`: starts only when nothing is under way and only after a Disconnect made when
nothing was under way. Both are explored in one run; `CarefulCrashesByTagOnly` is about the second: such a user's program
still comes down by `decrypt`, on a mistyped password or a frame whose tag fails, but by nothing else. The first has two more
ways, and the run reaches them: a start after the peer ended the session, without a Disconnect between, finds `rxThread_`
joinable and `isConnected_` false (`EngineWorker.cpp:271`); two relay starts in a row destroy the transport under the first
(`:142`).

### IdentityStore, TofuPins and RelayCli

`idstep[p]` is where process `p` is in `loadOrCreateIdentity`: the test for the file and its opening are two steps, and
opening (which truncates) and the flush by the stream's destructor are two more, between which the file is empty. `Flush`
may leave anything: the profile, the stump, or what was there. A profile is `{}` while it is not whole, since every test
of `load_profile` then fails, the last one `f.good()`; a wrong password ends the program one way or the other. `mine[p]`
is remembered after a process is gone, which is how `IdentityKept` speaks of restarts. A key pair is named after the
terminal and the number of the start that made it (`MadeBy`), or after the file it was found in (`FoundAt`).

`pinstep[p]` is where `p` is with its pin: `look` (`load_pin` and the comparison), `scan` and `append` (`save_pin`). A line
of `pins.txt` is a record of key and fingerprint; the first line of a key wins. The key is the relay's host and the room as
typed; one relay is modelled, so the room stands for it. An append may be cut short by a full disk: `torn[d]` is the line that
was cut and those written behind it, which run into it. `load_pin` reads words in pairs wherever lines end, so that from there
on a key may be met beside its fingerprint, a part of it or another word, or be missed; `Look` and `Scan` allow each. The lines
before the cut, `pins[d]`, are read as before.

`stage[p]` follows `main`; `rx[p]` is the receive thread, `running[p]` the flag they share, `conn[p]` the stream. `ShakeHands`
is the outcome that `SecureChat` shows a handshake to have, in one step: both have the other's identity, but the connector
may end without having seen the answer. `ShakeStranger` is a session with somebody elsewhere. `Quit` sends the close frame
and `CloseReturns` is the end of the read that follows it in `ws.close`; the receive thread reads the same stream meanwhile,
and whichever of the two gets the relay's answer, the other gets the end of the stream. `Setup` fixes the command lines of
a behaviour; `old` is the profiles that are there from the start, `full` the directories whose disk may get full in the
middle of a line of `pins.txt`.

Three behaviours the model has and no property denies: a process that looked before another pinned the key goes on with a
peer that it never compares with that pin, and prints "pinned" (`Scan`); "pinned" is printed when nothing or half a line was
written (`AppendPin`); and who has a line at a cut, or behind one, may be refused or pinned again. `PinObeyed` says what is
left: a pin that was *found*, in a line before any cut, is obeyed. `PeersNotRefused` excuses a refusal over a cut (`LineCut`),
and it says nothing of two profiles pinned under one key, or of a profile made by two at once (`OneProfile`).

### FrameChannel, TcpFraming and TcpDemo

A frame is a sequence of units, `Header` of length and then its body; `WriteUnit`, `Arrive` and `ReadUnit` move one, so that
a frame may be cut anywhere by the stream, a full buffer (`Capacity`), a death or a failure. `sent[e]` and `got[e]` are the
frames that `send` has written to the end and that `recv` has returned, in units; under `FrameOf`, which maps what `recv`
returned to a frame or to `"torn"`, `WholeFrames` says that this is `FrameChannel`. A direction is `closed` by its sender
(what is written still arrives) or `failed` (a reset; what is in flight is lost, and the sender is told late).

## 3. Runs

| Run | Instance | Shows |
|---|---|---|
| `relay_safety` | 3 sessions, 2 rooms, frames 2/1/0, 1.2 million states | `TypeOK`, `Registry`, `SameRoomOnly`, `InOrder`, `OnlyClosedLeave`, and the refinement `Implements` |
| `relay_service` | 2 members sending 3 and 1 frames, 1 plain request, fair | `NoGaps`, `FrameReachesMembers`, `ClosedLeave` |
| `chat_safety` | 3 clients in a room, each choosing its side, 5 million states | `KeyAgreement`, `ShownIsPeers` |
| `chat_service` | 2 clients, 4 and 3 frames, fair | `ChatTypeOK`, `ShownInOrder`, `MessageArrives`, `HelloAnswered` |
| `gui_worker` | 3 requests and the window's end, 2 unread messages, 180 thousand states, fair | `WorkerTypeOK`, `NoMessageSlept`, `SessionRecorded`, `CarefulCrashesByTagOnly`, `TcpStops`, `PeerGoneNoticed`, `WindowCloses` |
| `relay_cli` | 2 terminals, 2 starts each, 6 setups, 626 thousand states, fair | `CliTypeOK`, `PinObeyed`, `PeersNotRefused`, `ProfileStays`, `IdentityKept`, `QuitEnds`, `LossEnds` |
| `tcp_demo` | frames of 8, 6 and 4 units, 4 in a direction, 10 thousand states, fair | `DemoTypeOK`, `WholeFrames`, `SentIsPrinted`, `DemoEnds` |

Five more runs check what the repository says and find it refuted:

| Run | Said | Done |
|---|---|---|
| `frames_intact` | README: the relay "simply forwards frames by room" | two fan-outs write one stream at the same time (line 74, outside the lock), and a frame may arrive garbled |
| `bad_request` | `relay_server.cpp:129`: a read error is ignored | the answer that follows may throw in a detached thread and end the relay |
| `handshake_completes` | `MainWindow.cpp:55`: both connect to the same room, then run the handshake | a hello taken before the host joined is gone, and both sides wait for ever |
| `bad_frame_dropped` | `relay_cli.cpp:136`: `[drop]` and go on | a tag mismatch frees the cipher context twice |
| `recv_returns` | `ws_transport.h:22`: `recv` blocks until a message arrives or the connection closes | in the GUI's relay handshake it blocks the event loop that would tell it of either; in a session a close may fall between its test and its sleep |

**Bounds.** `MaxSent` frames per client, `SockBuf` unread frames per connection; both are in guards. Three sessions
are the least with two writers on a third stream; two rooms the least that can be confused; two frames the least with an
order and three the least with a middle to miss; a buffer of one frame already makes writes block. In `relay_service` a fan-out
has one peer, so a write that fails in the middle of one is met in `relay_safety` (`InOrder`, `Implements`) and, for `NoGaps`,
by the theorem `NothingMissing` only; the liveness of the other peers' frames is not checked for that case. Three clients are the
least with two connectors, or two hosts, in one room. In `chat_safety` only one client also sends a message, since
agreement and attribution need one message, and order and completeness are checked with several in `chat_service`.
Symmetry is used in the two safety runs only, over rooms and over two clients with the same constants.
Deadlock is checked for the relay (a finished system takes `Quiet`); the chat runs do not check it, since a host that
waits for a connector that never comes is a legal end, and the bounded number of frames is another.
For the GUI three requests are the least with start, Disconnect, start; four were tried once with the same result
(1.2 million states). Two messages allow one to be read while another waits. `recv_returns` needs one request only.
The GUI runs do not check deadlock: the bounded number of requests is an end, and so is a crash.
For the command line client two terminals are the least that share a file, and two starts each the least with a pin or a
profile to come back to. The setups are: both terminals in one directory with the default `client.id` there, or not; each
user in a directory of its own, one with a profile and one about to make it; two profiles in one directory; a second room
name that the relay reads as the first; a mistyped password. In the first and the fifth of them a line of `pins.txt` may be cut;
in all six the disk may have been full before the line. For the demo programs the header is longer than one unit, the
bodies differ, and all frames but the message are larger than what a direction holds, so that writers wait for readers.
Both runs end, by the bound on starts or by the programs' end, and do not check deadlock.

**Fairness.** In `FairSpec` every relay thread is scheduled whenever it can run (they are plain operating system
threads; a thread stuck in a write is not able to run) and every client reads what arrives. The second is an assumption
about clients: the program has no timeout that would act on one that does not read, since `timeout::suggested` does not
act on synchronous operations, so a client that stops reading stalls the senders of its room for good. No client is
required to connect, send or close. `FairChatSpec` takes the relay's fairness from there and requires of the engines only
that they read frames that are there and answer; users need not send. No loss or garbling is required to happen.
In `FairWorkerSpec` the worker thread, its event loop and the receive thread run when they can (the timer of
`connect_url` makes its nested loop end), and a TCP peer reads what it is sent, as `recvLoop` does; no user or network step is
required.
In `FairCliSpec` both threads of a client run, and the relay answers a close frame (`RelayServer`'s threads do; a network
that loses the relay without telling is thereby excluded, the program has no timeout for it). No frame has to come:
`RxEnds` is required only on a connection that is down. `UserTypes`, a user who types a line some day, is needed by
`LossEnds` alone: main sits in `getline`.
In `FairDemoSpec` both programs run, their user answers the prompt, and what is written arrives or is answered with a reset;
neither deaths nor failures are required.

## 4. Proofs

`RelayServerProofs` proves, from `RelayAssumption` alone (each `MaxSent[s]` a natural number, `SockBuf` positive), for any
sets of sessions and rooms:

| Theorem | States |
|---|---|
| `TypeCorrect` | `TypeOK` |
| `RegistryCorrect` | `Registry`: `g_rooms` is exactly the sessions inside `do_run` |
| `LeavingIsClosing` | `OnlyClosedLeave`: no open connection is ever removed |
| `RoomsAreSeparate` | `SameRoomOnly`: nothing crosses rooms or comes back to its sender |
| `OrderKept` | `InOrder`: a sender's frames arrive in order, at most once |
| `NothingMissing` | `NoGaps`: between two frames that arrived none is missing |

The argument. `Registry` is inductive with `TypeOK`: the lemma `NothingExpired` shows that the clean-ups of expired
`weak_ptr`s never find one, so `Collect` leaves `g_rooms` as it is and `Leave` removes the session itself only.
`SameRoomOnly` needs `Targets`, that a fan-out aims at other sessions of the same room, which comes from `Registry` when
the peers are collected. `InOrder` needs `Progress`: what has arrived is behind what its sender's session has taken,
strictly so while the last frame is still to be delivered, and a peer being written to is not due for a second write of
the frame. `NoGaps` needs `Complete`: an open connection has, from its first frame of a sender on, all that the sender's
session has taken except a frame on its way; and `Reached`: whoever is written to is registered or closed. `Complete` is
where the parts meet: a frame on its way stays so (`StillDue`) because a member that is open is still in `g_rooms` when
the next snapshot is taken, and a write on an open connection cannot fail.

`RelayCliProofs` proves, from `CliAssumption` (command lines and names are in their sets, `MaxStarts` is positive), for any
sets of terminals, paths, directories, passwords, rooms and strangers:

| Theorem | States |
|---|---|
| `TypeCorrect` | `CliTypeOK`, with it that no process ends beside its receive thread |
| `PinsObeyed` | `PinObeyed`: a chat for which a pin was found is with the pinned peer |
| `ProfilesStay` | `ProfileStays`: a profile nobody is making is never changed again |
| `IdentitiesKept` | `IdentityKept`: the only user of a profile keeps its identity |
| `PeersStayWelcome` | `PeersNotRefused`: who is refused where a pin is of one user is a stranger, was pinned after one, or has its line at or behind a cut |

The argument. `PinObeyed` is about a state long after `load_pin`, so `PinInv` carries it from the look to the chat; the lemma
`PinKept` is where appending matters: the first line of a key stays the first. `IdentityKept` needs `FaceInv`, that the file of
a profile's only user holds its identity or nothing, and is there once it has made one. `PeersNotRefused` needs more: a
refusal compares what was pinned once, perhaps by another process about a program that has been restarted since, with the
peer of now. `Met(q, v)` says that `v` is a stranger's fingerprint or the identity, then and for ever, of somebody that `q`
can have as a peer; it is stable (`MetKept`) because of `FaceInv`, and of `OldInv` for profiles that were there from the
start. `SeenInv` says that who is about to pin has met its peer, `LinesInv` that every line was written by somebody who
had met whom it is about, `TornStays` that a cut line stays, and `OneFace` that two
fingerprints of one settled profile are the same.

`RelayRefinementProofs` proves, from `RelayAssumption`:

| Theorem | States |
|---|---|
| `RelayImplements` | `Implements`: every step of a thread, a client, a death or a restart is a step of `RoomBroadcast` or none |

The argument goes action by action. `Collect` is `Take`: the copies it makes pending are one for each other member, because
`Registry` says that `g_rooms` is the members. The end of a write is `Deliver` or `Lose`, the beginning of a write into
another's is `Collide`, `Die` is `Reset`. Beside `Registry` and `Progress` of `RelayServerProofs` it needs `HandOff`: the fan-out's
variables mean something only while the thread is in the fan-out (`todo` is empty elsewhere, the peer being written to is
no longer in it, and what is spoilt is being written).

`RoomBroadcastProofs` proves from `MaxSentAssumption` what a user of the abstract room may rely on:

| Theorem | States |
|---|---|
| `TypeCorrect` | `TypeOK` of the abstract room |
| `PromiseKept` | a sender's frames arrive in order, at most once (`FramesInOrder`), and without gaps (`FramesComplete`) |

`FramesInOrder` alone is not inductive: `Copies` adds that all copies under way of one sender are of its last frame taken, and
`Arrived` that what has arrived is older than what is under way. `FramesComplete` needs `Covered`: an open connection has, or is
about to get, every frame taken since the first it got from that sender.

`SecureChatProofs` proves, from `ChatAssumption` and `MaxSentAssumption`, for any set of connections and any assignment of
identities to them:

| Theorem | States |
|---|---|
| `ChatOverRelay` | `ChatSpec` implements the abstract room's `Spec`, so that `PromiseKept` holds of it |
| `ChatTypeCorrect` | `ChatTypeOK` |
| `KeysAgreed` | `KeyAgreement`: two ends of a session have one key and each other's identity |
| `OnlyPeersShown` | `ShownIsPeers`: what is shown was sent by the other end of the session |
| `OrderShown` | `ShownInOrder`: in order, none twice, none missing but what the relay spoilt |

Key agreement is a statement about two connections that never share state; what links them are the frames. `Wires`
says what a connection has put on the wire, by what it knows: a hello, or a response that names the key it answers, then
only messages under its key. It stays true of a connection that has ended, since others still read its frames. `Readers` says
that a session was made from the first frame that was read. `Shown` ties what is shown to the frames read: each is
one of them, each good one is shown, in order; with the relay's order and completeness (`PromiseKept`'s two parts are conjuncts
of the invariant) that is `OrderShown`.

`EngineWorkerProofs` proves, from `ClickAssumption` (`MaxClicks` a natural number) and `QueueAssumption`:

| Theorem | States |
|---|---|
| `WorkerTypeCorrect` | `WorkerTypeOK` |
| `NobodySleepsBesideMessage` | `NoMessageSlept`: nobody sleeps in `recv` while the inbox has a message |
| `RecordsAgree` | `SessionRecorded`: between slots the session flag, thread, mode and window agree |
| `CarefulCrashIsTag` | `CarefulCrashesByTagOnly`: the program of a user who disconnects between sessions comes down by a tag that fails in `decrypt`, or not at all |

`Nested` describes the stack: only its first slot runs, the others are in `connect_url`. `Counted` bounds the transports ever made
by the starts asked for, which the types of `serial` and `ws` need. `Recorded` is `SessionRecorded` inside the slots too.
`CarefulCrashesByTagOnly` needs `OneStart`: of a careful user's starts at most one is queued or under way, it is the last slot
of the stack, its transport is the newest, and no receive thread is left over, or else the Disconnect that joins it is still due.

`TcpDemoProofs` proves, from `FramingAssumption` and `DemoAssumption` (which say that lengths are positive, and that there are two
programs and three kinds of frame), for any lengths of the header, of the three bodies and of the stream's buffer:

| Theorem | States |
|---|---|
| `DemoTypeCorrect` | `DemoTypeOK` |
| `FramesStayWhole` | `WholeFrames`: the framing implements `FrameChannel` under `FrameOf` |

`Stream` says that a direction carries at most one frame, in four consecutive runs of its units: read into `buf`, arrived, in
flight, left to write; nothing is missing between them unless the direction failed or its sender died. That a direction never
carries two frames is due to the protocol rather than the transport: `Turns` follows the conversation, so that whoever begins a
send finds the direction idle. `Whole` says that what `recv` returned are the units of the frames sent. `GivenUp` says that
nobody reads again after `recv` returned false, and `AllGot` that a closed direction with nothing left to arrive has handed
over all frames, which is what `FrameChannel` asks of `GiveUp`.

The proofs need types stated with function sets and `IF` in place of `CASE`, and no `RECURSIVE` operator, and the modules are
written so.

Model-checked only: the liveness properties (`FrameReachesMembers`, `ClosedLeave`, `MessageArrives`, `HelloAnswered`, `TcpStops`,
`PeerGoneNoticed`, `WindowCloses`, `QuitEnds`, `LossEnds`, `SentIsPrinted`, `DemoEnds`), since fairness and `ENABLED` are outside
what the prover handles. `FramesIntact` and the other refuted statements are of course not theorems.

## 5. Not modelled, and why

- What happens inside a Beast stream that one thread reads and another writes to or closes (the command line client; the
  relay's sessions are read by their own thread and written to by others). The relay's overlapping *writes* are modelled,
  being the hazard that shows; of the client's close beside a read, what each call waits for.
- A `pins.txt` that cannot be read, or that the user edits (a line cut short is modelled); room names with a space, which
  break the request; the GUI's way to a room name, which Qt encodes; base URLs that have a query already.
- TLS, name resolution, thread or memory exhaustion, the accept loop's failure (`Fatal:`), which ends the process like `Die`.
- Connections that vanish without a close: the relay's threads never learn of them.
- Bytes: sizes, padding, plaintext, timestamps and names. The protocol version is sent and never checked, so it is left out.
- Two threads sending on one TCP socket: the worker sends from its own thread only, the demo programs have one.
- In the GUI: `running_`, which is written and never read; a handshake whose frame is a different one than expected (see
  `SecureChat`).
- Widgets, dialogs, build files.

## 6. Plan

Done: the relay, its abstract specification and refinement, the engine over it, the GUI's worker and its Qt transport,
the command line client with its pins and profiles, the TCP transport with the demo programs; theorems for every safety
property and both refinements that the runs check.

Next, in this order:

1. Proofs: what a joined session means end to end, `KeyAgreement` and `ShownInOrder` with `RelayServer`'s threads in the place
   of the abstract room, by composing `RelayImplements` with `SecureChatProofs`.
2. The GUI's `ws_join` beside the client's, and whether a GUI and a command line client that type one name meet; the lemmas
   about `RoomNames` that decide it.
