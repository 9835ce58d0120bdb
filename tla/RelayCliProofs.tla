--------------------------- MODULE RelayCliProofs ---------------------------
(***************************************************************************)
(* Theorems about RelayCli for any number of terminals, directories and    *)
(* profiles, any command lines and any number of starts.                   *)
(*   TypeInv     types; a process that has been started has a number       *)
(*   PinInv      a chat for which a pin was found is with the pinned peer  *)
(*   FaceInv     the file of a profile's only user holds its identity      *)
(*   OldInv      a profile that was there from the start keeps its one     *)
(*   SeenInv     who pins has met its peer, who refused is on its way out  *)
(*   LinesInv    who wrote a line of pins.txt has met whom it is about     *)
(***************************************************************************)
EXTENDS RelayCli, TLAPS

TypeInv ==
  /\ CliTypeOK
  /\ \A p \in Proc : stage[p] # "off" => starts[p] >= 1

\* What a command line says is in the sets it is taken from.
LEMMA CmdType ==
  ASSUME CliTypeOK, NEW p \in Proc
  PROVE  /\ Cmd(p).mode \in {"host", "connect"} /\ Cmd(p).room \in PinKey
         /\ Cmd(p).pw \in Password /\ Cmd(p).path \in Path /\ Cmd(p).dir \in Dir
  BY CliAssumption DEF CliTypeOK, Cmd, CommandLine

\* Any step of loadOrCreateIdentity leaves the file system in order.
LEMMA StoreStep ==
  ASSUME StoreTypeOK, NEW p \in Proc, NEW f \in Path, NEW pw \in Password, NEW id \in Identity,
         LoadOrCreate(p, f, pw, id)
  PROVE  StoreTypeOK'
<1>. USE DEF StoreTypeOK, IdSteps, Profile
<1>1. CASE CheckExists(p, f)
  BY <1>1 DEF CheckExists
<1>2. CASE OpenTruncate(p, f, id)
  BY <1>2 DEF OpenTruncate
<1>3. CASE Flush(p, f, pw)
  <2>1. PICK w \in {{[id |-> mine[p], pw |-> pw]}, {}, content[f]} :
          content' = [content EXCEPT ![f] = w]
    BY <1>3 DEF Flush
  <2>2. w \in SUBSET Profile /\ \A u, v \in w : u = v
    OBVIOUS
  <2>3. content' \in [Path -> SUBSET Profile] /\ \A g \in Path : \A u, v \in content'[g] : u = v
    BY <2>1, <2>2
  <2>. QED
    BY <1>3, <2>3 DEF Flush
<1>4. CASE Load(p, f, pw)
  BY <1>4 DEF Load
<1>. QED
  BY <1>1, <1>2, <1>3, <1>4 DEF LoadOrCreate

\* Any step of load_pin and save_pin leaves pins.txt with lines, whole or cut.
LEMMA PinStepType ==
  ASSUME PinTypeOK, NEW p \in Proc, NEW d \in Dir, NEW k \in PinKey, NEW fp \in Identity,
         NEW cuts, PinPeer(p, d, k, fp, cuts)
  PROVE  PinTypeOK'
<1>. USE DEF PinTypeOK
<1>1. CASE Look(p, d, k, fp)
  BY <1>1 DEF Look
<1>2. CASE Scan(p, d, k)
  BY <1>2 DEF Scan
<1>3. CASE AppendPin(p, d, k, fp, cuts)
  <2>1. [key |-> k, fp |-> fp] \in Line
    BY DEF Line
  <2>2. Append(pins[d], [key |-> k, fp |-> fp]) \in Seq(Line)
    BY <2>1
  <2>3. pins' \in [Dir -> Seq(Line)]
    BY <1>3, <2>2 DEF AppendPin
  <2>4. torn' \in [Dir -> SUBSET Line]
    BY <1>3, <2>1 DEF AppendPin
  <2>. QED
    BY <1>3, <2>3, <2>4 DEF AppendPin
<1>. QED
  BY <1>1, <1>2, <1>3 DEF PinPeer

LEMMA TypeStart == CliInit => TypeInv
<1>. SUFFICES ASSUME CliInit PROVE TypeInv
  OBVIOUS
<1>. USE CliAssumption DEF CliInit
<1>1. \A p \in Proc : Cmd(p).path \in Path /\ FoundAt(Cmd(p).path) \in Identity
  BY DEF Cmd, CommandLine
<1>2. content \in [Path -> SUBSET Profile] /\ \A f \in Path : \A v, w \in content[f] : v = w
  BY DEF Profile
<1>3. StoreTypeOK
  BY <1>1, <1>2 DEF StoreTypeOK, IdSteps
<1>4. PinTypeOK
  BY DEF PinTypeOK
<1>5. starts \in [Proc -> 0 .. MaxStarts]
  OBVIOUS
<1>. QED
  BY <1>1, <1>3, <1>4, <1>5 DEF TypeInv, CliTypeOK, Stages

\* Types survive every step; a process that is not in its chat or on the way
\* out of it has no receive thread (rx in main), and running is only true
\* while that thread reads.
LEMMA TypeStep ==
  ASSUME TypeInv, [CliNext]_vars
  PROVE  TypeInv'
<1>. USE DEF TypeInv, CliTypeOK, Stages, Move
<1>a. ASSUME UNCHANGED <<storeVars>> PROVE StoreTypeOK'
  BY <1>a DEF StoreTypeOK, storeVars
<1>b. ASSUME UNCHANGED <<pinVars>> PROVE PinTypeOK'
  BY <1>b DEF PinTypeOK, pinVars
<1>1. ASSUME NEW p \in Proc, Start(p) PROVE TypeInv'
  BY <1>1, <1>a, <1>b, CliAssumption DEF Start
<1>2. ASSUME NEW p \in Proc, IdentityStep(p) PROVE TypeInv'
  <2>1. MadeBy(p, starts[p]) \in Identity
    BY <1>2, CliAssumption DEF IdentityStep
  <2>2. StoreTypeOK'
    BY <1>2, <2>1, CmdType, StoreStep DEF IdentityStep
  <2>. QED
    BY <1>2, <2>2, <1>b DEF IdentityStep
<1>3. ASSUME NEW p \in Proc, Dial(p) PROVE TypeInv'
  BY <1>3, <1>a, <1>b DEF Dial
<1>4. ASSUME NEW h \in Proc, NEW c \in Proc, ShakeHands(h, c) PROVE TypeInv'
  <2>1. peer' \in [Proc -> Identity]
    BY <1>4 DEF ShakeHands, StoreTypeOK
  <2>. QED
    BY <1>4, <2>1, <1>a, <1>b DEF ShakeHands, Shaking
<1>5. ASSUME NEW p \in Proc, ShakeStranger(p) PROVE TypeInv'
  BY <1>5, <1>a, <1>b, CliAssumption DEF ShakeStranger, Shaking
<1>6. ASSUME NEW p \in Proc, ShakeFails(p) PROVE TypeInv'
  BY <1>6, <1>a, <1>b DEF ShakeFails
<1>7. ASSUME NEW p \in Proc, PinStep(p) PROVE TypeInv'
  <2>1. Cmd(p).dir \in Dir /\ KeyOf(p) \in PinKey /\ peer[p] \in Identity
    BY CmdType DEF KeyOf
  <2>2. PinPeer(p, Cmd(p).dir, KeyOf(p), peer[p], Cmd(p).dir \in setup.full) /\ PinTypeOK
    BY <1>7 DEF PinStep
  <2>3. PinTypeOK'
    BY <2>1, <2>2, PinStepType
  <2>. QED
    BY <1>7, <2>3, <1>a DEF PinStep
<1>8. ASSUME NEW p \in Proc, Type(p) \/ Eof(p) \/ RxEnds(p) PROVE TypeInv'
  <2>1. CASE Type(p)
    BY <2>1, <1>a, <1>b DEF Type
  <2>2. CASE Eof(p)
    BY <2>2, <1>a, <1>b DEF Eof
  <2>3. CASE RxEnds(p)
    BY <2>3, <1>a, <1>b DEF RxEnds
  <2>. QED
    BY <1>8, <2>1, <2>2, <2>3
<1>9. ASSUME NEW p \in Proc, Quit(p) \/ RelayCloses(p) \/ ConnLost(p) \/ CloseReturns(p)
      PROVE  TypeInv'
  <2>1. CASE Quit(p) \/ RelayCloses(p)
    BY <2>1, <1>a, <1>b DEF Quit, RelayCloses
  <2>2. CASE ConnLost(p) \/ CloseReturns(p)
    BY <2>2, <1>a, <1>b DEF ConnLost, CloseReturns
  <2>. QED
    BY <1>9, <2>1, <2>2
<1>10. ASSUME NEW p \in Proc, Exit(p) \/ Die(p) PROVE TypeInv'
  <2>1. Gone(p) /\ stage[p] # "off"
    BY <1>10 DEF Exit, Die
  <2>2. StoreTypeOK'
    BY <2>1 DEF Gone, StoreTypeOK, IdSteps
  <2>3. PinTypeOK'
    BY <2>1 DEF Gone, PinTypeOK
  <2>. QED
    BY <2>1, <2>2, <2>3 DEF Gone, StoreTypeOK
<1>11. CASE UNCHANGED vars
  BY <1>11, <1>a, <1>b DEF vars, mainVars
<1>. QED
  BY <1>1, <1>2, <1>3, <1>4, <1>5, <1>6, <1>7, <1>8, <1>9, <1>10, <1>11 DEF CliNext, Step

\* The types of RelayCli hold in every reachable state; so a process never ends
\* with its receive thread unjoined.
THEOREM TypeCorrect == CliSpec => []CliTypeOK
<1>1. TypeInv => CliTypeOK
  BY DEF TypeInv
<1>. QED
  BY <1>1, TypeStart, TypeStep, PTL DEF CliSpec

-----------------------------------------------------------------------------
\* save_pin finds out that there is no pin before it writes one, and a chat for
\* which load_pin found a pin is with the pinned peer.
PinOK(p) ==
  /\ (stage[p] = "chat" /\ found[p]) => PinIs(Cmd(p).dir, KeyOf(p), peer[p])
  /\ pinstep[p] \in {"scan", "append"} => ~found[p]

PinInv == \A p \in Proc : PinOK(p)

\* pins.txt is only appended to: the first line of a key stays the first.
LEMMA PinKept ==
  ASSUME PinTypeOK, NEW d \in Dir, NEW k, NEW v, PinIs(d, k, v),
         NEW e \in Dir, NEW l \in Line,
         pins' = pins \/ pins' = [pins EXCEPT ![e] = Append(@, l)]
  PROVE  PinIs(d, k, v)'
<1>. USE DEF PinTypeOK
<1>1. PICK i \in 1 .. Len(pins[d]) :
        /\ pins[d][i].key = k /\ pins[d][i].fp = v
        /\ \A j \in 1 .. i - 1 : pins[d][j].key # k
  BY DEF PinIs
<1>2. /\ i \in 1 .. Len(pins'[d])
      /\ \A j \in 1 .. i : pins'[d][j] = pins[d][j]
  <2>1. pins[d] \in Seq(Line) /\ i \in 1 .. Len(pins[d])
    OBVIOUS
  <2>2. CASE pins'[d] = pins[d]
    BY <2>1, <2>2
  <2>3. CASE pins'[d] = Append(pins[d], l)
    BY <2>1, <2>3
  <2>. QED
    BY <2>2, <2>3
<1>. QED
  BY <1>1, <1>2 DEF PinIs

LEMMA PinStart == CliInit => PinInv
  BY DEF CliInit, PinInv, PinOK

\* A step that leaves a process's chat and its look-up alone, and at most appends
\* to pins.txt (another process's save_pin), leaves it with the pinned peer.
LEMMA OthersPin ==
  ASSUME TypeInv, NEW r \in Proc, PinOK(r), setup' = setup,
         stage'[r] = "chat" => stage[r] = "chat" /\ peer'[r] = peer[r],
         found'[r] = found[r], pinstep'[r] = pinstep[r],
         \/ pins' = pins
         \/ \E e \in Dir, l \in Line : pins' = [pins EXCEPT ![e] = Append(@, l)]
  PROVE  PinOK(r)'
<1>1. /\ PinTypeOK /\ Cmd(r).dir \in Dir /\ found \in [Proc -> BOOLEAN]
      /\ KeyOf(r) \in PinKey /\ peer[r] \in Identity
  BY CmdType DEF TypeInv, CliTypeOK, PinTypeOK, KeyOf
<1>2. Cmd(r)' = Cmd(r) /\ KeyOf(r)' = KeyOf(r)
  BY DEF Cmd, KeyOf
<1>3. ASSUME stage'[r] = "chat", found[r]
      PROVE  PinIs(Cmd(r).dir, KeyOf(r), peer[r])'
  <2>1. PICK d \in Dir, k \in PinKey, v \in Identity : d = Cmd(r).dir /\ k = KeyOf(r) /\ v = peer[r]
    BY <1>1
  <2>2. PinIs(d, k, v)
    BY <1>3, <2>1 DEF PinOK
  <2>3. PinIs(d, k, v)'
    <3>1. CASE pins' = pins
      BY <2>2, <3>1 DEF PinIs
    <3>2. CASE \E e \in Dir, l \in Line : pins' = [pins EXCEPT ![e] = Append(@, l)]
      BY <1>1, <2>2, <3>2, PinKept
    <3>. QED
      BY <3>1, <3>2
  <2>4. d = Cmd(r)'.dir /\ k = KeyOf(r)' /\ v = peer'[r]
    BY <1>2, <1>3, <2>1
  <2>. QED
    BY <2>3, <2>4 DEF PinIs
<1>. QED
  BY <1>3 DEF PinOK

LEMMA PinsStep ==
  ASSUME TypeInv, PinInv, [CliNext]_vars
  PROVE  PinInv'
<1>. SUFFICES ASSUME NEW r \in Proc PROVE PinOK(r)'
  BY DEF PinInv
<1>. USE DEF Move
<1>t. /\ stage \in [Proc -> Stages] /\ peer \in [Proc -> Identity]
      /\ PinTypeOK /\ found \in [Proc -> BOOLEAN] /\ pinstep \in [Proc -> {"look", "scan", "append", "ok", "refused"}]
      /\ PinOK(r)
  BY DEF TypeInv, CliTypeOK, PinTypeOK, PinInv
<1>q. ASSUME UNCHANGED <<setup, pinVars>>,
             stage'[r] = "chat" => stage[r] = "chat" /\ peer'[r] = peer[r]
      PROVE  PinOK(r)'
  BY <1>q, <1>t, OthersPin DEF pinVars
<1>1. ASSUME NEW p \in Proc, Start(p) \/ Dial(p) \/ ShakeFails(p) PROVE PinOK(r)'
  BY <1>1, <1>t, <1>q DEF Start, Dial, ShakeFails
<1>2. ASSUME NEW p \in Proc, IdentityStep(p) PROVE PinOK(r)'
  BY <1>2, <1>t, <1>q DEF IdentityStep
<1>3. ASSUME NEW h \in Proc, NEW c \in Proc, ShakeHands(h, c) PROVE PinOK(r)'
  BY <1>3, <1>t, <1>q DEF ShakeHands, Shaking
<1>4. ASSUME NEW p \in Proc, ShakeStranger(p) PROVE PinOK(r)'
  BY <1>4, <1>t, <1>q DEF ShakeStranger, Shaking
<1>5. ASSUME NEW p \in Proc, PinStep(p) PROVE PinOK(r)'
  <2>. DEFINE d == Cmd(p).dir
              k == KeyOf(p)
  <2>1. d \in Dir /\ k \in PinKey /\ peer[p] \in Identity
    BY CmdType, <1>t DEF TypeInv, KeyOf
  <2>2. CASE p # r
    <3>1. \/ pins' = pins
          \/ pins' = [pins EXCEPT ![d] = Append(@, [key |-> k, fp |-> peer[p]])]
      BY <1>5 DEF PinStep, PinPeer, Look, Scan, AppendPin
    <3>2. [key |-> k, fp |-> peer[p]] \in Line
      BY <2>1 DEF Line
    <3>3. /\ found'[r] = found[r] /\ pinstep'[r] = pinstep[r] /\ stage'[r] = stage[r]
          /\ setup' = setup /\ peer' = peer
      BY <1>5, <1>t, <2>2 DEF PinStep, PinPeer, Look, Scan, AppendPin
    <3>. QED
      BY <1>t, <2>1, <3>1, <3>2, <3>3, OthersPin
  <2>3. CASE p = r
    <3>1. setup' = setup /\ peer' = peer
      BY <1>5 DEF PinStep
    <3>2. CASE Look(p, d, k, peer[p])
      <4>1. pins' = pins
        BY <3>2 DEF Look
      <4>2. (found'[r] /\ pinstep'[r] = "ok") => PinIs(d, k, peer[p])
        BY <3>2, <2>3, <1>t DEF Look
      <4>3. pinstep'[r] \in {"scan", "append"} => ~found'[r]
        BY <3>2, <2>3, <1>t DEF Look
      <4>4. stage'[r] = "chat" => pinstep'[r] = "ok"
        BY <1>5, <2>3, <1>t DEF PinStep
      <4>. QED
        BY <2>3, <3>1, <4>1, <4>2, <4>3, <4>4 DEF PinOK, PinIs, Cmd, KeyOf
    <3>3. CASE Scan(p, d, k) \/ AppendPin(p, d, k, peer[p], d \in setup.full)
      BY <3>3, <2>3, <1>t DEF Scan, AppendPin, PinOK
    <3>. QED
      BY <1>5, <3>2, <3>3 DEF PinStep, PinPeer
  <2>. QED
    BY <2>2, <2>3
<1>6. ASSUME NEW p \in Proc, Type(p) \/ Eof(p) \/ RxEnds(p) PROVE PinOK(r)'
  BY <1>6, <1>t, <1>q DEF Type, Eof, RxEnds
<1>7. ASSUME NEW p \in Proc, Quit(p) \/ RelayCloses(p) \/ ConnLost(p) \/ CloseReturns(p)
      PROVE  PinOK(r)'
  BY <1>7, <1>t, <1>q DEF Quit, RelayCloses, ConnLost, CloseReturns
<1>8. ASSUME NEW p \in Proc, Exit(p) \/ Die(p) PROVE PinOK(r)'
  <2>1. Gone(p)
    BY <1>8 DEF Exit, Die
  <2>2. CASE p = r
    BY <2>1, <2>2, <1>t DEF Gone, PinOK
  <2>3. CASE p # r
    BY <2>1, <2>3, <1>t, OthersPin DEF Gone
  <2>. QED
    BY <2>2, <2>3
<1>9. CASE UNCHANGED vars
  BY <1>9, <1>q DEF vars, mainVars
<1>. QED
  BY <1>1, <1>2, <1>3, <1>4, <1>5, <1>6, <1>7, <1>8, <1>9 DEF CliNext, Step

\* A chat for which a pin was found (load_pin) is with the peer that pins.txt
\* names, whatever other processes append to it.
THEOREM PinsObeyed == CliSpec => []PinObeyed
<1>1. PinInv => PinObeyed
  BY DEF PinInv, PinOK, PinObeyed
<1>. QED
  BY <1>1, TypeStart, TypeStep, PinStart, PinsStep, PTL DEF CliSpec

-----------------------------------------------------------------------------
\* The steps that have to do with profiles are those of loadOrCreateIdentity and
\* the end of a process.
LEMMA StoreSteps ==
  ASSUME [CliNext]_vars
  PROVE  /\ setup' = setup
         /\ \/ UNCHANGED storeVars
            \/ \E p \in Proc : IdentityStep(p)
            \/ \E p \in Proc : stage[p] # "off" /\ Gone(p)
<1>1. ASSUME NEW p \in Proc, Step(p)
      PROVE  setup' = setup /\ (UNCHANGED storeVars \/ IdentityStep(p) \/ (stage[p] # "off" /\ Gone(p)))
  BY <1>1 DEF Step, Start, IdentityStep, Dial, ShakeStranger, ShakeFails, PinStep, Type, Eof,
     RxEnds, Quit, RelayCloses, ConnLost, CloseReturns, Exit, Die, Gone
<1>2. ASSUME NEW h \in Proc, NEW c \in Proc, ShakeHands(h, c)
      PROVE  setup' = setup /\ UNCHANGED storeVars
  BY <1>2 DEF ShakeHands
<1>3. CASE UNCHANGED vars
  BY <1>3 DEF vars, mainVars
<1>. QED
  BY <1>1, <1>2, <1>3 DEF CliNext

\* A profile no process is making stays as it is: those who come later find the
\* file (exists) and load it.
LEMMA QuietStep ==
  ASSUME TypeInv, [CliNext]_vars, NEW f \in Path, Quiet(f)
  PROVE  Quiet(f)' /\ content'[f] = content[f]
<1>t. /\ exists \in [Path -> BOOLEAN] /\ content \in [Path -> SUBSET Profile]
      /\ idstep \in [Proc -> IdSteps] /\ setup' = setup
  BY StoreSteps DEF TypeInv, CliTypeOK, StoreTypeOK
<1>. USE <1>t DEF Quiet, Cmd
<1>1. CASE UNCHANGED storeVars
  BY <1>1 DEF storeVars
<1>2. ASSUME NEW p \in Proc, IdentityStep(p) PROVE Quiet(f)' /\ content'[f] = content[f]
  <2>. DEFINE g == Cmd(p).path
  <2>1. g \in Path
    BY CmdType DEF TypeInv
  <2>2. CASE CheckExists(p, g)
    BY <2>2 DEF CheckExists
  <2>3. CASE OpenTruncate(p, g, MadeBy(p, starts[p]))
    BY <2>1, <2>3 DEF OpenTruncate
  <2>4. CASE Flush(p, g, Cmd(p).pw)
    BY <2>1, <2>4 DEF Flush
  <2>5. CASE Load(p, g, Cmd(p).pw)
    BY <2>5 DEF Load
  <2>. QED
    BY <1>2, <2>2, <2>3, <2>4, <2>5 DEF IdentityStep, LoadOrCreate
<1>3. ASSUME NEW p \in Proc, Gone(p) PROVE Quiet(f)' /\ content'[f] = content[f]
  BY <1>3 DEF Gone
<1>. QED
  BY <1>1, <1>2, <1>3, StoreSteps

\* loadOrCreateIdentity makes a profile once, whoever is started how often.
THEOREM ProfilesStay == CliSpec => ProfileStays
<1>1. ASSUME TypeInv, [CliNext]_vars
      PROVE  [\A f \in Path : Quiet(f) => Quiet(f)' /\ content'[f] = content[f]]_vars
  BY <1>1, QuietStep
<1>. QED
  BY <1>1, TypeStart, TypeStep, PTL DEF CliSpec, ProfileStays

-----------------------------------------------------------------------------
Alone(p) == \A q \in Proc \ {p} : Cmd(q).path # Cmd(p).path

\* p has, or could have, made or loaded its identity.
Faced(p) == mine[p] # FoundAt(Cmd(p).path) \/ Cmd(p).path \in setup.old

\* The only user of a profile either has made no identity yet, and there is no
\* file, or the file holds that identity or, after a crash, nothing.
FaceOK(p) ==
  LET f == Cmd(p).path IN
  Alone(p) =>
    /\ Faced(p) => /\ exists[f] /\ idstep[p] # "create"
                   /\ \A w \in content[f] : w.id = mine[p]
    /\ ~Faced(p) => ~exists[f] /\ idstep[p] \notin {"load", "write", "done"}

FaceInv == \A p \in Proc : FaceOK(p)

LEMMA FaceStart == CliInit => FaceInv
<1>. SUFFICES ASSUME CliInit, NEW p \in Proc PROVE FaceOK(p)
  BY DEF FaceInv
<1>1. Cmd(p).path \in Path /\ mine[p] = FoundAt(Cmd(p).path)
  BY CliAssumption DEF CliInit, Cmd, CommandLine
<1>2. \A w \in content[Cmd(p).path] : w.id = FoundAt(Cmd(p).path)
  BY <1>1 DEF CliInit
<1>. QED
  BY <1>1, <1>2 DEF FaceOK, Faced, CliInit

\* Every step keeps FaceInv, and the identity of a profile's only user.
LEMMA FaceStep ==
  ASSUME TypeInv, FaceInv, [CliNext]_vars, NEW p \in Proc
  PROVE  FaceOK(p)' /\ (Alone(p) /\ Faced(p) => mine'[p] = mine[p])
<1>. DEFINE f == Cmd(p).path
            Goal == FaceOK(p)' /\ (Alone(p) /\ Faced(p) => mine'[p] = mine[p])
<1>t. /\ exists \in [Path -> BOOLEAN] /\ content \in [Path -> SUBSET Profile]
      /\ idstep \in [Proc -> IdSteps] /\ mine \in [Proc -> Identity]
      /\ setup' = setup /\ FaceOK(p) /\ f \in Path
  BY StoreSteps, CmdType DEF TypeInv, CliTypeOK, StoreTypeOK, FaceInv
<1>s. /\ Cmd(p)' = Cmd(p) /\ Alone(p)' = Alone(p)
  BY <1>t DEF Cmd, Alone
<1>u. ASSUME UNCHANGED <<exists, content, mine>>, idstep'[p] \in {idstep[p], "check"} PROVE Goal
  BY <1>u, <1>s, <1>t DEF FaceOK, Faced
<1>1. CASE UNCHANGED storeVars
  BY <1>1, <1>u DEF storeVars
<1>2. ASSUME IdentityStep(p) PROVE Goal
  <2>1. CASE CheckExists(p, f)
    BY <2>1, <1>s, <1>t DEF CheckExists, FaceOK, Faced
  <2>2. CASE OpenTruncate(p, f, MadeBy(p, starts[p]))
    <3>1. MadeBy(p, starts[p]) # FoundAt(f)
      BY <1>2 DEF IdentityStep, TypeInv, MadeBy, FoundAt
    <3>. QED
      BY <2>2, <3>1, <1>s, <1>t DEF OpenTruncate, FaceOK, Faced
  <2>3. CASE Flush(p, f, Cmd(p).pw)
    BY <2>3, <1>s, <1>t DEF Flush, FaceOK, Faced
  <2>4. CASE Load(p, f, Cmd(p).pw)
    BY <2>4, <1>s, <1>t DEF Load, FaceOK, Faced
  <2>. QED
    BY <1>2, <2>1, <2>2, <2>3, <2>4 DEF IdentityStep, LoadOrCreate
<1>3. ASSUME NEW q \in Proc \ {p}, IdentityStep(q) PROVE Goal
  <2>. DEFINE g == Cmd(q).path
  <2>1. g \in Path /\ (Alone(p) => g # f)
    BY CmdType DEF TypeInv, Alone
  <2>2. /\ \A x \in Path \ {g} : exists'[x] = exists[x] /\ content'[x] = content[x]
        /\ mine'[p] = mine[p] /\ idstep'[p] = idstep[p]
    BY <1>3, <1>t, <2>1
       DEF IdentityStep, LoadOrCreate, CheckExists, OpenTruncate, Flush, Load
  <2>. QED
    BY <2>1, <2>2, <1>s, <1>t DEF FaceOK, Faced
<1>4. ASSUME NEW q \in Proc, Gone(q) PROVE Goal
  BY <1>4, <1>t, <1>u DEF Gone
<1>. QED
  BY <1>1, <1>2, <1>3, <1>4, StoreSteps

\* The only user of a profile never changes its identity, whatever it crashes in
\* and however often it is started: its peers' pins stay good.
THEOREM IdentitiesKept == CliSpec => IdentityKept
<1>1. ASSUME TypeInv, FaceInv, [CliNext]_vars PROVE FaceInv'
  BY <1>1, FaceStep DEF FaceInv
<1>2. ASSUME TypeInv, FaceInv, [CliNext]_vars
      PROVE  [\A p \in Proc :
               (/\ \A q \in Proc \ {p} : Cmd(q).path # Cmd(p).path
                /\ mine[p] # FoundAt(Cmd(p).path) \/ Cmd(p).path \in setup.old)
                  => mine'[p] = mine[p]]_vars
  BY <1>2, FaceStep DEF Alone, Faced
<1>. QED
  BY <1>1, <1>2, TypeStart, TypeStep, FaceStart, PTL DEF CliSpec, IdentityKept

-----------------------------------------------------------------------------
\* A profile that was there from the start is never made anew, so that all its
\* users have the one identity in it.
OldOK(p) ==
  LET f == Cmd(p).path IN
  f \in setup.old =>
    /\ exists[f] /\ idstep[p] \notin {"create", "write"}
    /\ mine[p] = FoundAt(f)
    /\ \A w \in content[f] : w.id = FoundAt(f)

OldInv == \A p \in Proc : OldOK(p)

LEMMA OldStart == CliInit => OldInv
<1>. SUFFICES ASSUME CliInit, NEW p \in Proc PROVE OldOK(p)
  BY DEF OldInv
<1>1. Cmd(p).path \in Path /\ mine[p] = FoundAt(Cmd(p).path)
  BY CliAssumption DEF CliInit, Cmd, CommandLine
<1>2. \A w \in content[Cmd(p).path] : w.id = FoundAt(Cmd(p).path)
  BY <1>1 DEF CliInit
<1>. QED
  BY <1>1, <1>2 DEF OldOK, CliInit

LEMMA OldStep ==
  ASSUME TypeInv, OldInv, [CliNext]_vars, NEW p \in Proc
  PROVE  OldOK(p)'
<1>. DEFINE f == Cmd(p).path
<1>t. /\ exists \in [Path -> BOOLEAN] /\ content \in [Path -> SUBSET Profile]
      /\ idstep \in [Proc -> IdSteps] /\ mine \in [Proc -> Identity]
      /\ setup' = setup /\ f \in Path /\ Cmd(p)' = Cmd(p)
  BY StoreSteps, CmdType DEF TypeInv, CliTypeOK, StoreTypeOK, Cmd
<1>1. CASE UNCHANGED storeVars
  BY <1>1, <1>t DEF storeVars, OldInv, OldOK
<1>2. ASSUME NEW q \in Proc, IdentityStep(q) PROVE OldOK(p)'
  <2>. DEFINE g == Cmd(q).path
  <2>. SUFFICES ASSUME f \in setup.old PROVE OldOK(p)'
    BY <1>t DEF OldOK
  <2>1. g \in Path /\ OldOK(p) /\ OldOK(q)
    BY CmdType DEF TypeInv, OldInv
  <2>2. CASE CheckExists(q, g)
    BY <2>1, <2>2, <1>t DEF CheckExists, OldOK
  <2>3. CASE OpenTruncate(q, g, MadeBy(q, starts[q]))
    BY <2>1, <2>3, <1>t DEF OpenTruncate, OldOK
  <2>4. CASE Flush(q, g, Cmd(q).pw)
    BY <2>1, <2>4, <1>t DEF Flush, OldOK
  <2>5. CASE Load(q, g, Cmd(q).pw)
    BY <2>1, <2>5, <1>t DEF Load, OldOK
  <2>. QED
    BY <1>2, <2>2, <2>3, <2>4, <2>5 DEF IdentityStep, LoadOrCreate
<1>3. ASSUME NEW q \in Proc, Gone(q) PROVE OldOK(p)'
  BY <1>3, <1>t DEF Gone, OldInv, OldOK
<1>. QED
  BY <1>1, <1>2, <1>3, StoreSteps

\* v is what r's peers see of r, and will always see if r's profile is settled.
Known(r, v) == Settled(Cmd(r).path) => Faced(r) /\ mine[r] = v

\* v is a stranger's fingerprint or that of somebody q may have as a peer.
Met(q, v) ==
  \/ \E s \in Stranger : v = FaceOf(s)
  \/ \E r \in Proc : Faces(q, r) /\ Known(r, v)

\* Two fingerprints of one settled profile are the same.
LEMMA OneFace ==
  ASSUME TypeInv, OldInv, NEW r \in Proc, NEW t \in Proc, NEW v, NEW w,
         Cmd(r).path = Cmd(t).path, Settled(Cmd(r).path), Known(r, v), Known(t, w)
  PROVE  v = w
<1>1. mine[r] = v /\ mine[t] = w
  BY DEF Known
<1>2. CASE Cmd(r).path \in setup.old
  BY <1>1, <1>2 DEF OldInv, OldOK
<1>3. CASE \E p \in Proc : {q \in Proc : Cmd(q).path = Cmd(r).path} = {p}
  <2>1. r = t
    BY <1>3
  <2>. QED
    BY <1>1, <2>1
<1>. QED
  BY <1>2, <1>3 DEF Settled

LEMMA MetKept ==
  ASSUME TypeInv, FaceInv, OldInv, [CliNext]_vars, NEW q \in Proc, NEW v, Met(q, v)
  PROVE  Met(q, v)'
<1>1. CASE \E s \in Stranger : v = FaceOf(s)
  BY <1>1 DEF Met, FaceOf
<1>2. ASSUME NEW r \in Proc, Faces(q, r), Known(r, v) PROVE Met(q, v)'
  <2>1. setup' = setup /\ Cmd(r)' = Cmd(r) /\ Cmd(q)' = Cmd(q)
    BY StoreSteps DEF Cmd
  <2>2. Faces(q, r)'
    BY <1>2, <2>1 DEF Faces, KeyOf
  <2>3. Settled(Cmd(r).path)' = Settled(Cmd(r).path)
    BY <2>1 DEF Settled, Cmd
  <2>4. ASSUME Settled(Cmd(r).path) PROVE Faced(r)' /\ mine'[r] = v
    <3>1. Faced(r) /\ mine[r] = v
      BY <1>2, <2>4 DEF Known
    <3>2. CASE Cmd(r).path \in setup.old
      BY <3>1, <3>2, <2>1, OldStep DEF OldInv, OldOK, Faced
    <3>3. CASE \E p \in Proc : {x \in Proc : Cmd(x).path = Cmd(r).path} = {p}
      <4>1. Alone(r)
        BY <3>3 DEF Alone
      <4>. QED
        BY <4>1, <3>1, <2>1, FaceStep DEF Faced
    <3>. QED
      BY <2>4, <3>2, <3>3 DEF Settled
  <2>. QED
    BY <2>2, <2>3, <2>4 DEF Met, Known
<1>. QED
  BY <1>1, <1>2 DEF Met

\* Who is in its handshake has its identity; who is about to pin has met its
\* peer; who has refused is on its way out.
SeenOK(q) ==
  /\ stage[q] \in {"dial", "shake"} => idstep[q] = "done"
  /\ stage[q] = "pin" => Met(q, peer[q])
  /\ pinstep[q] = "refused" => stage[q] \in {"quit", "closing", "exit"}

SeenInv == \A q \in Proc : SeenOK(q)

\* Every line of pins.txt is about somebody its writer has met.
LinesInv ==
  \A d \in Dir : \A i \in 1 .. Len(pins[d]) :
    \E q \in Proc : Cmd(q).dir = d /\ KeyOf(q) = pins[d][i].key /\ Met(q, pins[d][i].fp)

\* What is needed of the invariants below in each step.
Base == TypeInv /\ FaceInv /\ OldInv

LEMMA SeenStart == CliInit => SeenInv /\ LinesInv /\ PeersNotRefused
  BY DEF CliInit, SeenInv, SeenOK, LinesInv, PeersNotRefused

\* The identity of a process in its handshake is one its peers will know again.
LEMMA ShakerKnown ==
  ASSUME Base, SeenInv, NEW q \in Proc, NEW r \in Proc, Faces(q, r), stage[r] = "shake"
  PROVE  Met(q, mine[r])
<1>1. ASSUME Settled(Cmd(r).path) PROVE Faced(r)
  <2>1. CASE \E p \in Proc : {x \in Proc : Cmd(x).path = Cmd(r).path} = {p}
    <3>1. Alone(r)
      BY <2>1 DEF Alone
    <3>. QED
      BY <3>1 DEF Base, FaceInv, FaceOK, SeenInv, SeenOK
  <2>. QED
    BY <1>1, <2>1 DEF Settled, Faced
<1>. QED
  BY <1>1 DEF Met, Known

LEMMA SeenStep ==
  ASSUME Base, SeenInv, [CliNext]_vars, NEW q \in Proc
  PROVE  SeenOK(q)'
<1>. USE DEF Move
<1>t. /\ stage \in [Proc -> Stages] /\ peer \in [Proc -> Identity]
      /\ idstep \in [Proc -> IdSteps]
      /\ pinstep \in [Proc -> {"look", "scan", "append", "ok", "refused"}]
      /\ SeenOK(q) /\ peer' \in [Proc -> Identity]
  BY TypeStep DEF Base, TypeInv, CliTypeOK, StoreTypeOK, PinTypeOK, SeenInv
<1>m. ASSUME stage'[q] = "pin" => Met(q, peer[q]), peer'[q] = peer[q]
      PROVE  (stage[q] = "pin" => Met(q, peer[q]))'
  <2>1. PICK v \in Identity : v = peer[q]
    BY <1>t
  <2>2. Met(q, v) => Met(q, v)'
    BY MetKept DEF Base
  <2>. QED
    BY <1>m, <2>1, <2>2
<1>1. ASSUME NEW p \in Proc, Start(p) \/ Dial(p) \/ ShakeFails(p) PROVE SeenOK(q)'
  BY <1>1, <1>t, <1>m DEF Start, Dial, ShakeFails, SeenOK, storeVars, pinVars
<1>2. ASSUME NEW p \in Proc, IdentityStep(p) PROVE SeenOK(q)'
  BY <1>2, <1>t, <1>m DEF IdentityStep, LoadOrCreate, CheckExists, OpenTruncate, Flush, Load,
     SeenOK, pinVars
<1>3. ASSUME NEW h \in Proc, NEW c \in Proc, ShakeHands(h, c) PROVE SeenOK(q)'
  <2>1. h # c /\ Faces(c, h) /\ Faces(h, c) /\ stage[h] = "shake" /\ stage[c] = "shake"
    BY <1>3 DEF ShakeHands, Shaking, Faces
  <2>2. PICK v \in Identity : v = peer'[q]
    BY <1>t
  <2>3. stage'[q] = "pin" => Met(q, v)
    BY <1>3, <1>t, <2>1, <2>2, ShakerKnown DEF ShakeHands, SeenOK
  <2>4. (stage[q] = "pin" => Met(q, peer[q]))'
    BY <2>2, <2>3, MetKept DEF Base
  <2>. QED
    BY <1>3, <1>t, <2>1, <2>4 DEF ShakeHands, SeenOK, storeVars, pinVars
<1>4. ASSUME NEW p \in Proc, ShakeStranger(p) PROVE SeenOK(q)'
  <2>2. PICK v \in Identity : v = peer'[q]
    BY <1>t
  <2>3. stage'[q] = "pin" => Met(q, v)
    BY <1>4, <1>t, <2>2 DEF ShakeStranger, SeenOK, Met
  <2>4. (stage[q] = "pin" => Met(q, peer[q]))'
    BY <2>2, <2>3, MetKept DEF Base
  <2>. QED
    BY <1>4, <1>t, <2>4 DEF ShakeStranger, Shaking, SeenOK, storeVars, pinVars
<1>5. ASSUME NEW p \in Proc, PinStep(p) PROVE SeenOK(q)'
  <2>1. /\ peer' = peer /\ idstep' = idstep
        /\ stage'[q] = "pin" => stage[q] = "pin"
        /\ stage'[q] \in {"dial", "shake"} => stage[q] \in {"dial", "shake"}
    BY <1>5, <1>t DEF PinStep, storeVars
  <2>2. pinstep'[q] = "refused" => stage'[q] \in {"quit", "closing", "exit"}
    <3>1. CASE p = q
      BY <1>5, <1>t, <3>1 DEF PinStep, PinPeer, Look, Scan, AppendPin
    <3>2. CASE p # q
      BY <1>5, <1>t, <3>2 DEF PinStep, PinPeer, Look, Scan, AppendPin, SeenOK
    <3>. QED
      BY <3>1, <3>2
  <2>. QED
    BY <1>t, <1>m, <2>1, <2>2 DEF SeenOK
<1>6. ASSUME NEW p \in Proc, Type(p) \/ Eof(p) \/ RxEnds(p) PROVE SeenOK(q)'
  BY <1>6, <1>t, <1>m DEF Type, Eof, RxEnds, SeenOK, storeVars, pinVars
<1>7. ASSUME NEW p \in Proc, Quit(p) \/ RelayCloses(p) \/ ConnLost(p) \/ CloseReturns(p)
      PROVE  SeenOK(q)'
  BY <1>7, <1>t, <1>m DEF Quit, RelayCloses, ConnLost, CloseReturns, SeenOK, storeVars, pinVars
<1>8. ASSUME NEW p \in Proc, Exit(p) \/ Die(p) PROVE SeenOK(q)'
  <2>1. Gone(p)
    BY <1>8 DEF Exit, Die
  <2>2. CASE p = q
    BY <2>1, <2>2, <1>t DEF Gone, SeenOK
  <2>3. CASE p # q
    BY <2>1, <2>3, <1>t, <1>m DEF Gone, SeenOK
  <2>. QED
    BY <2>2, <2>3
<1>9. CASE UNCHANGED vars
  BY <1>9, <1>t, <1>m DEF vars, mainVars, storeVars, pinVars, SeenOK
<1>. QED
  BY <1>1, <1>2, <1>3, <1>4, <1>5, <1>6, <1>7, <1>8, <1>9 DEF CliNext, Step

\* Only save_pin writes to pins.txt: a line about the peer of a process that is
\* about to pin.
LEMMA PinsSteps ==
  ASSUME [CliNext]_vars
  PROVE  \/ pins' = pins
         \/ \E p \in Proc :
              /\ stage[p] = "pin"
              /\ pins' = [pins EXCEPT ![Cmd(p).dir] =
                            Append(@, [key |-> KeyOf(p), fp |-> peer[p]])]
<1>1. ASSUME NEW p \in Proc, Step(p)
      PROVE  pins' = pins \/ PinStep(p)
  BY <1>1 DEF Step, Start, IdentityStep, Dial, ShakeStranger, ShakeFails, Type, Eof,
     RxEnds, Quit, RelayCloses, ConnLost, CloseReturns, Exit, Die, Gone, pinVars
<1>2. ASSUME NEW h \in Proc, NEW c \in Proc, ShakeHands(h, c)
      PROVE  pins' = pins
  BY <1>2 DEF ShakeHands, pinVars
<1>3. CASE UNCHANGED vars
  BY <1>3 DEF vars, pinVars
<1>4. ASSUME NEW p \in Proc, PinStep(p)
      PROVE  \/ pins' = pins
             \/ /\ stage[p] = "pin"
                /\ pins' = [pins EXCEPT ![Cmd(p).dir] =
                              Append(@, [key |-> KeyOf(p), fp |-> peer[p]])]
  BY <1>4 DEF PinStep, PinPeer, Look, Scan, AppendPin
<1>. QED
  BY <1>1, <1>2, <1>3, <1>4 DEF CliNext

\* A cut line stays in its file, and so does what is behind it.
LEMMA TornStays ==
  ASSUME TypeInv, [CliNext]_vars, NEW d \in Dir
  PROVE  torn[d] \subseteq torn'[d]
<1>1. ASSUME NEW p \in Proc, Step(p)
      PROVE  torn' = torn \/ PinStep(p)
  BY <1>1 DEF Step, Start, IdentityStep, Dial, ShakeStranger, ShakeFails, Type, Eof,
     RxEnds, Quit, RelayCloses, ConnLost, CloseReturns, Exit, Die, Gone, pinVars
<1>2. ASSUME NEW h \in Proc, NEW c \in Proc, ShakeHands(h, c)
      PROVE  torn' = torn
  BY <1>2 DEF ShakeHands, pinVars
<1>3. CASE UNCHANGED vars
  BY <1>3 DEF vars, pinVars
<1>4. ASSUME NEW p \in Proc, PinStep(p)
      PROVE  \/ torn' = torn
             \/ \E l : torn' = [torn EXCEPT ![Cmd(p).dir] = @ \cup {l}]
  BY <1>4 DEF PinStep, PinPeer, Look, Scan, AppendPin
<1>5. torn \in [Dir -> SUBSET Line]
  BY DEF TypeInv, CliTypeOK, PinTypeOK
<1>. QED
  BY <1>1, <1>2, <1>3, <1>4, <1>5 DEF CliNext

\* Who wrote a line has met whom the line is about.
LEMMA LinesStep ==
  ASSUME Base, SeenInv, LinesInv, [CliNext]_vars
  PROVE  LinesInv'
<1>. DEFINE Written(d, k, v) == \E q \in Proc : Cmd(q).dir = d /\ KeyOf(q) = k /\ Met(q, v)
<1>t. /\ pins \in [Dir -> Seq(Line)] /\ pins' \in [Dir -> Seq(Line)]
      /\ peer \in [Proc -> Identity] /\ setup' = setup
  BY StoreSteps, TypeStep DEF Base, TypeInv, CliTypeOK, PinTypeOK
<1>1. ASSUME NEW d, NEW k, NEW v, Written(d, k, v) PROVE Written(d, k, v)'
  <2>1. PICK q \in Proc : Cmd(q).dir = d /\ KeyOf(q) = k /\ Met(q, v)
    BY <1>1
  <2>2. Met(q, v)'
    BY <2>1, MetKept DEF Base
  <2>3. Cmd(q)' = Cmd(q) /\ KeyOf(q)' = KeyOf(q)
    BY <1>t DEF Cmd, KeyOf
  <2>. QED
    BY <2>1, <2>2, <2>3
<1>2. SUFFICES ASSUME NEW d \in Dir, NEW i \in 1 .. Len(pins'[d])
               PROVE  Written(d, pins[d][i].key, pins[d][i].fp)'
  BY DEF LinesInv
<1>3. PICK k \in PinKey, v \in Identity : k = pins'[d][i].key /\ v = pins'[d][i].fp
  <2>1. pins'[d] \in Seq(Line) /\ i \in 1 .. Len(pins'[d])
    BY <1>2, <1>t
  <2>2. pins'[d][i] \in Line
    BY <2>1
  <2>. QED
    BY <2>2 DEF Line
<1>4. SUFFICES Written(d, k, v)
  BY <1>1, <1>3
<1>5. CASE pins' = pins
  BY <1>2, <1>3, <1>5 DEF LinesInv
<1>6. ASSUME NEW p \in Proc, stage[p] = "pin",
             pins' = [pins EXCEPT ![Cmd(p).dir] = Append(@, [key |-> KeyOf(p), fp |-> peer[p]])]
      PROVE  Written(d, k, v)
  <2>1. pins[d] \in Seq(Line) /\ Cmd(p).dir \in Dir /\ KeyOf(p) \in PinKey
    BY <1>t, CmdType DEF Base, TypeInv, KeyOf
  <2>2. [key |-> KeyOf(p), fp |-> peer[p]] \in Line
    BY <2>1, <1>t DEF Line
  <2>3. CASE i \in 1 .. Len(pins[d])
    <3>1. pins'[d][i] = pins[d][i]
      BY <1>6, <1>t, <2>1, <2>2, <2>3
    <3>. QED
      BY <1>3, <2>3, <3>1 DEF LinesInv
  <2>4. CASE i \notin 1 .. Len(pins[d])
    <3>1. Cmd(p).dir = d /\ pins'[d][i] = [key |-> KeyOf(p), fp |-> peer[p]]
      BY <1>2, <1>6, <1>t, <2>1, <2>2, <2>4
    <3>2. Met(p, peer[p])
      BY <1>6 DEF SeenInv, SeenOK
    <3>. QED
      BY <1>3, <3>1, <3>2
  <2>. QED
    BY <2>3, <2>4
<1>. QED
  BY <1>5, <1>6, PinsSteps

\* A process that is told of a changed fingerprint has a stranger as its peer or
\* in its pin, or its line is at a cut, or the pin could be of two profiles.
LEMMA RefusedNow ==
  ASSUME Base, SeenInv, LinesInv, NEW p \in Proc, stage[p] = "pin", OneProfile(p),
         Look(p, Cmd(p).dir, KeyOf(p), peer[p]), pinstep'[p] = "refused"
  PROVE  StrangerMet(p) \/ LineCut(p)
<1>t. /\ pins \in [Dir -> Seq(Line)] /\ Cmd(p).dir \in Dir
      /\ pinstep \in [Proc -> {"look", "scan", "append", "ok", "refused"}]
  BY CmdType DEF Base, TypeInv, CliTypeOK, PinTypeOK
<1>c. SUFFICES ASSUME ~LineCut(p)  PROVE StrangerMet(p)
  OBVIOUS
<1>1. PICK v \in Identity : PinIs(Cmd(p).dir, KeyOf(p), v) /\ v # peer[p]
  BY <1>c, <1>t DEF Look, LineCut
<1>2. PICK q \in Proc : Cmd(q).dir = Cmd(p).dir /\ KeyOf(q) = KeyOf(p) /\ Met(q, v)
  BY <1>1, <1>t DEF PinIs, LinesInv
<1>3. Met(p, peer[p])
  BY DEF SeenInv, SeenOK
<1>4. CASE \E s \in Stranger : v = FaceOf(s) \/ peer[p] = FaceOf(s)
  BY <1>1, <1>4 DEF StrangerMet
<1>5. CASE ~\E s \in Stranger : v = FaceOf(s) \/ peer[p] = FaceOf(s)
  <2>1. PICK r \in Proc : Faces(q, r) /\ Known(r, v)
    BY <1>2, <1>5 DEF Met
  <2>2. PICK t \in Proc : Faces(p, t) /\ Known(t, peer[p])
    BY <1>3, <1>5 DEF Met
  <2>3. Cmd(r).path \in PinnedPaths(p) /\ Cmd(t).path \in PinnedPaths(p)
    BY <1>2, <2>1, <2>2 DEF PinnedPaths
  <2>4. Cmd(r).path = Cmd(t).path /\ Settled(Cmd(r).path)
    BY <2>3 DEF OneProfile
  <2>5. v = peer[p]
    BY <2>1, <2>2, <2>4, OneFace DEF Base
  <2>. QED
    BY <1>1, <2>5
<1>. QED
  BY <1>4, <1>5

\* Whoever was refused keeps its peer until it is gone, and its pin stays.
LEMMA RefusedStep ==
  ASSUME Base, SeenInv, LinesInv, [CliNext]_vars, NEW p \in Proc,
         (pinstep[p] = "refused" /\ OneProfile(p)) => StrangerMet(p) \/ LineCut(p)
  PROVE  ((pinstep[p] = "refused" /\ OneProfile(p)) => StrangerMet(p) \/ LineCut(p))'
<1>t. /\ stage \in [Proc -> Stages] /\ peer \in [Proc -> Identity] /\ PinTypeOK
      /\ pinstep \in [Proc -> {"look", "scan", "append", "ok", "refused"}]
      /\ setup' = setup /\ Cmd(p).dir \in Dir
  BY StoreSteps, CmdType DEF Base, TypeInv, CliTypeOK, PinTypeOK
<1>s. SUFFICES ASSUME pinstep'[p] = "refused", OneProfile(p)'
               PROVE  StrangerMet(p)' \/ LineCut(p)'
  OBVIOUS
<1>o. OneProfile(p)
  BY <1>s, <1>t DEF OneProfile, PinnedPaths, Settled, Faces, Cmd, KeyOf
<1>. DEFINE Already == pinstep[p] = "refused" /\ peer'[p] = peer[p]
            Now == /\ stage[p] = "pin" /\ peer'[p] = peer[p]
                   /\ Look(p, Cmd(p).dir, KeyOf(p), peer[p])
<1>1. Already \/ Now
  <2>. USE <1>s, <1>t DEF Move
  <2>0. pinstep[p] = "refused" => stage[p] \in {"quit", "closing", "exit"}
    BY DEF SeenInv, SeenOK
  <2>1. ASSUME NEW q \in Proc, Start(q) \/ IdentityStep(q) \/ Dial(q) \/ ShakeFails(q)
        PROVE  Already \/ Now
    BY <2>1 DEF Start, IdentityStep, Dial, ShakeFails, pinVars
  <2>2. ASSUME NEW h \in Proc, NEW c \in Proc, ShakeHands(h, c)
        PROVE  Already \/ Now
    BY <2>0, <2>2 DEF ShakeHands, Shaking, pinVars
  <2>3. ASSUME NEW q \in Proc, ShakeStranger(q)
        PROVE  Already \/ Now
    BY <2>0, <2>3 DEF ShakeStranger, Shaking, pinVars
  <2>4. ASSUME NEW q \in Proc, PinStep(q)
        PROVE  Already \/ Now
    BY <2>4 DEF PinStep, PinPeer, Look, Scan, AppendPin
  <2>5. ASSUME NEW q \in Proc, Type(q) \/ Eof(q) \/ RxEnds(q)
        PROVE  Already \/ Now
    BY <2>5 DEF Type, Eof, RxEnds, pinVars
  <2>6. ASSUME NEW q \in Proc, Quit(q) \/ RelayCloses(q) \/ ConnLost(q) \/ CloseReturns(q)
        PROVE  Already \/ Now
    BY <2>6 DEF Quit, RelayCloses, ConnLost, CloseReturns, pinVars
  <2>7. ASSUME NEW q \in Proc, Exit(q) \/ Die(q)
        PROVE  Already \/ Now
    BY <2>7 DEF Exit, Die, Gone
  <2>8. CASE UNCHANGED vars
    BY <2>8 DEF vars, mainVars, pinVars
  <2>. QED
    BY <2>1, <2>2, <2>3, <2>4, <2>5, <2>6, <2>7, <2>8 DEF CliNext, Step
<1>2. StrangerMet(p) \/ LineCut(p)
  BY <1>1, <1>s, <1>o, RefusedNow
<1>c. CASE LineCut(p)
  <2>1. torn[Cmd(p).dir] \subseteq torn'[Cmd(p).dir]
    BY <1>t, TornStays DEF Base
  <2>2. Cmd(p)' = Cmd(p) /\ KeyOf(p)' = KeyOf(p)
    BY <1>t DEF Cmd, KeyOf
  <2>. QED
    BY <1>c, <2>1, <2>2 DEF LineCut, CutLineOf
<1>n. SUFFICES ASSUME StrangerMet(p)  PROVE StrangerMet(p)'
  BY <1>2, <1>c
<1>3. PICK s \in Stranger : peer[p] = FaceOf(s) \/ PinIs(Cmd(p).dir, KeyOf(p), FaceOf(s))
  BY <1>n DEF StrangerMet
<1>4. CASE peer[p] = FaceOf(s)
  BY <1>1, <1>4 DEF StrangerMet, FaceOf
<1>5. CASE PinIs(Cmd(p).dir, KeyOf(p), FaceOf(s))
  <2>1. PICK d \in Dir, k \in PinKey, v \in Identity :
          d = Cmd(p).dir /\ k = KeyOf(p) /\ v = FaceOf(s)
    BY <1>t, CmdType, CliAssumption DEF Base, TypeInv, KeyOf
  <2>2. PinIs(d, k, v)'
    <3>1. CASE pins' = pins
      BY <1>5, <2>1, <3>1 DEF PinIs
    <3>2. ASSUME NEW q \in Proc,
                 pins' = [pins EXCEPT ![Cmd(q).dir] = Append(@, [key |-> KeyOf(q), fp |-> peer[q]])]
          PROVE  PinIs(d, k, v)'
      <4>1. Cmd(q).dir \in Dir /\ KeyOf(q) \in PinKey
        BY CmdType DEF Base, TypeInv, KeyOf
      <4>2. [key |-> KeyOf(q), fp |-> peer[q]] \in Line
        BY <4>1, <1>t DEF Line
      <4>. QED
        BY <1>5, <1>t, <2>1, <3>2, <4>1, <4>2, PinKept
    <3>. QED
      BY <3>1, <3>2, PinsSteps
  <2>3. d = Cmd(p)'.dir /\ k = KeyOf(p)' /\ v = FaceOf(s)
    BY <2>1, <1>t DEF Cmd, KeyOf
  <2>. QED
    BY <2>2, <2>3 DEF StrangerMet, FaceOf
<1>. QED
  BY <1>3, <1>4, <1>5

\* Peers who come back are not refused: "[TOFU] Peer fingerprint changed" is
\* about a stranger, unless a pin is shared by the users of two profiles, a
\* profile is made by two at once, or a line of pins.txt was cut.
THEOREM PeersStayWelcome == CliSpec => []PeersNotRefused
<1>1. ASSUME Base, SeenInv, LinesInv, PeersNotRefused, [CliNext]_vars
      PROVE  FaceInv' /\ OldInv' /\ SeenInv' /\ PeersNotRefused'
  <2>1. FaceInv' /\ OldInv'
    BY <1>1, FaceStep, OldStep DEF Base, FaceInv, OldInv
  <2>2. SeenInv'
    BY <1>1, SeenStep DEF SeenInv
  <2>3. PeersNotRefused'
    BY <1>1, RefusedStep DEF PeersNotRefused
  <2>. QED
    BY <2>1, <2>2, <2>3
<1>. QED
  BY <1>1, TypeStart, TypeStep, FaceStart, OldStart, SeenStart, LinesStep, PTL DEF CliSpec, Base
=============================================================================
