------------------------------ MODULE TofuPins ------------------------------
(***************************************************************************)
(* relay_cli.cpp's pins.txt: one file per working directory, a line per    *)
(* pin, read by load_pin, read again and appended to by save_pin.  A pin    *)
(* is the fingerprint of one of IdentityStore's key pairs.                 *)
(***************************************************************************)
EXTENDS IdentityStore, Sequences

CONSTANTS Dir,
          PinKey  \* "<relay host>#<room as typed>"

VARIABLES
  pins,     \* the lines of each directory's pins.txt, up to one that was cut
  torn,     \* that one, which a full disk cut short, and those written behind it
  pinstep,  \* how far a process is with its pin
  found     \* load_pin gave it the fingerprint of a whole line

pinVars == <<pins, torn, pinstep, found>>

Line == [key : PinKey, fp : Identity]

PinTypeOK ==
  /\ pins \in [Dir -> Seq(Line)]
  /\ torn \in [Dir -> SUBSET Line]
  /\ pinstep \in [Proc -> {"look", "scan", "append", "ok", "refused"}]
  /\ found \in [Proc -> BOOLEAN]

HasPin(d, k) == \E i \in 1 .. Len(pins[d]) : pins[d][i].key = k

\* load_pin takes the first line of the key.
PinIs(d, k, v) ==
  \E i \in 1 .. Len(pins[d]) :
    /\ pins[d][i].key = k /\ pins[d][i].fp = v
    /\ \A j \in 1 .. i - 1 : pins[d][j].key # k

\* Words are read in pairs wherever lines end: from a cut line on, a key may be
\* met beside its fingerprint, a part of it or another word, or be missed.
CutLineOf(d, k, fps) == \E l \in torn[d] : l.key = k /\ l.fp \in fps

-----------------------------------------------------------------------------
\* load_pin and the comparison.  A missing file is one without lines.
Look(p, d, k, fp) ==
  /\ pinstep[p] = "look"
  /\ \/ \E v \in Identity :
          /\ PinIs(d, k, v)
          /\ found' = [found EXCEPT ![p] = TRUE]
          /\ pinstep' = [pinstep EXCEPT ![p] = IF v = fp THEN "ok" ELSE "refused"]
     \/ /\ ~HasPin(d, k)
        /\ found' = [found EXCEPT ![p] = FALSE]
        /\ \/ pinstep' = [pinstep EXCEPT ![p] = "scan"]
           \/ CutLineOf(d, k, Identity) /\ pinstep' = [pinstep EXCEPT ![p] = "refused"]
           \/ CutLineOf(d, k, {fp}) /\ pinstep' = [pinstep EXCEPT ![p] = "ok"]
  /\ UNCHANGED <<pins, torn>>

\* save_pin looks for the key once more and leaves the file alone if another
\* process has pinned it by now; that pin is not compared with the peer.
Scan(p, d, k) ==
  /\ pinstep[p] = "scan"
  /\ \/ /\ HasPin(d, k) \/ CutLineOf(d, k, Identity)
        /\ pinstep' = [pinstep EXCEPT ![p] = "ok"]
     \/ ~HasPin(d, k) /\ pinstep' = [pinstep EXCEPT ![p] = "append"]
  /\ UNCHANGED <<pins, torn, found>>

\* Fault: the file is opened without std::ios::app.
Overwrite(p, d, k, fp, cuts) ==
  /\ pinstep[p] = "append"
  /\ pins' = [pins EXCEPT ![d] = <<[key |-> k, fp |-> fp]>>]
  /\ pinstep' = [pinstep EXCEPT ![p] = "ok"]
  /\ UNCHANGED <<torn, found>>

\* The line is appended, in part when the disk gets full, or not at all when the
\* file does not open or the disk was full; nobody asks.  cuts: the disk may get
\* full in the middle of a line.
AppendPin(p, d, k, fp, cuts) ==
  /\ pinstep[p] = "append"
  /\ LET line == [key |-> k, fp |-> fp] IN
       \/ /\ torn[d] = {}
          /\ pins' = [pins EXCEPT ![d] = Append(@, line)]
          /\ UNCHANGED torn
       \/ /\ cuts
          /\ torn' = [torn EXCEPT ![d] = @ \cup {line}]
          /\ UNCHANGED pins
       \/ UNCHANGED <<pins, torn>>
  /\ pinstep' = [pinstep EXCEPT ![p] = "ok"]
  /\ UNCHANGED found

PinPeer(p, d, k, fp, cuts) ==
  Look(p, d, k, fp) \/ Scan(p, d, k) \/ AppendPin(p, d, k, fp, cuts)
=============================================================================
