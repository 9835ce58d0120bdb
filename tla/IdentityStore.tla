---------------------------- MODULE IdentityStore ----------------------------
(***************************************************************************)
(* Profile files (client.id) and the processes that make or load them:     *)
(* ConnectionEngine::loadOrCreateIdentity over IdentityStore's             *)
(* create_profile and load_profile.  The file system is shared; whether a  *)
(* file exists is asked in one step, and it is opened in another.          *)
(***************************************************************************)
EXTENDS Naturals

CONSTANTS Proc, Path, Password,
          Identity  \* key pairs; a fingerprint names one

VARIABLES
  exists,   \* which paths have a file
  content,  \* its whole profile, {} while the file is empty or cut short
  idstep,   \* how far a process is with its identity
  mine      \* identity_: the key pair it made or loaded

storeVars == <<exists, content, idstep, mine>>

Profile == [id : Identity, pw : Password]

IdSteps == {"check", "create", "write", "load", "done", "error"}

StoreTypeOK ==
  /\ exists \in [Path -> BOOLEAN]
  /\ content \in [Path -> SUBSET Profile]
  /\ \A f \in Path : \A v, w \in content[f] : v = w
  /\ idstep \in [Proc -> IdSteps]
  /\ mine \in [Proc -> Identity]

-----------------------------------------------------------------------------
\* Fault: the profile is made anew at every start.
CheckNothing(p, f) ==
  /\ idstep[p] = "check"
  /\ idstep' = [idstep EXCEPT ![p] = "create"]
  /\ UNCHANGED <<exists, content, mine>>

\* std::filesystem::exists
CheckExists(p, f) ==
  /\ idstep[p] = "check"
  /\ idstep' = [idstep EXCEPT ![p] = IF exists[f] THEN "load" ELSE "create"]
  /\ UNCHANGED <<exists, content, mine>>

\* create_profile makes the key pair id and opens the file, which empties it
\* whatever another process has put there since; or the file does not open.
OpenTruncate(p, f, id) ==
  /\ idstep[p] = "create"
  /\ \/ /\ exists' = [exists EXCEPT ![f] = TRUE]
        /\ content' = [content EXCEPT ![f] = {}]
        /\ mine' = [mine EXCEPT ![p] = id]
        /\ idstep' = [idstep EXCEPT ![p] = "write"]
     \/ /\ idstep' = [idstep EXCEPT ![p] = "error"]
        /\ UNCHANGED <<exists, content, mine>>

\* The profile is shorter than the stream's buffer, so that it reaches the file
\* when the stream is destroyed, after f.good() was asked: if the disk is full
\* then, the process goes on as if the profile were there.
Flush(p, f, pw) ==
  /\ idstep[p] = "write"
  /\ \E w \in {{[id |-> mine[p], pw |-> pw]}, {}, content[f]} :
       content' = [content EXCEPT ![f] = w]
  /\ idstep' = [idstep EXCEPT ![p] = "done"]
  /\ UNCHANGED <<exists, mine>>

\* Fault: a file that is cut short is taken for one to be made.
LoadOrMake(p, f, pw) ==
  /\ idstep[p] = "load"
  /\ \/ \E w \in content[f] :
          /\ w.pw = pw
          /\ mine' = [mine EXCEPT ![p] = w.id]
          /\ idstep' = [idstep EXCEPT ![p] = "done"]
     \/ /\ ~\E w \in content[f] : w.pw = pw
        /\ idstep' = [idstep EXCEPT ![p] = "create"]
        /\ UNCHANGED mine
  /\ UNCHANGED <<exists, content>>

\* load_profile.  With another password the GCM tag does not verify, which is
\* an abort (decrypt frees its context twice) or an error: either way the end.
Load(p, f, pw) ==
  /\ idstep[p] = "load"
  /\ \/ \E w \in content[f] :
          /\ w.pw = pw
          /\ mine' = [mine EXCEPT ![p] = w.id]
          /\ idstep' = [idstep EXCEPT ![p] = "done"]
     \/ /\ ~\E w \in content[f] : w.pw = pw
        /\ idstep' = [idstep EXCEPT ![p] = "error"]
        /\ UNCHANGED mine
  /\ UNCHANGED <<exists, content>>

LoadOrCreate(p, f, pw, id) ==
  CheckExists(p, f) \/ OpenTruncate(p, f, id) \/ Flush(p, f, pw) \/ Load(p, f, pw)
=============================================================================
