----------------------------- MODULE InstallKey -----------------------------
(***************************************************************************)
(* The secret that placeholders are derived with, one for an installation  *)
(* (sanitizer/installkey.go): each process takes it from a file, or makes  *)
(* one and writes the file, without a lock, without a second look, and     *)
(* with every error ignored.  A key is named for the process that made it. *)
(***************************************************************************)
CONSTANTS
  Starter,  \* processes that come to need the key
  OldKey,   \* the key of an earlier run
  NoKey     \* no key, or fewer bytes than a key has

ASSUME InstallKeyAssumption == OldKey \notin Starter /\ NoKey \notin Starter \cup {OldKey}

VARIABLES
  keyFile,  \* sanitizer-key: is it there, is it private, the key in it
  stage,    \* each process: "new", "read", "create", "write", "has" or "gone"
  held,     \* the key it uses
  late,     \* auxiliary: the processes that looked when the key had settled
  missed    \* auxiliary: a process failed to read the file

installVars == <<keyFile, stage, held, late, missed>>

KeyFile == {f \in [there : BOOLEAN, private : BOOLEAN, key : Starter \cup {OldKey, NoKey}] :
              ~f.there => f.private /\ f.key = NoKey}

InstallKeyTypeOK ==
  /\ keyFile \in KeyFile
  /\ stage \in [Starter -> {"new", "read", "create", "write", "has", "gone"}]
  /\ held \in [Starter -> Starter \cup {OldKey, NoKey}]
  /\ late \subseteq Starter /\ missed \in BOOLEAN

Goto(p, next) == stage' = [stage EXCEPT ![p] = next]
Hold(p, key) == held' = [held EXCEPT ![p] = key]

\* A key of just the right length is too short.
FaultyWholeKey == FALSE

WholeKey == keyFile.key # NoKey

\* The file has a key, and nobody has yet to write one.
Settled ==
  /\ keyFile.there /\ keyFile.private /\ keyFile.key # NoKey
  /\ \A p \in Starter : stage[p] \notin {"create", "write"}

\* installKeyFileIsSafe: a file others can read, or a link, is left alone.
Look(p) ==
  /\ stage[p] = "new"
  /\ IF keyFile.private THEN Goto(p, "read") /\ UNCHANGED held
     ELSE Goto(p, "has") /\ Hold(p, p)
  /\ late' = IF Settled THEN late \cup {p} ELSE late
  /\ UNCHANGED <<keyFile, missed>>

\* Where or what the file is cannot be told: it is neither read nor written.
LookFails(p) ==
  /\ stage[p] = "new"
  /\ Goto(p, "has") /\ Hold(p, p)
  /\ UNCHANGED <<keyFile, late, missed>>

ReadKey(p) ==
  /\ stage[p] = "read"
  /\ IF WholeKey THEN Goto(p, "has") /\ Hold(p, keyFile.key)
     ELSE Goto(p, "create") /\ Hold(p, p)
  /\ UNCHANGED <<keyFile, late, missed>>

\* An error is taken for a file that is not there.
ReadKeyFails(p) ==
  /\ stage[p] = "read" /\ keyFile.there
  /\ Goto(p, "create") /\ Hold(p, p)
  /\ missed' = TRUE
  /\ UNCHANGED <<keyFile, late>>

\* os.WriteFile opens the file, which empties it, and then writes.
CreateKeyFile(p) ==
  /\ stage[p] = "create"
  /\ keyFile' = [keyFile EXCEPT !.there = TRUE, !.key = NoKey]
  /\ Goto(p, "write")
  /\ UNCHANGED <<held, late, missed>>

WriteKey(p) ==
  /\ stage[p] = "write"
  /\ keyFile' = [keyFile EXCEPT !.key = p]
  /\ Goto(p, "has")
  /\ UNCHANGED <<held, late, missed>>

\* The directory, the file or the disk does not let it: the key is its own.
KeepForItself(p) ==
  /\ stage[p] \in {"create", "write"}
  /\ Goto(p, "has")
  /\ UNCHANGED <<keyFile, held, late, missed>>

Killed(p) ==
  /\ stage[p] # "gone"
  /\ Goto(p, "gone")
  /\ UNCHANGED <<keyFile, held, late, missed>>

InstallInit ==
  /\ keyFile \in {f \in KeyFile : f.key \in {OldKey, NoKey}}
  /\ stage = [p \in Starter |-> "new"]
  /\ held = [p \in Starter |-> NoKey]
  /\ late = {}
  /\ missed = FALSE

InstallNext ==
  \E p \in Starter :
    \/ Look(p) \/ LookFails(p) \/ ReadKey(p) \/ ReadKeyFails(p)
    \/ CreateKeyFile(p) \/ WriteKey(p) \/ KeepForItself(p) \/ Killed(p)

\* installkey.go:30: the key is stable across processes, once it has settled.
\* However many first runs raced, failed or were killed half-way, the processes that
\* look at the file when a whole key is in it and nobody is about to write one all use
\* that one, and it stays in the file, unless looking at the file or reading it fails.
LateRunsAgree ==
  \A p \in late :
    ~missed => /\ stage[p] \in {"read", "has", "gone"}
               /\ held[p] \in {NoKey, keyFile.key}
=============================================================================
