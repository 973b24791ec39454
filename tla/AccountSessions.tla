-------------------------- MODULE AccountSessions --------------------------
(***************************************************************************)
(* The processes that run AS an account while AccountStore's operations    *)
(* move the accounts' files: config.Load, Save and Delete, through the pin *)
(* SelectAccount leaves in the process.  The pin is a path, resolved once; *)
(* an unpinned process follows credentials.json.  Between its Load and its *)
(* Save a command holds the credential in memory (api.ResolveRelayKey      *)
(* makes several network calls there).                                     *)
(*                                                                         *)
(* Only SwitchAccount asks for the cross-process credential lock.  With    *)
(* LockedCommands the commands hold it too, from Load to Save.             *)
(***************************************************************************)
EXTENDS AccountStore

CONSTANTS
  Proc,            \* CLI processes
  LivePath,        \* the path of credentials.json, next to the names of parked files
  LockedCommands   \* do commands hold the credential lock from Load to Save?

ASSUME SessionsAssumption ==
  /\ LivePath \notin Name \cup {None}
  /\ LockedCommands \in BOOLEAN

VARIABLES
  path,      \* selectedPath, or credentials.json for an unpinned process
  selected,  \* the account behind the pin when it was taken; None = unpinned
  mem        \* the credential between a Load and the Save that writes it back

sessionVars == <<path, selected, mem>>
allVars == <<storeVars, sessionVars>>

SessionsTypeOK ==
  /\ TypeOK
  /\ path \in [Proc -> Name \cup {LivePath}]
  /\ selected \in [Proc -> File]
  /\ mem \in [Proc -> Account \cup {None}]

FileAt(x) == IF x = LivePath THEN live ELSE parked[x]

\* Replace the file at x, and nothing else.
WriteAt(x, file) ==
  IF x = LivePath
  THEN live' = file /\ UNCHANGED parked
  ELSE parked' = [parked EXCEPT ![x] = file] /\ UNCHANGED live

\* The lock, when commands take it: no store operation under way, no other
\* command between its Load and its Save.
LockFree(p) ==
  LockedCommands => pc = "idle" /\ \A q \in Proc \ {p} : mem[q] = None

\* SelectAccount(n): the account must exist; its path is resolved here.
Select(p, n) ==
  /\ selected[p] = None /\ mem[p] = None
  /\ AccountFile(n) # None
  /\ path' = [path EXCEPT ![p] = IF n = ActiveAccountName THEN LivePath ELSE n]
  /\ selected' = [selected EXCEPT ![p] = AccountFile(n)]
  /\ UNCHANGED <<storeVars, mem>>

\* Load fails on a missing or damaged file.
Load(p) ==
  /\ mem[p] = None
  /\ LockFree(p)
  /\ FileAt(path[p]) \in Account
  /\ mem' = [mem EXCEPT ![p] = FileAt(path[p])]
  /\ UNCHANGED <<storeVars, path, selected>>

\* A pin that redirects reads but not writes.
FaultySave(p) ==
  /\ mem[p] # None
  /\ WriteAt(LivePath, mem[p])
  /\ mem' = [mem EXCEPT ![p] = None]
  /\ UNCHANGED <<index, pc, op, released, path, selected>>

\* Save writes what was loaded, updated, to the path of the pin.
Save(p) ==
  /\ mem[p] # None
  /\ WriteAt(path[p], mem[p])
  /\ mem' = [mem EXCEPT ![p] = None]
  /\ UNCHANGED <<index, pc, op, released, path, selected>>

\* Delete removes the file of the pin.
Delete(p) ==
  /\ mem[p] = None
  /\ LockFree(p)
  /\ WriteAt(path[p], None)
  /\ released' = released \cup ({FileAt(path[p])} \cap Account)
  /\ UNCHANGED <<index, pc, op, sessionVars>>

\* The process ends; the next one starts unpinned.
Exit(p) ==
  /\ path' = [path EXCEPT ![p] = LivePath]
  /\ selected' = [selected EXCEPT ![p] = None]
  /\ mem' = [mem EXCEPT ![p] = None]
  /\ UNCHANGED storeVars

\* An operation of the store, holding the lock.
StoreStep ==
  /\ LockedCommands => \A p \in Proc : mem[p] = None
  /\ Next
  /\ UNCHANGED sessionVars

SessionsInit ==
  /\ Init
  /\ path = [p \in Proc |-> LivePath]
  /\ selected = [p \in Proc |-> None]
  /\ mem = [p \in Proc |-> None]

SessionsNext ==
  \/ StoreStep
  \/ \E p \in Proc :
       \/ \E n \in Name : Select(p, n)
       \/ Load(p) \/ Save(p) \/ Delete(p) \/ Exit(p)

SessionsSpec == SessionsInit /\ [][SessionsNext]_allVars
=============================================================================
