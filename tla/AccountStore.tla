---------------------------- MODULE AccountStore ----------------------------
(***************************************************************************)
(* The on-disk account store of package config (accounts.go, config.go).   *)
(*                                                                         *)
(* Three kinds of file hold the state: credentials.json (the ACTIVE        *)
(* account), accounts/<name>.json (one per PARKED account) and             *)
(* accounts/index.json (the name of the active account, stamped with the   *)
(* identity of the credential that name belongs to).  Each file is         *)
(* replaced atomically, but an operation writes several of them, so the    *)
(* operations are split into one action per file written, and a kill, a    *)
(* full disk or a failed rename may end an operation between any two.      *)
(*                                                                         *)
(* A credential is abstracted to the account it signs in to: SameAccount   *)
(* equality is equality of members of Account.  The operations of this     *)
(* module hold the cross-process credential lock, as SwitchAccount asks of *)
(* its callers; AccountSessions adds the processes that do not.            *)
(*                                                                         *)
(* Definitions whose name starts with Faulty are mistakes this code could  *)
(* have made; the mutation runs put them in the place of the correct ones. *)
(***************************************************************************)
EXTENDS Integers, Sequences

CONSTANTS
  Account,      \* identities, the classes of Credentials.SameAccount
  Name,         \* valid account names
  OwnName,      \* DeriveAccountName: the name derived from an account's credential
  Numbered,     \* of each name, what is tried when it is taken: name-2, name-3, ...
  None,         \* no file, no name, no stamp
  Corrupt,      \* a credential file that does not parse
  Interrupts,   \* may an operation die, or fail, between two of its writes?
  GivenNames,   \* the names a user may rename the account in a file to, if any
  LegacyIndex,  \* may the store start with an index written before stamps existed?
  Damages       \* the files the outside world may damage, of "live", "parked", "index"

ASSUME ConstantsAssumption ==
  /\ OwnName \in [Account -> Name]
  /\ None \notin Account \cup Name
  /\ Corrupt \notin Account \cup Name \cup {None}
  /\ Interrupts \in BOOLEAN
  /\ LegacyIndex \in BOOLEAN
  /\ Damages \subseteq {"live", "parked", "index"}

ASSUME NumberedAssumption == Numbered \in [Name -> Seq(Name)]

File == Account \cup {None, Corrupt}

ASSUME GivenNamesAssumption == GivenNames \in [File -> SUBSET Name]

VARIABLES
  live,    \* credentials.json
  parked,  \* accounts/<name>.json, for every name
  index,   \* accounts/index.json: the active name and its stamp; unreadable = no name
  pc,      \* the next write of the operation that holds the credential lock
  op,      \* what that operation has in memory
  released \* auxiliary: the accounts signed out or damaged since their last login

storeVars == <<live, parked, index, pc, op, released>>

NoIndex == [active |-> None, stamp |-> None]
Index == [active : Name \cup {None}, stamp : Account \cup {None}]
NoOp == [name |-> None, acct |-> None, outName |-> None, outAcct |-> None]
Op == [name : Name \cup {None}, acct : Account \cup {None},
       outName : Name \cup {None}, outAcct : Account \cup {None}]
Step == {"idle", "park", "promote", "index", "remove",
         "loginPark", "loginSave", "loginIndex"}

TypeOK ==
  /\ live \in File
  /\ parked \in [Name -> File]
  /\ index \in Index
  /\ pc \in Step
  /\ op \in Op
  /\ released \subseteq Account

-----------------------------------------------------------------------------
(* Reading the store.                                                      *)

\* accountsIndex.describes: an index without a stamp contradicts nothing.
Describes == index.stamp \in {None, live}

\* loadActive's name; None when credentials.json cannot be read.
LoadedName ==
  IF live \notin Account THEN None
  ELSE IF index.active # None /\ Describes THEN index.active
  ELSE OwnName[live]

\* ActiveAccountName never fails: over a damaged credentials.json it falls
\* back on the recorded name.
ActiveAccountName == IF live = Corrupt THEN index.active ELSE LoadedName

\* The content of the file AccountPath(n) resolves to.
AccountFile(n) == IF n = ActiveAccountName THEN live ELSE parked[n]

\* The parked rows of ListAccounts; a name equal to the active one is hidden.
ListedParked == {n \in Name : parked[n] \in Account /\ n # LoadedName}

\* accountNameSet
Taken == ListedParked \cup ({LoadedName} \ {None})

\* UniqueAccountName: base itself when it is free, else the first free base-2, base-3...
UniqueAccountName(base) ==
  IF base \notin Taken THEN {base}
  ELSE {Numbered[base][i] : i \in {i \in DOMAIN Numbered[base] :
          Numbered[base][i] \notin Taken /\ \A j \in 1..(i - 1) : Numbered[base][j] \in Taken}}

Stored == {a \in Account : live = a \/ \E n \in Name : parked[n] = a}

-----------------------------------------------------------------------------
(* Writing the store.                                                      *)

\* The name is recorded without the stamp.
FaultyNoStamp(n) == index' = [active |-> n, stamp |-> None]

\* writeAccountsIndex stamps the name with whatever credentials.json holds.
WriteAccountsIndex(n) ==
  index' = [active |-> n, stamp |-> IF live \in Account THEN live ELSE None]

\* The operation is over: it returns, fails or dies, and the lock is free.
Finish == pc' = "idle" /\ op' = NoOp

\* SwitchAccount of the account that is active already: record its name.
SwitchToActive(n) ==
  /\ pc = "idle"
  /\ n = LoadedName
  /\ WriteAccountsIndex(n)
  /\ UNCHANGED <<live, parked, pc, op, released>>

\* The switch promotes without parking first.
FaultyBeginSwitch(n) ==
  /\ pc = "idle"
  /\ n # LoadedName
  /\ AccountFile(n) \in Account
  /\ op' = [name |-> n, acct |-> AccountFile(n), outName |-> LoadedName,
            outAcct |-> IF live \in Account THEN live ELSE None]
  /\ pc' = "promote"
  /\ UNCHANGED <<live, parked, index, released>>

\* SwitchAccount reads both credentials before it writes anything.
BeginSwitch(n) ==
  /\ pc = "idle"
  /\ n # LoadedName
  /\ AccountFile(n) \in Account
  /\ op' = [name |-> n, acct |-> AccountFile(n), outName |-> LoadedName,
            outAcct |-> IF live \in Account THEN live ELSE None]
  /\ pc' = IF live \in Account THEN "park" ELSE "promote"
  /\ UNCHANGED <<live, parked, index, released>>

\* 1. The outgoing credential is parked under its own name.
ParkOutgoing ==
  /\ pc = "park"
  /\ parked' = [parked EXCEPT ![op.outName] = op.outAcct]
  /\ pc' = "promote"
  /\ UNCHANGED <<live, index, op, released>>

\* 2. The incoming one becomes credentials.json.
Promote ==
  /\ pc = "promote"
  /\ live' = op.acct
  /\ pc' = "index"
  /\ UNCHANGED <<parked, index, op, released>>

\* The index keeps the outgoing name.
FaultyRecordSwitch ==
  /\ pc = "index"
  /\ WriteAccountsIndex(IF op.outName \in Name THEN op.outName ELSE op.name)
  /\ pc' = "remove"
  /\ UNCHANGED <<live, parked, op, released>>

\* 3. The index names it.
RecordSwitch ==
  /\ pc = "index"
  /\ WriteAccountsIndex(op.name)
  /\ pc' = "remove"
  /\ UNCHANGED <<live, parked, op, released>>

\* 4. Only now is the parked copy redundant.
RemoveIncoming ==
  /\ pc = "remove"
  /\ parked' = [parked EXCEPT ![op.name] = None]
  /\ Finish
  /\ UNCHANGED <<live, index, released>>

-----------------------------------------------------------------------------
(* Login is the CLI's, built from the calls this package documents for it: *)
(* a login of an account that is stored already replaces it under its      *)
(* name, any other takes a unique name; the outgoing credential is parked  *)
(* with ParkActive, the new one saved, and SetActiveAccountName records it.*)

LoginNames(a) ==
  IF live = a THEN {LoadedName}
  ELSE IF \E n \in ListedParked : parked[n] = a
       THEN {n \in ListedParked : parked[n] = a}
       ELSE UniqueAccountName(OwnName[a])

BeginLogin(a) ==
  /\ pc = "idle"
  /\ \E n \in LoginNames(a) :
       op' = [name |-> n, acct |-> a, outName |-> LoadedName,
              outAcct |-> IF live \in Account THEN live ELSE None]
  /\ pc' = IF live \in Account \ {a} THEN "loginPark" ELSE "loginSave"
  /\ UNCHANGED <<live, parked, index, released>>

\* ParkActive copies credentials.json, as it is on disk now.
LoginPark ==
  /\ pc = "loginPark"
  /\ live \in Account
  /\ parked' = [parked EXCEPT ![op.outName] = live]
  /\ pc' = "loginSave"
  /\ UNCHANGED <<live, index, op, released>>

LoginSave ==
  /\ pc = "loginSave"
  /\ live' = op.acct
  /\ pc' = "loginIndex"
  /\ released' = released \ {op.acct}
  /\ UNCHANGED <<parked, index, op>>

LoginIndex ==
  /\ pc = "loginIndex"
  /\ WriteAccountsIndex(op.name)
  /\ Finish
  /\ UNCHANGED <<live, parked, released>>

-----------------------------------------------------------------------------
(* Rename, sign-out, failure and damage.                                   *)

\* RenameAccount of the active account is an index write only.
RenameActive(m, n) ==
  /\ pc = "idle" /\ n \in GivenNames[live]
  /\ m # n /\ AccountFile(n) = None
  /\ m = ActiveAccountName
  /\ WriteAccountsIndex(n)
  /\ UNCHANGED <<live, parked, pc, op, released>>

\* RenameAccount of a parked account moves its file.
RenameParked(m, n) ==
  /\ pc = "idle" /\ n \in GivenNames[parked[m]]
  /\ m # n /\ AccountFile(n) = None
  /\ m # ActiveAccountName
  /\ parked[m] # None
  /\ parked' = [parked EXCEPT ![m] = None, ![n] = parked[m]]
  /\ UNCHANGED <<live, index, pc, op, released>>

\* DeleteAccount of the active account leaves the index pointing at its name.
DeleteAccount(n) ==
  /\ pc = "idle"
  /\ IF n = ActiveAccountName
     THEN live' = None /\ UNCHANGED parked
     ELSE parked' = [parked EXCEPT ![n] = None] /\ UNCHANGED live
  /\ released' = released \cup ({AccountFile(n)} \cap Account)
  /\ UNCHANGED <<index, pc, op>>

RemoveAllAccounts ==
  /\ pc = "idle"
  /\ parked' = [n \in Name |-> None]
  /\ index' = NoIndex
  /\ released' = released \cup {a \in Account : \E n \in Name : parked[n] = a}
  /\ UNCHANGED <<live, pc, op>>

\* A kill or an error return between two writes: what is written stays.
Interrupt ==
  /\ Interrupts
  /\ pc # "idle"
  /\ Finish
  /\ UNCHANGED <<live, parked, index, released>>

\* Something else on the machine damages a file between two operations.
DamageLive ==
  /\ "live" \in Damages /\ pc = "idle"
  /\ live \in Account
  /\ live' = Corrupt
  /\ released' = released \cup {live}
  /\ UNCHANGED <<parked, index, pc, op>>

DamageParked(n) ==
  /\ "parked" \in Damages /\ pc = "idle"
  /\ parked[n] \in Account
  /\ parked' = [parked EXCEPT ![n] = Corrupt]
  /\ released' = released \cup {parked[n]}
  /\ UNCHANGED <<live, index, pc, op>>

DamageIndex ==
  /\ "index" \in Damages /\ pc = "idle"
  /\ index' = NoIndex
  /\ UNCHANGED <<live, parked, pc, op, released>>

-----------------------------------------------------------------------------
\* An install of before the accounts directory existed: at most one account.
\* With LegacyIndex, one whose index names it without a stamp.
Init ==
  /\ live \in Account \cup {None}
  /\ parked = [n \in Name |-> None]
  /\ index \in {NoIndex} \cup
       (IF LegacyIndex THEN [active : Name, stamp : {None}] ELSE {})
  /\ pc = "idle"
  /\ op = NoOp
  /\ released = {}

Next ==
  \/ \E n \in Name : SwitchToActive(n) \/ BeginSwitch(n)
  \/ ParkOutgoing \/ Promote \/ RecordSwitch \/ RemoveIncoming
  \/ \E a \in Account : BeginLogin(a)
  \/ LoginPark \/ LoginSave \/ LoginIndex
  \/ \E m, n \in Name : RenameActive(m, n) \/ RenameParked(m, n)
  \/ \E n \in Name : DeleteAccount(n) \/ DamageParked(n)
  \/ RemoveAllAccounts
  \/ Interrupt
  \/ DamageLive \/ DamageIndex

Spec == Init /\ [][Next]_storeVars

-----------------------------------------------------------------------------
(* Properties.                                                             *)

\* What the other tools are promised: SignedIn, read off the files.  The
\* abstract released is the auxiliary variable of the same name.
Abstract == INSTANCE SignedIn WITH
  stored <- Stored,
  active <- IF live \in Account THEN live ELSE None

\* accounts.go:517-519 and 42-44: whatever the operations do, and wherever they
\* stop, an account leaves the store only by being signed out itself, and the
\* active account changes only to one that is stored.
ImplementsSignedIn == Abstract!Spec

\* accounts.go:44: the name the active credential goes by never hides a parked
\* file of another account (ListAccounts would skip it, the next park overwrite
\* it).
ActiveNameShadowsNobody ==
  pc = "idle" /\ live \in Account /\ parked[LoadedName] \in Account
    => parked[LoadedName] = live

\* accounts.go:519: from the park on, wherever a switch stops, the outgoing
\* account has its parked file, and until the index names the incoming one that
\* account has a file too, in both places once it is promoted.
SwitchLeavesBothStored ==
  pc \in {"promote", "index", "remove"} =>
    /\ op.outAcct # None => parked[op.outName] = op.outAcct
    /\ parked[op.name] = op.acct
    /\ pc # "promote" => live = op.acct

\* accounts.go:531,556 and SetActiveAccountName: an operation that runs to its
\* end leaves the account it was asked for active, under the name it was asked
\* for.
CompletedTakesEffect ==
  [][RemoveIncoming \/ LoginIndex =>
       live' = op.acct /\ LoadedName' = op.name]_storeVars

\* accounts.go:42: a corrupt or missing index costs a name, never a session:
\* no park overwrites the file of another account.
ParkOverwritesNobody ==
  [][ParkOutgoing \/ LoginPark =>
       parked[op.outName] \in {None, Corrupt, parked'[op.outName]}]_storeVars
=============================================================================
