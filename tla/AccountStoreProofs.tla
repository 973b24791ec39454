------------------------- MODULE AccountStoreProofs -------------------------
(***************************************************************************)
(* Invariance and refinement proofs for AccountStore and AccountSessions,  *)
(* for every set of accounts, names and processes.                         *)
(*                                                                         *)
(* The store keeps its promise in two settings (SafeSetting): when no      *)
(* operation stops half-way and nobody damages the index, whatever the     *)
(* names; and when it may do all that, if the names an account may go by,  *)
(* derived from its credential or given by the user, are no other's.       *)
(* Outside them it does not: see the run AccountsIndexLost.  Commands that *)
(* run beside the store's operations keep it too, if they take the lock.   *)
(***************************************************************************)
EXTENDS AccountSessions, TLAPS

\* The names an account may ever go by.
NamesOf(a) == {OwnName[a]} \cup GivenNames[a]

OwnNamesOnly ==
  /\ \A a, b \in Account : NamesOf(a) \cap NamesOf(b) # {} => a = b
  /\ GivenNames[Corrupt] = {}
  /\ ~LegacyIndex

SafeSetting ==
  \/ ~Interrupts /\ "index" \notin Damages
  \/ OwnNamesOnly

\* What a switch in progress knows of the files.
SwitchShape ==
  /\ pc \in {"park", "promote", "index", "remove"} =>
       /\ op.name \in Name /\ op.acct \in Account
       /\ parked[op.name] = op.acct
       /\ (op.outAcct # None => op.outName \in Name /\ op.outName # op.name)
  /\ pc = "park" =>
       /\ live \in Account /\ op.outAcct = live /\ op.outName = LoadedName
  /\ pc = "promote" =>
       op.outAcct = IF live \in Account THEN live ELSE None
  /\ pc \in {"promote", "index", "remove"} =>
       (op.outAcct # None => parked[op.outName] = op.outAcct)
  /\ pc \in {"index", "remove"} => live = op.acct
  /\ pc = "remove" => index = [active |-> op.name, stamp |-> op.acct]

\* What a login in progress knows of the files.
LoginShape ==
  /\ pc \in {"loginPark", "loginSave", "loginIndex"} =>
       op.name \in Name /\ op.acct \in Account
  /\ pc = "loginPark" =>
       /\ live \in Account /\ op.outName = LoadedName /\ op.outName # op.name
  /\ pc = "loginIndex" => live = op.acct

\* The part that needs SafeSetting: who may be parked under which name.
NamesShape ==
  /\ pc \in {"idle", "park", "loginPark"} =>
       (live \in Account => parked[LoadedName] \in {None, Corrupt, live})
  /\ pc \in {"loginPark", "loginSave", "loginIndex"} =>
       parked[op.name] \in {None, Corrupt, op.acct}
  /\ pc = "loginSave" =>
       (live \in Account => live = op.acct \/ \E n \in Name : parked[n] = live)

\* With own names only, every file and every record agrees on the name.
OwnNamed ==
  OwnNamesOnly =>
    /\ index.active # None => index.stamp # None
    /\ index.stamp # None => index.active \in NamesOf(index.stamp)
    /\ \A n \in Name : parked[n] \in Account => n \in NamesOf(parked[n])
    /\ pc # "idle" => op.acct \in Account /\ op.name \in NamesOf(op.acct)

ShapeInv == TypeOK /\ SwitchShape /\ LoginShape

IInv == ShapeInv /\ NamesShape /\ OwnNamed

-----------------------------------------------------------------------------
\* The name ActiveAccountName finds over a readable credential is loadActive's,
\* and it is a name.
LEMMA LoadedNameType ==
  ASSUME TypeOK
  PROVE  /\ live \in Account => LoadedName \in Name /\ ActiveAccountName = LoadedName
         /\ live \notin Account => LoadedName = None
BY ConstantsAssumption DEF TypeOK, Index, LoadedName, ActiveAccountName

\* A unique name is a name, and free.
LEMMA UniqueIsFree ==
  ASSUME NEW base \in Name
  PROVE  UniqueAccountName(base) \subseteq Name \ Taken
<1>1. \A i \in DOMAIN Numbered[base] : Numbered[base][i] \in Name
  BY NumberedAssumption
<1> QED
  BY <1>1 DEF UniqueAccountName

\* A switch never starts from the live file: what it loads is parked.
LEMMA IncomingIsParked ==
  ASSUME TypeOK, NEW n \in Name, n # LoadedName, AccountFile(n) \in Account
  PROVE  AccountFile(n) = parked[n]
BY ConstantsAssumption DEF TypeOK, File, AccountFile, ActiveAccountName

LEMMA InitShape == Init => IInv
<1> SUFFICES ASSUME Init PROVE IInv
  OBVIOUS
<1>1. TypeOK
  BY ConstantsAssumption
  DEF Init, TypeOK, File, NoIndex, Index, NoOp, Op, Step
<1>2. SwitchShape /\ LoginShape
  BY DEF Init, SwitchShape, LoginShape
<1>3. NamesShape
  BY <1>1, LoadedNameType DEF Init, NamesShape
<1>4. OwnNamed
  BY ConstantsAssumption DEF Init, OwnNamed, OwnNamesOnly, NoIndex
<1> QED BY <1>1, <1>2, <1>3, <1>4 DEF IInv, ShapeInv

\* Types are preserved by every step.
LEMMA TypeStep ==
  ASSUME ShapeInv, [Next]_storeVars
  PROVE  TypeOK'
<1> USE ConstantsAssumption DEF TypeOK, File, Index, Op, Step, NoIndex, NoOp,
        WriteAccountsIndex, Finish
<1> TypeOK BY DEF ShapeInv
<1>1. CASE UNCHANGED storeVars BY <1>1 DEF storeVars
<1>2. ASSUME NEW n \in Name, SwitchToActive(n) PROVE TypeOK'
  BY <1>2 DEF SwitchToActive
<1>3. ASSUME NEW n \in Name, BeginSwitch(n) PROVE TypeOK'
  <2>1. LoadedName \in Name \cup {None} BY LoadedNameType
  <2> QED BY <1>3, <2>1 DEF BeginSwitch
<1>4. CASE ParkOutgoing
  <2>1. op.outAcct \in File BY <1>4 DEF ParkOutgoing
  <2> QED BY <1>4, <2>1 DEF ParkOutgoing
<1>5. CASE Promote BY <1>5 DEF Promote
<1>6. CASE RecordSwitch BY <1>6 DEF RecordSwitch, ShapeInv, SwitchShape
<1>7. CASE RemoveIncoming BY <1>7 DEF RemoveIncoming
<1>8. ASSUME NEW a \in Account, BeginLogin(a) PROVE TypeOK'
  <2>1. LoadedName \in Name \cup {None} BY LoadedNameType
  <2>2. LoginNames(a) \subseteq Name
    BY LoadedNameType, UniqueIsFree DEF LoginNames, ListedParked
  <2> QED BY <1>8, <2>1, <2>2 DEF BeginLogin
<1>9. CASE LoginPark BY <1>9 DEF LoginPark
<1>10. CASE LoginSave BY <1>10 DEF LoginSave
<1>11. CASE LoginIndex BY <1>11 DEF LoginIndex, ShapeInv, LoginShape
<1>12. ASSUME NEW m \in Name, NEW n \in Name, RenameActive(m, n) PROVE TypeOK'
  BY <1>12 DEF RenameActive
<1>13. ASSUME NEW m \in Name, NEW n \in Name, RenameParked(m, n) PROVE TypeOK'
  BY <1>13 DEF RenameParked
<1>14. ASSUME NEW n \in Name, DeleteAccount(n) PROVE TypeOK'
  BY <1>14 DEF DeleteAccount
<1>15. ASSUME NEW n \in Name, DamageParked(n) PROVE TypeOK'
  BY <1>15 DEF DamageParked
<1>16. CASE RemoveAllAccounts BY <1>16 DEF RemoveAllAccounts
<1>17. CASE Interrupt BY <1>17 DEF Interrupt
<1>18. CASE DamageLive BY <1>18 DEF DamageLive
<1>19. CASE DamageIndex BY <1>19 DEF DamageIndex
<1> QED BY <1>1, <1>2, <1>3, <1>4, <1>5, <1>6, <1>7, <1>8, <1>9, <1>10, <1>11,
           <1>12, <1>13, <1>14, <1>15, <1>16, <1>17, <1>18, <1>19 DEF Next

-----------------------------------------------------------------------------
\* What a switch knows survives every step: the lock keeps the others out, and
\* the outgoing name is never the incoming one.
LEMMA SwitchStep ==
  ASSUME ShapeInv, [Next]_storeVars
  PROVE  SwitchShape'
<1> USE ConstantsAssumption DEF TypeOK, Index, Op, Step, NoOp, SwitchShape,
        WriteAccountsIndex, Finish
<1> TypeOK /\ SwitchShape /\ LoginShape BY DEF ShapeInv
<1>1. CASE UNCHANGED storeVars
  BY <1>1 DEF storeVars, LoadedName, Describes
<1>2. ASSUME NEW n \in Name, SwitchToActive(n) PROVE SwitchShape'
  BY <1>2 DEF SwitchToActive
<1>3. ASSUME NEW n \in Name, BeginSwitch(n) PROVE SwitchShape'
  <2>1. AccountFile(n) = parked[n]
    BY <1>3, IncomingIsParked DEF BeginSwitch
  <2>2. LoadedName' = LoadedName
    BY <1>3 DEF BeginSwitch, LoadedName, Describes
  <2> QED BY <1>3, <2>1, <2>2, LoadedNameType DEF BeginSwitch
<1>4. CASE ParkOutgoing
  BY <1>4 DEF ParkOutgoing
<1>5. CASE Promote BY <1>5 DEF Promote
<1>6. CASE RecordSwitch BY <1>6 DEF RecordSwitch
<1>7. CASE RemoveIncoming BY <1>7 DEF RemoveIncoming
<1>8. ASSUME NEW a \in Account, BeginLogin(a) PROVE SwitchShape'
  BY <1>8 DEF BeginLogin
<1>9. CASE LoginPark BY <1>9 DEF LoginPark
<1>10. CASE LoginSave BY <1>10 DEF LoginSave
<1>11. CASE LoginIndex BY <1>11 DEF LoginIndex
<1>12. ASSUME NEW m \in Name, NEW n \in Name, RenameActive(m, n) PROVE SwitchShape'
  BY <1>12 DEF RenameActive
<1>13. ASSUME NEW m \in Name, NEW n \in Name, RenameParked(m, n) PROVE SwitchShape'
  BY <1>13 DEF RenameParked
<1>14. ASSUME NEW n \in Name, DeleteAccount(n) PROVE SwitchShape'
  BY <1>14 DEF DeleteAccount
<1>15. ASSUME NEW n \in Name, DamageParked(n) PROVE SwitchShape'
  BY <1>15 DEF DamageParked
<1>16. CASE RemoveAllAccounts BY <1>16 DEF RemoveAllAccounts
<1>17. CASE Interrupt BY <1>17 DEF Interrupt
<1>18. CASE DamageLive BY <1>18 DEF DamageLive
<1>19. CASE DamageIndex BY <1>19 DEF DamageIndex
<1> QED BY <1>1, <1>2, <1>3, <1>4, <1>5, <1>6, <1>7, <1>8, <1>9, <1>10, <1>11,
           <1>12, <1>13, <1>14, <1>15, <1>16, <1>17, <1>18, <1>19 DEF Next

\* The name a login takes is never the one it parks the outgoing account under.
LEMMA LoginNameIsAnother ==
  ASSUME TypeOK, NEW a \in Account, NEW n \in LoginNames(a), live \in Account \ {a}
  PROVE  n \in Name /\ n # LoadedName
BY LoadedNameType, UniqueIsFree, ConstantsAssumption
   DEF LoginNames, Taken, ListedParked, TypeOK

LEMMA LoginStep ==
  ASSUME ShapeInv, [Next]_storeVars
  PROVE  LoginShape'
<1> USE ConstantsAssumption DEF TypeOK, Index, Op, Step, NoOp, LoginShape,
        WriteAccountsIndex, Finish
<1> TypeOK /\ SwitchShape /\ LoginShape BY DEF ShapeInv
<1>1. CASE UNCHANGED storeVars
  BY <1>1 DEF storeVars, LoadedName, Describes
<1>2. ASSUME NEW n \in Name, SwitchToActive(n) PROVE LoginShape'
  BY <1>2 DEF SwitchToActive
<1>3. ASSUME NEW n \in Name, BeginSwitch(n) PROVE LoginShape'
  BY <1>3 DEF BeginSwitch
<1>4. CASE ParkOutgoing BY <1>4 DEF ParkOutgoing
<1>5. CASE Promote BY <1>5 DEF Promote
<1>6. CASE RecordSwitch BY <1>6 DEF RecordSwitch
<1>7. CASE RemoveIncoming BY <1>7 DEF RemoveIncoming
<1>8. ASSUME NEW a \in Account, BeginLogin(a) PROVE LoginShape'
  <2>1. PICK n \in LoginNames(a) :
          op' = [name |-> n, acct |-> a, outName |-> LoadedName,
                 outAcct |-> IF live \in Account THEN live ELSE None]
    BY <1>8 DEF BeginLogin
  <2>2. n \in Name
    BY LoadedNameType, UniqueIsFree DEF LoginNames, ListedParked
  <2>3. LoadedName' = LoadedName
    BY <1>8 DEF BeginLogin, LoadedName, Describes
  <2> QED BY <1>8, <2>1, <2>2, <2>3, LoginNameIsAnother DEF BeginLogin
<1>9. CASE LoginPark BY <1>9 DEF LoginPark
<1>10. CASE LoginSave BY <1>10 DEF LoginSave
<1>11. CASE LoginIndex BY <1>11 DEF LoginIndex
<1>12. ASSUME NEW m \in Name, NEW n \in Name, RenameActive(m, n) PROVE LoginShape'
  BY <1>12 DEF RenameActive
<1>13. ASSUME NEW m \in Name, NEW n \in Name, RenameParked(m, n) PROVE LoginShape'
  BY <1>13 DEF RenameParked
<1>14. ASSUME NEW n \in Name, DeleteAccount(n) PROVE LoginShape'
  BY <1>14 DEF DeleteAccount
<1>15. ASSUME NEW n \in Name, DamageParked(n) PROVE LoginShape'
  BY <1>15 DEF DamageParked
<1>16. CASE RemoveAllAccounts BY <1>16 DEF RemoveAllAccounts
<1>17. CASE Interrupt BY <1>17 DEF Interrupt
<1>18. CASE DamageLive BY <1>18 DEF DamageLive
<1>19. CASE DamageIndex BY <1>19 DEF DamageIndex
<1> QED BY <1>1, <1>2, <1>3, <1>4, <1>5, <1>6, <1>7, <1>8, <1>9, <1>10, <1>11,
           <1>12, <1>13, <1>14, <1>15, <1>16, <1>17, <1>18, <1>19 DEF Next

LEMMA ShapeStep == ShapeInv /\ [Next]_storeVars => ShapeInv'
BY TypeStep, SwitchStep, LoginStep DEF ShapeInv

-----------------------------------------------------------------------------
\* An account's names are names, and tell the account.
LEMMA NamesTell ==
  ASSUME OwnNamesOnly, NEW a \in Account, NEW n \in NamesOf(a)
  PROVE  n \in Name /\ \A b \in Account : n \in NamesOf(b) => b = a
BY ConstantsAssumption, GivenNamesAssumption DEF OwnNamesOnly, NamesOf, File

\* With own names only the active credential goes by a name of its own,
\* whatever became of the index.
LEMMA LoadedIsOwn ==
  ASSUME OwnNamesOnly, TypeOK, OwnNamed, live \in Account
  PROVE  LoadedName \in NamesOf(live)
<1>1. OwnName[live] \in NamesOf(live)
  BY DEF NamesOf
<1> QED BY <1>1, ConstantsAssumption DEF OwnNamed, LoadedName, Describes, TypeOK, Index

\* ... so nobody else is parked under any of them.
LEMMA OwnNameIsFree ==
  ASSUME OwnNamesOnly, TypeOK, OwnNamed, live \in Account, NEW n \in NamesOf(live)
  PROVE  parked[n] \in {None, Corrupt, live}
<1>1. n \in Name
  BY NamesTell
<1>2. parked[n] \in Account => n \in NamesOf(parked[n])
  BY <1>1 DEF OwnNamed
<1> QED BY <1>1, <1>2, NamesTell DEF TypeOK, File

\* ... and a login takes one of its own.
LEMMA LoginTakesOwnName ==
  ASSUME OwnNamesOnly, TypeOK, OwnNamed, NEW a \in Account, NEW n \in LoginNames(a)
  PROVE  n \in NamesOf(a)
<1> USE ConstantsAssumption DEF TypeOK
<1>1. CASE live = a
  BY <1>1, LoadedIsOwn DEF LoginNames
<1>2. CASE live # a /\ \E k \in ListedParked : parked[k] = a
  BY <1>2 DEF LoginNames, OwnNamed, ListedParked
<1>3. CASE live # a /\ ~\E k \in ListedParked : parked[k] = a
  <2>0. OwnName[a] \in NamesOf(a)
    BY DEF NamesOf
  <2>1. OwnName[a] \notin ListedParked
    BY <1>3, <2>0, NamesTell DEF ListedParked, OwnNamed
  <2>2. OwnName[a] # LoadedName
    BY <1>3, <2>0, LoadedIsOwn, LoadedNameType, NamesTell DEF File
  <2>3. OwnName[a] \notin Taken
    BY <2>1, <2>2 DEF Taken
  <2> QED BY <1>3, <2>0, <2>3 DEF LoginNames, UniqueAccountName
<1> QED BY <1>1, <1>2, <1>3

LEMMA OwnNamedStep ==
  ASSUME ShapeInv, OwnNamed, [Next]_storeVars
  PROVE  OwnNamed'
<1> SUFFICES ASSUME OwnNamesOnly PROVE OwnNamed'
  BY DEF OwnNamed
<1> USE ConstantsAssumption DEF OwnNamed, TypeOK, Index, NoIndex, Op,
        WriteAccountsIndex, Finish
<1> TypeOK /\ SwitchShape /\ LoginShape BY DEF ShapeInv
<1>1. CASE UNCHANGED storeVars BY <1>1 DEF storeVars
<1>2. ASSUME NEW n \in Name, SwitchToActive(n) PROVE OwnNamed'
  <2>1. live \in Account /\ n \in NamesOf(live)
    BY <1>2, LoadedIsOwn, LoadedNameType DEF SwitchToActive
  <2> QED BY <1>2, <2>1 DEF SwitchToActive
<1>3. ASSUME NEW n \in Name, BeginSwitch(n) PROVE OwnNamed'
  BY <1>3, IncomingIsParked DEF BeginSwitch
<1>4. CASE ParkOutgoing
  <2>1. op.outName \in NamesOf(op.outAcct) /\ op.outName \in Name /\ op.outAcct = live
    BY <1>4, LoadedIsOwn, LoadedNameType DEF ParkOutgoing, SwitchShape
  <2> QED BY <1>4, <2>1 DEF ParkOutgoing
<1>5. CASE Promote BY <1>5 DEF Promote
<1>6. CASE RecordSwitch BY <1>6 DEF RecordSwitch, SwitchShape
<1>7. CASE RemoveIncoming BY <1>7 DEF RemoveIncoming
<1>8. ASSUME NEW a \in Account, BeginLogin(a) PROVE OwnNamed'
  BY <1>8, LoginTakesOwnName DEF BeginLogin
<1>9. CASE LoginPark
  <2>1. op.outName \in NamesOf(live) /\ op.outName \in Name
    BY <1>9, LoadedIsOwn, LoadedNameType DEF LoginPark, LoginShape
  <2> QED BY <1>9, <2>1 DEF LoginPark
<1>10. CASE LoginSave BY <1>10 DEF LoginSave
<1>11. CASE LoginIndex BY <1>11 DEF LoginIndex, LoginShape
<1>12. ASSUME NEW m \in Name, NEW n \in Name, RenameActive(m, n) PROVE OwnNamed'
  <2>1. live \in Account /\ n \in NamesOf(live)
    BY <1>12 DEF RenameActive, OwnNamesOnly, ActiveAccountName, LoadedName, File, NamesOf
  <2> QED BY <1>12, <2>1 DEF RenameActive
<1>13. ASSUME NEW m \in Name, NEW n \in Name, RenameParked(m, n) PROVE OwnNamed'
  <2>1. parked[m] \in Account /\ n \in NamesOf(parked[m])
    BY <1>13 DEF RenameParked, OwnNamesOnly, File, NamesOf
  <2> QED BY <1>13, <2>1 DEF RenameParked
<1>14. ASSUME NEW n \in Name, DeleteAccount(n) PROVE OwnNamed'
  BY <1>14 DEF DeleteAccount
<1>15. ASSUME NEW n \in Name, DamageParked(n) PROVE OwnNamed'
  BY <1>15 DEF DamageParked
<1>16. CASE RemoveAllAccounts BY <1>16 DEF RemoveAllAccounts
<1>17. CASE Interrupt BY <1>17 DEF Interrupt
<1>18. CASE DamageLive BY <1>18 DEF DamageLive
<1>19. CASE DamageIndex BY <1>19 DEF DamageIndex
<1> QED BY <1>1, <1>2, <1>3, <1>4, <1>5, <1>6, <1>7, <1>8, <1>9, <1>10, <1>11,
           <1>12, <1>13, <1>14, <1>15, <1>16, <1>17, <1>18, <1>19 DEF Next

-----------------------------------------------------------------------------
\* The heart of the argument: who may be parked under which name.
LEMMA NamesStep ==
  ASSUME SafeSetting, IInv, [Next]_storeVars, ShapeInv', OwnNamed'
  PROVE  NamesShape'
<1> USE ConstantsAssumption DEF TypeOK, File, Index, NoIndex, Op, NamesShape,
        WriteAccountsIndex, Finish
<1> /\ TypeOK /\ SwitchShape /\ LoginShape /\ NamesShape /\ OwnNamed
    /\ TypeOK'
  BY DEF IInv, ShapeInv
<1>1. CASE UNCHANGED storeVars
  BY <1>1 DEF storeVars, LoadedName, Describes
<1>2. ASSUME NEW n \in Name, SwitchToActive(n) PROVE NamesShape'
  <2>1. LoadedName' = LoadedName
    BY <1>2 DEF SwitchToActive, LoadedName, Describes
  <2> QED BY <1>2, <2>1 DEF SwitchToActive
<1>3. ASSUME NEW n \in Name, BeginSwitch(n) PROVE NamesShape'
  <2>1. LoadedName' = LoadedName
    BY <1>3 DEF BeginSwitch, LoadedName, Describes
  <2> QED BY <1>3, <2>1 DEF BeginSwitch
<1>4. CASE ParkOutgoing BY <1>4 DEF ParkOutgoing
<1>5. CASE Promote BY <1>5 DEF Promote
<1>6. CASE RecordSwitch BY <1>6 DEF RecordSwitch
<1>7. CASE RemoveIncoming
  <2>1. LoadedName' = op.name
    BY <1>7 DEF RemoveIncoming, SwitchShape, LoadedName, Describes
  <2> QED BY <1>7, <2>1 DEF RemoveIncoming, SwitchShape
<1>8. ASSUME NEW a \in Account, BeginLogin(a) PROVE NamesShape'
  <2>1. PICK n \in LoginNames(a) :
          op' = [name |-> n, acct |-> a, outName |-> LoadedName,
                 outAcct |-> IF live \in Account THEN live ELSE None]
    BY <1>8 DEF BeginLogin
  <2>2. LoadedName' = LoadedName
    BY <1>8 DEF BeginLogin, LoadedName, Describes
  <2>3. parked[n] \in {None, Corrupt, a}
    <3>1. CASE live = a
      BY <3>1, <1>8 DEF BeginLogin, LoginNames
    <3>2. CASE live # a /\ \E k \in ListedParked : parked[k] = a
      BY <3>2 DEF LoginNames
    <3>3. CASE live # a /\ ~\E k \in ListedParked : parked[k] = a
      <4>1. n \in Name \ Taken
        BY <3>3, UniqueIsFree, ConstantsAssumption DEF LoginNames
      <4>2. n # LoadedName
        BY <4>1, LoadedNameType DEF Taken
      <4> QED BY <4>1, <4>2 DEF Taken, ListedParked
    <3> QED BY <3>1, <3>2, <3>3
  <2> QED BY <1>8, <2>1, <2>2, <2>3 DEF BeginLogin
<1>9. CASE LoginPark
  <2>1. op.outName \in Name
    BY <1>9, LoadedNameType DEF LoginPark, LoginShape
  <2>2. parked'[op.outName] = live
    BY <1>9, <2>1 DEF LoginPark
  <2>3. parked'[op.name] \in {None, Corrupt, op.acct}
    BY <1>9 DEF LoginPark, LoginShape
  <2> QED BY <1>9, <2>1, <2>2, <2>3 DEF LoginPark
<1>10. CASE LoginSave BY <1>10 DEF LoginSave
<1>11. CASE LoginIndex
  <2>1. LoadedName' = op.name
    BY <1>11 DEF LoginIndex, LoginShape, LoadedName, Describes
  <2> QED BY <1>11, <2>1 DEF LoginIndex, LoginShape
<1>12. ASSUME NEW m \in Name, NEW n \in Name, RenameActive(m, n) PROVE NamesShape'
  <2>1. live \in Account => parked[n] = None /\ LoadedName' = n
    BY <1>12 DEF RenameActive, AccountFile, LoadedName, Describes
  <2> QED BY <1>12, <2>1 DEF RenameActive
<1>13. ASSUME NEW m \in Name, NEW n \in Name, RenameParked(m, n) PROVE NamesShape'
  <2>1. LoadedName' = LoadedName
    BY <1>13 DEF RenameParked, LoadedName, Describes
  <2>2. live \in Account => LoadedName \in Name /\ LoadedName # m /\ LoadedName # n
    BY <1>13, LoadedNameType DEF RenameParked, AccountFile
  <2> QED BY <1>13, <2>1, <2>2 DEF RenameParked
<1>14. ASSUME NEW n \in Name, DeleteAccount(n) PROVE NamesShape'
  <2>1. live' \in Account => live' = live /\ LoadedName' = LoadedName
    BY <1>14 DEF DeleteAccount, LoadedName, Describes
  <2> QED BY <1>14, <2>1, LoadedNameType DEF DeleteAccount
<1>15. ASSUME NEW n \in Name, DamageParked(n) PROVE NamesShape'
  <2>1. LoadedName' = LoadedName
    BY <1>15 DEF DamageParked, LoadedName, Describes
  <2> QED BY <1>15, <2>1, LoadedNameType DEF DamageParked
<1>16. CASE RemoveAllAccounts
  BY <1>16, LoadedNameType DEF RemoveAllAccounts, LoadedName
<1>17. CASE Interrupt
  <2>1. OwnNamesOnly BY <1>17 DEF Interrupt, SafeSetting
  <2>2. live' \in Account => parked'[LoadedName'] \in {None, Corrupt, live'}
    BY <2>1, OwnNameIsFree, LoadedIsOwn, <1>17
    DEF Interrupt, LoadedName, Describes
  <2> QED BY <1>17, <2>2 DEF Interrupt
<1>18. CASE DamageLive BY <1>18 DEF DamageLive
<1>19. CASE DamageIndex
  <2>1. OwnNamesOnly BY <1>19 DEF DamageIndex, SafeSetting
  <2>2. live \in Account =>
          LoadedName' = OwnName[live] /\ OwnName[live] \in NamesOf(live)
    BY <1>19 DEF DamageIndex, LoadedName, NamesOf
  <2> QED BY <1>19, <2>1, <2>2, OwnNameIsFree DEF DamageIndex
<1> QED BY <1>1, <1>2, <1>3, <1>4, <1>5, <1>6, <1>7, <1>8, <1>9, <1>10, <1>11,
           <1>12, <1>13, <1>14, <1>15, <1>16, <1>17, <1>18, <1>19 DEF Next

-----------------------------------------------------------------------------
\* The store's variables keep their types, in every setting.
THEOREM TypeCorrect == Spec => []TypeOK
<1>1. Init => ShapeInv BY InitShape DEF IInv
<1>2. ShapeInv => TypeOK BY DEF ShapeInv
<1> QED BY <1>1, <1>2, ShapeStep, PTL DEF Spec

\* accounts.go:519 in every setting, with crashes, damage, renames and shared
\* names: wherever a switch stops, both accounts have the files it says.
THEOREM CrashSafeSwitch == Spec => []SwitchLeavesBothStored
<1>1. Init => ShapeInv BY InitShape DEF IInv
<1>2. ShapeInv => SwitchLeavesBothStored
  BY DEF ShapeInv, SwitchShape, SwitchLeavesBothStored
<1> QED BY <1>1, <1>2, ShapeStep, PTL DEF Spec

LEMMA IInvStep == SafeSetting /\ IInv /\ [Next]_storeVars => IInv'
<1> SUFFICES ASSUME SafeSetting, IInv, [Next]_storeVars PROVE IInv'
  OBVIOUS
<1>1. ShapeInv' BY ShapeStep DEF IInv
<1>2. OwnNamed' BY OwnNamedStep DEF IInv
<1>3. NamesShape' BY <1>1, <1>2, NamesStep
<1> QED BY <1>1, <1>2, <1>3 DEF IInv

\* accounts.go:44 in a safe setting: the active name never hides another
\* account's file.
THEOREM NoShadow ==
  ASSUME SafeSetting
  PROVE  Spec => []ActiveNameShadowsNobody
<1>1. IInv /\ [Next]_storeVars => IInv' BY IInvStep
<1>2. IInv => ActiveNameShadowsNobody
  BY ConstantsAssumption
  DEF IInv, NamesShape, ActiveNameShadowsNobody
<1> QED BY InitShape, <1>1, <1>2, PTL DEF Spec

-----------------------------------------------------------------------------
(* Refinement: every step of the store is a step of SignedIn, or a stutter. *)

ActiveAccount == IF live \in Account THEN live ELSE None

\* Parking an account that is stored, over nobody else, changes no promise.
LEMMA ParkKeepsStored ==
  ASSUME TypeOK, NEW n \in Name, NEW a \in Account, live = a, live' = live,
         parked[n] \in {None, Corrupt, a},
         parked' = [parked EXCEPT ![n] = a]
  PROVE  Stored' = Stored
<1> USE ConstantsAssumption DEF TypeOK, Stored
<1>1. \A b \in Account : b \in Stored => b \in Stored'
  OBVIOUS
<1>2. \A b \in Account : b \in Stored' => b \in Stored
  OBVIOUS
<1> QED BY <1>1, <1>2

\* Removing the file at x signs out the account in it, if any.
LEMMA RemovalRefines ==
  ASSUME TypeOK, NEW x \in Name \cup {LivePath}, WriteAt(x, None),
         released' = released \cup ({FileAt(x)} \cap Account)
  PROVE  [Abstract!Next]_(Abstract!abstractVars)
<1> USE ConstantsAssumption, SessionsAssumption
        DEF TypeOK, File, Stored, ActiveAccount, FileAt, WriteAt
<1>1. CASE FileAt(x) \notin Account
  <2>1. Stored' = Stored /\ ActiveAccount' = ActiveAccount /\ released' = released
    BY <1>1
  <2> QED
    BY <2>1 DEF Abstract!abstractVars
<1>2. CASE FileAt(x) \in Account
  <2>0. \A b \in Account \ {FileAt(x)} : b \in Stored' <=> b \in Stored
    OBVIOUS
  <2>1. Stored' \in {Stored, Stored \ {FileAt(x)}}
    <3>1. FileAt(x) \in Stored
      BY <1>2
    <3>2. CASE FileAt(x) \in Stored'
      <4>1. \A b \in Account : b \in Stored' <=> b \in Stored
        BY <2>0, <3>1, <3>2
      <4>2. Stored' = Stored BY <4>1
      <4> QED BY <4>2
    <3>3. CASE FileAt(x) \notin Stored'
      <4>1. \A b \in Account : b \in Stored' <=> b \in Stored \ {FileAt(x)}
        BY <2>0, <3>3
      <4>2. Stored' = Stored \ {FileAt(x)} BY <4>1
      <4> QED BY <4>2
    <3> QED BY <3>2, <3>3
  <2>2. ActiveAccount' \in {ActiveAccount, None}
        /\ (ActiveAccount' # ActiveAccount => ActiveAccount = FileAt(x))
    BY <1>2
  <2>3. Abstract!SignOut(FileAt(x))
    BY <1>2, <2>1, <2>2 DEF Abstract!SignOut
  <2> QED BY <1>2, <2>3 DEF Abstract!Next, Abstract!SignOut
<1> QED
  BY <1>1, <1>2

LEMMA StepRefines ==
  ASSUME SafeSetting, IInv, [Next]_storeVars
  PROVE  [Abstract!Next]_(Abstract!abstractVars)
<1> DEFINE Stutter == /\ Stored' = Stored /\ ActiveAccount' = ActiveAccount
                      /\ released' = released
<1> USE ConstantsAssumption DEF TypeOK, File, Stored, ActiveAccount
<1> /\ TypeOK /\ SwitchShape /\ LoginShape /\ NamesShape
  BY DEF IInv, ShapeInv
<1>0. ASSUME Stutter PROVE [Abstract!Next]_(Abstract!abstractVars)
  BY <1>0 DEF Abstract!abstractVars
<1>1. CASE UNCHANGED storeVars BY <1>1, <1>0 DEF storeVars
<1>2. ASSUME NEW n \in Name, SwitchToActive(n) PROVE Stutter
  BY <1>2 DEF SwitchToActive
<1>3. ASSUME NEW n \in Name, BeginSwitch(n) PROVE Stutter
  BY <1>3 DEF BeginSwitch
<1>4. CASE ParkOutgoing
  <2>1. /\ live \in Account /\ op.outName = LoadedName /\ op.outAcct = live
        /\ LoadedName \in Name /\ parked[LoadedName] \in {None, Corrupt, live}
    BY <1>4, LoadedNameType DEF ParkOutgoing, SwitchShape, NamesShape
  <2> QED BY <1>4, <1>0, <2>1, ParkKeepsStored DEF ParkOutgoing
<1>5. CASE Promote
  <2>1. op.acct \in Stored /\ op.acct \in Account
    BY <1>5 DEF Promote, SwitchShape
  <2>2. Stored' = Stored
    BY <1>5 DEF Promote, SwitchShape, Op
  <2>3. Abstract!Switch(op.acct)
    BY <1>5, <2>1, <2>2 DEF Promote, Abstract!Switch
  <2> QED BY <2>1, <2>3 DEF Abstract!Next
<1>6. CASE RecordSwitch BY <1>6, <1>0 DEF RecordSwitch
<1>7. CASE RemoveIncoming
  BY <1>7, <1>0 DEF RemoveIncoming, SwitchShape, Finish
<1>8. ASSUME NEW a \in Account, BeginLogin(a) PROVE Stutter
  BY <1>8 DEF BeginLogin
<1>9. CASE LoginPark
  <2>1. /\ live \in Account /\ op.outName = LoadedName
        /\ LoadedName \in Name /\ parked[LoadedName] \in {None, Corrupt, live}
    BY <1>9, LoadedNameType DEF LoginPark, LoginShape, NamesShape
  <2> QED BY <1>9, <1>0, <2>1, ParkKeepsStored DEF LoginPark
<1>10. CASE LoginSave
  <2>1. op.acct \in Account /\ live' = op.acct /\ parked' = parked
    BY <1>10 DEF LoginSave, LoginShape
  <2>2. live \in Account => live = op.acct \/ \E n \in Name : parked[n] = live
    BY <1>10 DEF NamesShape, LoginSave
  <2>3. \A b \in Account : b \in Stored' <=> b \in Stored \/ b = op.acct
    BY <2>1, <2>2
  <2>4. Stored' = Stored \cup {op.acct}
    BY <2>1, <2>3
  <2>5. Abstract!Login(op.acct) BY <1>10, <2>1, <2>4 DEF LoginSave, Abstract!Login
  <2> QED BY <2>1, <2>5 DEF Abstract!Next, Abstract!Login
<1>11. CASE LoginIndex BY <1>11, <1>0 DEF LoginIndex
<1>12. ASSUME NEW m \in Name, NEW n \in Name, RenameActive(m, n) PROVE Stutter
  BY <1>12 DEF RenameActive
<1>13. ASSUME NEW m \in Name, NEW n \in Name, RenameParked(m, n) PROVE Stutter
  <2>1. parked[n] = None \/ n = ActiveAccountName
    BY <1>13 DEF RenameParked, AccountFile
  <2>2. parked[n] \in {None, Corrupt}
    <3>1. CASE parked[n] = None BY <3>1
    <3>2. CASE n = ActiveAccountName
      <4>1. live = None BY <3>2, <1>13 DEF RenameParked, AccountFile
      <4>2. ActiveAccountName = None
        BY <4>1 DEF ActiveAccountName, LoadedName
      <4> QED BY <3>2, <4>2
    <3> QED BY <2>1, <3>1, <3>2
  <2> QED BY <1>13, <2>2 DEF RenameParked
<1>14. ASSUME NEW n \in Name, DeleteAccount(n) PROVE [Abstract!Next]_(Abstract!abstractVars)
  <2> DEFINE x == IF n = ActiveAccountName THEN LivePath ELSE n
  <2>1. x \in Name \cup {LivePath} /\ WriteAt(x, None) /\ FileAt(x) = AccountFile(n)
    BY <1>14, SessionsAssumption DEF DeleteAccount, WriteAt, FileAt, AccountFile
  <2> HIDE DEF x
  <2> QED
    BY <1>14, <2>1, RemovalRefines DEF DeleteAccount
<1>15. ASSUME NEW n \in Name, DamageParked(n) PROVE [Abstract!Next]_(Abstract!abstractVars)
  <2>1. Stored' \in {Stored, Stored \ {parked[n]}}
    BY <1>15 DEF DamageParked
  <2>2. Abstract!SignOut(parked[n])
    BY <1>15, <2>1 DEF DamageParked, Abstract!SignOut
  <2> QED BY <1>15, <2>2 DEF DamageParked, Abstract!Next, Abstract!SignOut
<1>16. CASE RemoveAllAccounts
  <2>1. Abstract!SignOutAll
    <3>1. Stored' = {ActiveAccount} \ {None} /\ ActiveAccount' = ActiveAccount
      BY <1>16 DEF RemoveAllAccounts
    <3>2. released' \in {released \cup Stored, released \cup (Stored \ {ActiveAccount})}
      <4> DEFINE Copies == {a \in Account : \E n \in Name : parked[n] = a}
      <4>1. released' = released \cup Copies
        BY <1>16 DEF RemoveAllAccounts
      <4>2. CASE live \in Copies
        <5>1. Copies = Stored BY <4>2
        <5> QED BY <4>1, <5>1
      <4>3. CASE live \notin Copies
        <5>1. Copies = Stored \ {ActiveAccount} BY <4>3
        <5> QED BY <4>1, <5>1
      <4> QED BY <4>2, <4>3
    <3> QED BY <3>1, <3>2 DEF Abstract!SignOutAll
  <2> QED BY <2>1 DEF Abstract!Next
<1>17. CASE Interrupt BY <1>17, <1>0 DEF Interrupt
<1>18. CASE DamageLive
  <2>1. Stored' \in {Stored, Stored \ {live}}
    BY <1>18 DEF DamageLive
  <2>2. Abstract!SignOut(live)
    BY <1>18, <2>1 DEF DamageLive, Abstract!SignOut
  <2> QED BY <1>18, <2>2 DEF DamageLive, Abstract!Next, Abstract!SignOut
<1>19. CASE DamageIndex BY <1>19, <1>0 DEF DamageIndex
<1> QED BY <1>0, <1>1, <1>2, <1>3, <1>4, <1>5, <1>6, <1>7, <1>8, <1>9, <1>10, <1>11,
           <1>12, <1>13, <1>14, <1>15, <1>16, <1>17, <1>18, <1>19 DEF Next

\* accounts.go:42-44, 517-519: in a safe setting the files keep the promise of
\* SignedIn: no account is lost but by its own sign-out.
THEOREM StoreImplementsSignedIn ==
  ASSUME SafeSetting
  PROVE  Spec => ImplementsSignedIn
<1>1. Init => Abstract!Init
  BY ConstantsAssumption DEF Init, Abstract!Init, Stored
<1>2. IInv /\ [Next]_storeVars => IInv' BY IInvStep
<1>3. IInv /\ [Next]_storeVars => [Abstract!Next]_(Abstract!abstractVars)
  BY StepRefines
<1> QED BY InitShape, <1>1, <1>2, <1>3, PTL
        DEF Spec, ImplementsSignedIn, Abstract!Spec

-----------------------------------------------------------------------------
(* Commands that run as an account, each holding the lock from Load to     *)
(* Save.                                                                   *)

\* A command between its Load and its Save is alone, and the file behind its pin is as
\* it loaded it.
LoadedIsThere ==
  \A p \in Proc : mem[p] # None =>
    /\ pc = "idle" /\ FileAt(path[p]) = mem[p]
    /\ \A q \in Proc : q # p => mem[q] = None

SessionsInv == SessionsTypeOK /\ ShapeInv /\ LoadedIsThere

LEMMA SessionsStart == SessionsInit => SessionsInv
<1> SUFFICES ASSUME SessionsInit PROVE SessionsInv
  OBVIOUS
<1>1. ShapeInv
  BY InitShape DEF SessionsInit, IInv
<1> QED
  BY <1>1 DEF SessionsInit, SessionsInv, SessionsTypeOK, ShapeInv, LoadedIsThere, File

\* To the store, a command's Delete removes a file between two operations, and every
\* other step of a command changes nothing.
Removal == \E x \in Name \cup {LivePath} :
  /\ pc = "idle" /\ WriteAt(x, None)
  /\ released' = released \cup ({FileAt(x)} \cap Account)
  /\ UNCHANGED <<index, pc, op>>

LEMMA SessionSteps ==
  ASSUME LockedCommands, SessionsInv, [SessionsNext]_allVars
  PROVE  [Next]_storeVars \/ Removal
<1> USE SessionsAssumption DEF SessionsInv, SessionsTypeOK
<1>1. CASE UNCHANGED allVars
  BY <1>1 DEF allVars
<1>2. CASE StoreStep
  BY <1>2 DEF StoreStep
<1>3. ASSUME NEW p \in Proc,
             (\E n \in Name : Select(p, n)) \/ Load(p) \/ Save(p) \/ Delete(p) \/ Exit(p)
      PROVE  [Next]_storeVars \/ Removal
  <2>1. CASE \E n \in Name : Select(p, n)
    BY <2>1 DEF Select
  <2>2. CASE Load(p)
    BY <2>2 DEF Load
  <2>3. CASE Save(p)
    <3>1. FileAt(path[p]) = mem[p]
      BY <2>3 DEF Save, LoadedIsThere
    <3>2. live' = live /\ parked' = parked
      BY <2>3, <3>1 DEF Save, WriteAt, FileAt, TypeOK
    <3> QED
      BY <2>3, <3>2 DEF Save, storeVars
  <2>4. CASE Delete(p)
    BY <2>4 DEF Delete, LockFree, Removal
  <2>5. CASE Exit(p)
    BY <2>5 DEF Exit
  <2> QED
    BY <1>3, <2>1, <2>2, <2>3, <2>4, <2>5
<1> QED
  BY <1>1, <1>2, <1>3 DEF SessionsNext

LEMMA RemovalShape ==
  ASSUME ShapeInv, Removal
  PROVE  ShapeInv'
  BY ConstantsAssumption, SessionsAssumption
  DEF ShapeInv, SwitchShape, LoginShape, Removal, WriteAt, TypeOK, File

LEMMA SessionsStep ==
  ASSUME LockedCommands
  PROVE  SessionsInv /\ [SessionsNext]_allVars => SessionsInv'
<1> SUFFICES ASSUME SessionsInv, [SessionsNext]_allVars PROVE SessionsInv'
  OBVIOUS
<1>1. ShapeInv'
  <2>1. CASE [Next]_storeVars
    BY <2>1, ShapeStep DEF SessionsInv
  <2>2. CASE Removal
    BY <2>2, RemovalShape DEF SessionsInv
  <2> QED
    BY <2>1, <2>2, SessionSteps
<1>2. TypeOK'
  BY <1>1 DEF ShapeInv
<1> USE <1>1, <1>2, ConstantsAssumption, SessionsAssumption
        DEF SessionsInv, SessionsTypeOK, LoadedIsThere
<1>3. CASE UNCHANGED allVars
  BY <1>3 DEF allVars, storeVars, sessionVars, FileAt
<1>4. CASE StoreStep
  BY <1>4 DEF StoreStep, sessionVars
<1>5. ASSUME NEW p \in Proc,
             (\E n \in Name : Select(p, n)) \/ Load(p) \/ Save(p) \/ Delete(p) \/ Exit(p)
      PROVE  SessionsInv'
  <2>1. ASSUME NEW n \in Name, Select(p, n) PROVE SessionsInv'
    <3>1. AccountFile(n) \in File
      BY DEF AccountFile, TypeOK
    <3> QED
      BY <2>1, <3>1 DEF Select, storeVars, FileAt
  <2>2. CASE Load(p)
    BY <2>2 DEF Load, LockFree, storeVars, FileAt
  <2>3. CASE Save(p)
    BY <2>3 DEF Save
  <2>4. CASE Delete(p)
    BY <2>4 DEF Delete, LockFree, sessionVars
  <2>5. CASE Exit(p)
    BY <2>5 DEF Exit, storeVars, FileAt, File
  <2> QED
    BY <1>5, <2>1, <2>2, <2>3, <2>4, <2>5
<1> QED
  BY <1>3, <1>4, <1>5 DEF SessionsNext

LEMMA SessionsHold ==
  ASSUME LockedCommands
  PROVE  SessionsSpec => []SessionsInv
  BY SessionsStart, SessionsStep, PTL DEF SessionsSpec

\* accounts.go:531,556: in every setting, with commands that hold the lock, an operation
\* that runs to its end leaves the account it was asked for active, under that name.
THEOREM OperationsTakeEffect ==
  ASSUME LockedCommands
  PROVE  SessionsSpec => CompletedTakesEffect
<1>1. ShapeInv => (RemoveIncoming \/ LoginIndex => live' = op.acct /\ LoadedName' = op.name)
  BY ConstantsAssumption
  DEF ShapeInv, SwitchShape, LoginShape, RemoveIncoming, LoginIndex, WriteAccountsIndex,
      Finish, LoadedName, Describes
<1>2. SessionsInv => ShapeInv
  BY DEF SessionsInv
<1> QED
  BY <1>1, <1>2, SessionsHold, PTL DEF CompletedTakesEffect

LEMMA RemovalKeeps ==
  ASSUME IInv, Removal
  PROVE  IInv'
<1>1. ShapeInv'
  BY RemovalShape DEF IInv
<1>2. NamesShape'
  BY ConstantsAssumption, SessionsAssumption
  DEF IInv, ShapeInv, TypeOK, File, NamesShape, Removal, WriteAt, LoadedName, Describes, Index
<1>3. OwnNamed'
  BY ConstantsAssumption, SessionsAssumption
  DEF IInv, ShapeInv, TypeOK, File, OwnNamed, Removal, WriteAt
<1> QED
  BY <1>1, <1>2, <1>3 DEF IInv

\* accounts.go:42-44, 517-519 and config.go:208-278: in a safe setting, the files keep
\* the promise of SignedIn beside any processes that load, save and delete with the lock.
THEOREM SessionsImplementSignedIn ==
  ASSUME SafeSetting, LockedCommands
  PROVE  SessionsSpec => ImplementsSignedIn
<1>1. SessionsInit => IInv /\ Abstract!Init
  BY InitShape, ConstantsAssumption DEF SessionsInit, Init, Abstract!Init, Stored
<1>2. SessionsInv /\ IInv /\ [SessionsNext]_allVars => IInv'
  BY SessionSteps, IInvStep, RemovalKeeps
<1>3. SessionsInv /\ IInv /\ [SessionsNext]_allVars => [Abstract!Next]_(Abstract!abstractVars)
  <2> SUFFICES ASSUME SessionsInv, IInv, [SessionsNext]_allVars
               PROVE  [Abstract!Next]_(Abstract!abstractVars)
    OBVIOUS
  <2>1. CASE [Next]_storeVars
    BY <2>1, StepRefines
  <2>2. CASE Removal
    BY <2>2, RemovalRefines DEF Removal, IInv, ShapeInv
  <2> QED
    BY <2>1, <2>2, SessionSteps
<1> QED
  BY <1>1, <1>2, <1>3, SessionsHold, PTL DEF SessionsSpec, ImplementsSignedIn, Abstract!Spec
=============================================================================
