-------------------------- MODULE ConfigFilesProofs --------------------------
(***************************************************************************)
(* The files of the configuration directory, for any number of processes.  *)
(*                                                                         *)
(* credentials.json: an OAuth2 login's cached key is always its access     *)
(* token, and, when commands do not overlap, a chosen key stays, a call    *)
(* returns what it should and the refresh token is never lost.             *)
(* settings.json is always whole and loses a change only to a command that *)
(* loaded before it.  The processes that come after the sanitizer's key    *)
(* has settled agree on it.                                                *)
(***************************************************************************)
EXTENDS ConfigFiles, TLAPS

-----------------------------------------------------------------------------
(* credentials.json: the relay key and the OAuth2 login.                   *)

\* The processes that share the directory do to credentials.json what RelayCache says
\* (relaykey.go): what holds of CacheSpec holds of them.
LEMMA FilesRunTheCache == FilesSpec => CacheSpec
<1>1. FilesInit => CacheInit
  BY DEF FilesInit
<1>2. [FilesNext]_filesVars => [CacheNext]_cacheVars
  BY DEF FilesNext, filesVars
<1> QED
  BY <1>1, <1>2, PTL DEF FilesSpec, CacheSpec

\* A resolution that lists the tokens has no refresh material: it would have used it.
ListingIsPlain == \A p \in Proc : pc[p] = "listing" => mem[p].refresh = None

\* A choice about to be saved is a token's key, with nothing that would renew it.
SelectedIsPlain ==
  \A p \in Proc :
    /\ pc[p] = "saving" /\ call[p] = "select" =>
         mem[p].key \in Token /\ mem[p].refresh = None
    /\ pc[p] = "refreshing" => call[p] # "select"

SyncInv == CacheTypeOK /\ OAuthKeyInSync /\ ListingIsPlain /\ SelectedIsPlain

\* What SyncInv says of one process's, or the file's, credentials.
Sound(c) == c \in Credentials /\ (c.refresh # None => c.key = c.access)

-----------------------------------------------------------------------------
LEMMA EachIsSound ==
  ASSUME SyncInv PROVE Sound(disk) /\ \A p \in Proc : Sound(mem[p])
  BY DEF SyncInv, CacheTypeOK, OAuthKeyInSync, Sound

\* A step that leaves the file, and one process with sound credentials.
LEMMA Rewrite ==
  ASSUME SyncInv, NEW p \in Proc, NEW c, Sound(c),
         mem' = [mem EXCEPT ![p] = c], UNCHANGED disk
  PROVE  mem' \in [Proc -> Credentials] /\ disk' \in Credentials /\ OAuthKeyInSync'
  BY DEF SyncInv, CacheTypeOK, OAuthKeyInSync, Sound

LEMMA SyncInit == CacheInit => SyncInv
<1> SUFFICES ASSUME CacheInit PROVE SyncInv
  OBVIOUS
<1> USE CacheAssumption DEF CacheInit
<1>1. 1 \in Issued
  BY DEF Issued
<1>2. Sound(disk)
  BY DEF Logins, Sound, Credentials, Issued
<1>3. Sound(Blank)
  BY DEF Sound, Blank, Credentials, Key
<1>4. CacheTypeOK
  BY <1>1, <1>2, <1>3 DEF CacheTypeOK, Sound, Key
<1>5. OAuthKeyInSync
  BY <1>2, <1>3 DEF OAuthKeyInSync, Sound
<1> QED
  BY <1>4, <1>5 DEF SyncInv, ListingIsPlain, SelectedIsPlain

LEMMA SyncStep == SyncInv /\ [CacheNext]_cacheVars => SyncInv'
<1> SUFFICES ASSUME SyncInv, [CacheNext]_cacheVars
             PROVE  SyncInv'
  OBVIOUS
<1> USE CacheAssumption
<1>s. CASE UNCHANGED cacheVars
  BY <1>s DEF SyncInv, CacheTypeOK, OAuthKeyInSync, ListingIsPlain, SelectedIsPlain,
              cacheVars, procVars, gatewayVars
<1>p. ASSUME NEW p \in Proc, 
             \/ Load(p) \/ Exit(p)
             \/ Resolve(p) \/ ListFails(p)
             \/ \E t \in Token : Picked(p, t) \/ Select(p, t)
             \/ ForceRefresh(p) \/ RefreshFails(p) \/ AnswerLost(p)
             \/ \E rotates, expires \in BOOLEAN : Refreshed(p, rotates, expires)
             \/ Invalidate(p) \/ SelectFails(p)
             \/ Save(p) \/ SaveFails(p)
      PROVE  SyncInv'
  <2> USE DEF SyncInv, CacheTypeOK, OAuthKeyInSync, ListingIsPlain, SelectedIsPlain,
              procVars, gatewayVars
  <2>1. CASE Load(p)
    BY <2>1 DEF Load
  <2>2. CASE Exit(p)
    BY <2>2 DEF Exit, Blank, Credentials, Key
  <2>3. CASE Resolve(p)
    <3>1. Sound(mem[p])
      BY EachIsSound
    <3>2. mem[p].key = None => mem[p].refresh = None
      BY <3>1 DEF Sound, Credentials, Issued
    <3>3. mem[p].key # None /\ ~Trusted(mem[p]) => mem[p].refresh = None
      BY <3>1 DEF Sound, Credentials, Trusted
    <3>4. mem[p].key \in Key
      BY <3>1 DEF Sound, Credentials
    <3> QED
      BY <2>3, <3>2, <3>3, <3>4 DEF Resolve, Begin, Continue, Return
  <2>4. CASE ListFails(p)
    BY <2>4 DEF ListFails, Return, Credentials
  <2>5. ASSUME NEW t \in Token, Picked(p, t) PROVE SyncInv'
    <3> DEFINE c == [mem[p] EXCEPT !.key = t, !.stamped = TRUE]
    <3>1. Sound(c)
      BY <2>5, EachIsSound DEF Picked, Sound, Credentials, Key
    <3>2. mem' = [mem EXCEPT ![p] = c]
      BY <2>5 DEF Picked
    <3> HIDE DEF c
    <3>3. mem' \in [Proc -> Credentials] /\ disk' \in Credentials /\ OAuthKeyInSync'
      BY <2>5, <3>1, <3>2, Rewrite DEF Picked
    <3> QED
      BY <2>5, <3>2, <3>3 DEF Picked, Continue
  <2>6. ASSUME NEW t \in Token, Select(p, t) PROVE SyncInv'
    <3> DEFINE c == [mem[p] EXCEPT !.key = t, !.stamped = TRUE, !.refresh = None,
                                   !.expires = FALSE, !.client = FALSE]
    <3>1. Sound(c)
      BY EachIsSound DEF Sound, Credentials, Key
    <3>2. mem' = [mem EXCEPT ![p] = c]
      BY <2>6 DEF Select
    <3> HIDE DEF c
    <3>3. mem' \in [Proc -> Credentials] /\ disk' \in Credentials /\ OAuthKeyInSync'
      BY <2>6, <3>1, <3>2, Rewrite DEF Select
    <3> QED
      BY <2>6, <3>2, <3>3 DEF Select, Begin, Continue
  <2>7. CASE ForceRefresh(p)
    BY <2>7 DEF ForceRefresh, Begin, Continue, Return
  <2>8. CASE RefreshFails(p)
    BY <2>8 DEF RefreshFails, Return, Credentials
  <2>9. CASE AnswerLost(p)
    BY <2>9 DEF AnswerLost, Issue, Return, Credentials, Issued
  <2>10. ASSUME NEW rotates \in BOOLEAN, NEW expires \in BOOLEAN,
                Refreshed(p, rotates, expires)
         PROVE  SyncInv'
    <3>1. issued' \in Issued /\ current' \in Issued /\ UNCHANGED due
      BY <2>10 DEF Refreshed, Issue, Issued
    <3> DEFINE c == [mem[p] EXCEPT !.key = issued + 1, !.access = issued + 1,
                                   !.refresh = current', !.expires = expires]
    <3>2. mem[p].refresh # None
      BY <2>10 DEF Refreshed, Issued
    <3>3. issued + 1 \in Issued
      BY <2>10, <3>1 DEF Refreshed, Issue
    <3>4. Sound(c)
      BY <3>1, <3>2, <3>3, EachIsSound DEF Sound, Credentials, Key
    <3>5. mem' = [mem EXCEPT ![p] = c]
      BY <2>10 DEF Refreshed
    <3> HIDE DEF c
    <3>6. mem' \in [Proc -> Credentials] /\ disk' \in Credentials /\ OAuthKeyInSync'
      BY <2>10, <3>4, <3>5, Rewrite DEF Refreshed
    <3> QED
      BY <2>10, <3>1, <3>5, <3>6 DEF Refreshed, Continue
  <2>11. CASE Invalidate(p)
    <3>1. CASE mem' = mem
      BY <2>11, <3>1 DEF Invalidate, Begin, Continue, Return, Credentials, Key
    <3>2. CASE mem' # mem
      <4> DEFINE c == [mem[p] EXCEPT !.key = None]
      <4>1. Sound(c)
        BY <2>11, <3>2, EachIsSound DEF Invalidate, Sound, Credentials, Key
      <4>2. mem' = [mem EXCEPT ![p] = c] /\ chosen' = None
        BY <2>11, <3>2 DEF Invalidate
      <4> HIDE DEF c
      <4>3. mem' \in [Proc -> Credentials] /\ disk' \in Credentials /\ OAuthKeyInSync'
        BY <2>11, <4>1, <4>2, Rewrite DEF Invalidate
      <4> QED
        BY <2>11, <3>2, <4>2, <4>3 DEF Invalidate, Begin, Continue
    <3> QED
      BY <3>1, <3>2
  <2>12. CASE SelectFails(p)
    BY <2>12 DEF SelectFails, Begin, Return
  <2>13. CASE Save(p)
    <3>1. mem[p].key \in Key
      BY DEF Credentials
    <3>2. chosen' \in Token \cup {None}
      BY <2>13 DEF Save, Return
    <3> QED
      BY <2>13, <3>1, <3>2 DEF Save, Return
  <2>14. CASE SaveFails(p)
    BY <2>14 DEF SaveFails, Return, Credentials
  <2> QED
    BY <1>p, <2>1, <2>2, <2>3, <2>4, <2>5, <2>6, <2>7, <2>8, <2>9, <2>10,
       <2>11, <2>12, <2>13, <2>14
<1>a. ASSUME NEW n \in Issued, Age(n) PROVE SyncInv'
  BY <1>a DEF Age, SyncInv, CacheTypeOK, OAuthKeyInSync, ListingIsPlain,
              SelectedIsPlain, procVars
<1> QED
  BY <1>s, <1>p, <1>a DEF CacheNext

\* relaykey.go:253: whatever processes overlap, as long as credentials hold a
\* refresh token their key is the login's access token, and is never cleared.
THEOREM OAuthStaysInSync == CacheSpec => [](CacheTypeOK /\ OAuthKeyInSync)
<1>1. SyncInv => CacheTypeOK /\ OAuthKeyInSync
  BY DEF SyncInv
<1> QED
  BY SyncInit, SyncStep, <1>1, PTL DEF CacheSpec

LEMMA SyncHolds == CacheSpec => []SyncInv
  BY SyncInit, SyncStep, PTL DEF CacheSpec

-----------------------------------------------------------------------------
(* One command at a time.                                                  *)

Alone == \A p, q \in Proc : pc[p] # "idle" /\ pc[q] # "idle" => p = q

\* Nothing that makes a call replace it is left beside a chosen key, in the file or
\* in the command that has loaded it.
Fixed(c) == c.key # None /\ c.stamped /\ c.refresh = None

ChoiceInv ==
  chosen # None =>
    /\ disk.key = chosen
    /\ Fixed(disk)
    /\ \A p \in Proc : pc[p] # "idle" =>
         /\ Fixed(mem[p])
         /\ pc[p] \in {"ready", "saving"}
         /\ pc[p] = "saving" => call[p] = "select"

SelectedIsStamped ==
  \A p \in Proc : pc[p] = "saving" /\ call[p] = "select" => mem[p].stamped

StickInv == Alone /\ ChoiceInv /\ SelectedIsStamped

LEMMA StickStep ==
  ASSUME Overlap = FALSE
  PROVE  SyncInv /\ StickInv /\ [CacheNext]_cacheVars => StickInv'
<1> SUFFICES ASSUME SyncInv, StickInv, [CacheNext]_cacheVars
             PROVE  StickInv'
  OBVIOUS
<1> USE CacheAssumption
<1>t. /\ mem \in [Proc -> Credentials]
      /\ pc \in [Proc -> {"idle", "ready", "refreshing", "listing", "saving"}]
      /\ call \in [Proc -> {"none", "resolve", "refresh", "invalidate", "select"}]
      /\ chosen \in Token \cup {None}
      /\ disk \in Credentials
  BY DEF SyncInv, CacheTypeOK
<1>r. \A c \in Credentials : c = [key |-> c.key, access |-> c.access,
        refresh |-> c.refresh, client |-> c.client, expires |-> c.expires,
        stamped |-> c.stamped]
  BY DEF Credentials
<1>s. CASE UNCHANGED cacheVars
  BY <1>s DEF StickInv, Alone, ChoiceInv, SelectedIsStamped, Fixed,
              cacheVars, procVars, gatewayVars
<1>p. ASSUME NEW p \in Proc,
             \/ Load(p) \/ Exit(p)
             \/ Resolve(p) \/ ListFails(p)
             \/ \E t \in Token : Picked(p, t) \/ Select(p, t)
             \/ ForceRefresh(p) \/ RefreshFails(p) \/ AnswerLost(p)
             \/ \E rotates, expires \in BOOLEAN : Refreshed(p, rotates, expires)
             \/ Invalidate(p) \/ SelectFails(p)
             \/ Save(p) \/ SaveFails(p)
      PROVE  StickInv'
  <2> USE <1>t DEF StickInv, Alone, ChoiceInv, SelectedIsStamped, Fixed, procVars
  <2>1. CASE Load(p)
    BY <2>1 DEF Load
  <2>2. CASE Exit(p)
    BY <2>2 DEF Exit
  <2>3. CASE Resolve(p)
    BY <2>3 DEF Resolve, Begin, Continue, Return, Trusted, RefreshDue
  <2>4. CASE ListFails(p)
    BY <2>4 DEF ListFails, Return
  <2>5. ASSUME NEW t \in Token, Picked(p, t) PROVE StickInv'
    BY <2>5 DEF Picked, Continue
  <2>6. ASSUME NEW t \in Token, Select(p, t) PROVE StickInv'
    <3>1. mem'[p].key = t /\ mem'[p].stamped /\ mem'[p].refresh = None
      BY <2>6, <1>r DEF Select
    <3>2. t # None
      OBVIOUS
    <3> QED
      BY <2>6, <3>1, <3>2 DEF Select, Begin, Continue
  <2>7. CASE ForceRefresh(p)
    BY <2>7 DEF ForceRefresh, Begin, Continue, Return
  <2>8. CASE RefreshFails(p)
    BY <2>8 DEF RefreshFails, Return
  <2>9. CASE AnswerLost(p)
    BY <2>9 DEF AnswerLost, Return
  <2>10. ASSUME NEW rotates \in BOOLEAN, NEW expires \in BOOLEAN,
                Refreshed(p, rotates, expires)
         PROVE  StickInv'
    BY <2>10 DEF Refreshed, Continue, SyncInv, SelectedIsPlain
  <2>11. CASE Invalidate(p)
    BY <2>11 DEF Invalidate, Begin, Continue, Return
  <2>12. CASE SelectFails(p)
    BY <2>12 DEF SelectFails, Begin, Return
  <2>13. CASE Save(p)
    BY <2>13 DEF Save, Return, SyncInv, SelectedIsPlain
  <2>14. CASE SaveFails(p)
    BY <2>14 DEF SaveFails, Return
  <2> QED
    BY <1>p, <2>1, <2>2, <2>3, <2>4, <2>5, <2>6, <2>7, <2>8, <2>9, <2>10,
       <2>11, <2>12, <2>13, <2>14
<1>a. ASSUME NEW n \in Issued, Age(n) PROVE StickInv'
  BY <1>a DEF Age, StickInv, Alone, ChoiceInv, SelectedIsStamped, Fixed, procVars
<1> QED
  BY <1>s, <1>p, <1>a DEF CacheNext

\* relaykey.go:276: when commands do not overlap, no launch, refresh, failed save or
\* killed command replaces a chosen key. (A command that overlaps may: it saves the
\* whole file from the copy it loaded.)
THEOREM ChoiceIsKept ==
  ASSUME Overlap = FALSE
  PROVE  CacheSpec => []ChoiceSticks
<1>1. CacheInit => StickInv
  BY CacheAssumption DEF CacheInit, StickInv, Alone, ChoiceInv, SelectedIsStamped
<1>2. StickInv => ChoiceSticks
  BY DEF StickInv, ChoiceInv, ChoiceSticks
<1> QED
  BY <1>1, <1>2, StickStep, SyncHolds, PTL DEF CacheSpec

-----------------------------------------------------------------------------
(* What the calls return, and the refresh token, one command at a time.    *)

\* A command that waits, or has an answer to save, knows which call it is in.
CallsAreKnown ==
  \A p \in Proc :
    /\ pc[p] = "idle" => call[p] = "none"
    /\ pc[p] = "refreshing" => call[p] \in {"resolve", "refresh"}
    /\ pc[p] = "listing" => call[p] = "resolve"
    /\ pc[p] = "saving" /\ call[p] = "refresh" => mem[p].key = issued

\* An OAuth2 login holds the refresh token the gateway accepts, or never had one.
Fresh(c) == c.client => c.refresh = current \/ (issued = 1 /\ c.refresh = None)

\* The file may be behind while, and only while, a command has a rotation to save.
TokenIsSaved ==
  ~lost =>
    /\ \A p \in Proc : pc[p] # "idle" => Fresh(mem[p])
    /\ \/ Fresh(disk)
       \/ \E p \in Proc :
            pc[p] = "saving" /\ call[p] \in {"resolve", "refresh"} /\ mem[p].refresh # None

ReturnInv == Alone /\ CallsAreKnown /\ KeyOrError /\ TokenIsSaved

LEMMA ReturnInit == CacheInit => ReturnInv
<1> SUFFICES ASSUME CacheInit PROVE ReturnInv
  OBVIOUS
<1> USE CacheAssumption DEF CacheInit
<1>1. Fresh(disk)
  BY DEF Fresh, Logins
<1> QED
  BY <1>1 DEF ReturnInv, Alone, CallsAreKnown, KeyOrError, TokenIsSaved

LEMMA ReturnStep ==
  ASSUME Overlap = FALSE
  PROVE  SyncInv /\ ReturnInv /\ [CacheNext]_cacheVars => ReturnInv'
<1> SUFFICES ASSUME SyncInv, ReturnInv, [CacheNext]_cacheVars
             PROVE  ReturnInv'
  OBVIOUS
<1> USE CacheAssumption
<1>t. /\ mem \in [Proc -> Credentials]
      /\ pc \in [Proc -> {"idle", "ready", "refreshing", "listing", "saving"}]
      /\ call \in [Proc -> {"none", "resolve", "refresh", "invalidate", "select"}]
      /\ got \in [Proc -> Key \cup {Failed}]
      /\ disk \in Credentials
      /\ issued \in Issued /\ current \in Issued
      /\ lost \in BOOLEAN
  BY DEF SyncInv, CacheTypeOK
<1>k. /\ Failed \notin Key /\ None \notin Issued
      /\ \A p \in Proc : mem[p].key \in Key /\ mem[p].refresh \in Issued \cup {None}
  BY <1>t DEF Key, Issued, Credentials
<1>r. \A c \in Credentials : c = [key |-> c.key, access |-> c.access,
        refresh |-> c.refresh, client |-> c.client, expires |-> c.expires,
        stamped |-> c.stamped]
  BY DEF Credentials
<1>s. CASE UNCHANGED cacheVars
  BY <1>s DEF ReturnInv, Alone, CallsAreKnown, KeyOrError, TokenIsSaved, Fresh,
              cacheVars, procVars, gatewayVars
<1>p. ASSUME NEW p \in Proc,
             \/ Load(p) \/ Exit(p)
             \/ Resolve(p) \/ ListFails(p)
             \/ \E t \in Token : Picked(p, t) \/ Select(p, t)
             \/ ForceRefresh(p) \/ RefreshFails(p) \/ AnswerLost(p)
             \/ \E rotates, expires \in BOOLEAN : Refreshed(p, rotates, expires)
             \/ Invalidate(p) \/ SelectFails(p)
             \/ Save(p) \/ SaveFails(p)
      PROVE  ReturnInv'
  <2> USE <1>t, <1>k DEF ReturnInv, Alone, CallsAreKnown, KeyOrError, TokenIsSaved, Fresh,
                         procVars, gatewayVars
  <2>1. CASE Load(p)
    BY <2>1 DEF Load
  <2>2. CASE Exit(p)
    <3>1. Alone' /\ CallsAreKnown' /\ KeyOrError'
      BY <2>2 DEF Exit
    <3>2. ASSUME ~lost' PROVE Fresh(disk)'
      BY <2>2, <3>2 DEF Exit
    <3>3. TokenIsSaved'
      BY <2>2, <3>2 DEF Exit
    <3> QED
      BY <3>1, <3>3
  <2>3. CASE Resolve(p)
    BY <2>3 DEF Resolve, Begin, Continue, Return
  <2>4. CASE ListFails(p)
    BY <2>4 DEF ListFails, Return
  <2>5. ASSUME NEW t \in Token, Picked(p, t) PROVE ReturnInv'
    <3>1. mem'[p].client = mem[p].client /\ mem'[p].refresh = mem[p].refresh
      BY <2>5, <1>r DEF Picked
    <3> QED
      BY <2>5, <3>1 DEF Picked, Continue
  <2>6. ASSUME NEW t \in Token, Select(p, t) PROVE ReturnInv'
    <3>1. ~mem'[p].client
      BY <2>6, <1>r DEF Select
    <3> QED
      BY <2>6, <3>1 DEF Select, Begin, Continue
  <2>7. CASE ForceRefresh(p)
    BY <2>7 DEF ForceRefresh, Begin, Continue, Return
  <2>8. CASE RefreshFails(p)
    BY <2>8 DEF RefreshFails, Return
  <2>9. CASE AnswerLost(p)
    BY <2>9 DEF AnswerLost, Issue, Return
  <2>10. ASSUME NEW rotates \in BOOLEAN, NEW expires \in BOOLEAN,
                Refreshed(p, rotates, expires)
         PROVE  ReturnInv'
    <3>1. /\ mem'[p].key = issued' /\ mem'[p].refresh = current'
          /\ issued' = issued + 1 /\ current' \in {current, issued + 1}
      BY <2>10, <1>r DEF Refreshed, Issue
    <3>2. current' # None
      BY <3>1 DEF Issued
    <3> QED
      BY <2>10, <3>1, <3>2 DEF Refreshed, Continue
  <2>11. CASE Invalidate(p)
    <3>1. mem'[p].client = mem[p].client /\ mem'[p].refresh = mem[p].refresh
      BY <2>11, <1>r DEF Invalidate
    <3> QED
      BY <2>11, <3>1 DEF Invalidate, Begin, Continue, Return
  <2>12. CASE SelectFails(p)
    BY <2>12 DEF SelectFails, Begin, Return
  <2>13. CASE Save(p)
    BY <2>13 DEF Save, Return
  <2>14. CASE SaveFails(p)
    <3>1. Alone' /\ CallsAreKnown'
      BY <2>14 DEF SaveFails, Return
    <3>2. KeyOrError'
      BY <2>14 DEF SaveFails, Return
    <3>3. ASSUME ~lost' PROVE ~lost /\ mem[p].refresh = None /\ Fresh(disk)
      BY <2>14, <3>3 DEF SaveFails
    <3>4. TokenIsSaved'
      BY <2>14, <3>3 DEF SaveFails, Return
    <3> QED
      BY <3>1, <3>2, <3>4
  <2> QED
    BY <1>p, <2>1, <2>2, <2>3, <2>4, <2>5, <2>6, <2>7, <2>8, <2>9, <2>10,
       <2>11, <2>12, <2>13, <2>14
<1>a. ASSUME NEW n \in Issued, Age(n) PROVE ReturnInv'
  BY <1>a DEF Age, ReturnInv, Alone, CallsAreKnown, KeyOrError, TokenIsSaved, Fresh, procVars
<1> QED
  BY <1>s, <1>p, <1>a DEF CacheNext

LEMMA ReturnHolds ==
  ASSUME Overlap = FALSE
  PROVE  CacheSpec => []ReturnInv
  BY ReturnInit, ReturnStep, SyncHolds, PTL DEF CacheSpec

\* relaykey.go:46 and 220-221: when commands do not overlap, a cached key is served
\* whatever fails, and a forced refresh returns the session's newest key or none.
THEOREM CallsReturnAsTold ==
  ASSUME Overlap = FALSE
  PROVE  CacheSpec => []KeyOrError
<1>1. ReturnInv => KeyOrError
  BY DEF ReturnInv
<1> QED
  BY <1>1, ReturnHolds, PTL

\* oauth2.go:158: when commands do not overlap, a login whose refreshes were all
\* answered and saved has the refresh token the gateway accepts.
THEOREM RotationsAreKept ==
  ASSUME Overlap = FALSE
  PROVE  CacheSpec => []RefreshTokenIsCurrent
<1>1. ReturnInv => RefreshTokenIsCurrent
  BY DEF ReturnInv, TokenIsSaved, Fresh, RefreshTokenIsCurrent
<1> QED
  BY <1>1, ReturnHolds, PTL

-----------------------------------------------------------------------------
(* settings.json.                                                          *)

\* What a command that loads the settings now is given.
Current == IF saved = Absent THEN Empty ELSE saved

\* A command whose temporary file is about to be renamed has written it.
TempIsWritten == \A c \in Cmd : step[c] = "rename" => temp[c] = mine[c]

\* A command that loaded after the last save differs from the file in what it changes.
CopyIsCurrent ==
  \A c \in Cmd \ older : step[c] \in {"change", "create", "write", "rename"} =>
    \A q \in Pref : step[c] = "change" \/ q # sets[c] => mine[c][q] = Current[q]

OlderHaveLoaded == \A c \in older : step[c] # "load"

SettingsInv ==
  SettingsTypeOK /\ SettingsKept /\ TempIsWritten /\ CopyIsCurrent /\ OlderHaveLoaded

LEMMA SettingsStart == SettingsInit => SettingsInv
<1> SUFFICES ASSUME SettingsInit PROVE SettingsInv
  OBVIOUS
<1> USE SettingsAssumption DEF SettingsInit
<1>1. Empty \in SettingsOf
  BY DEF Empty, SettingsOf
<1>2. SettingsTypeOK
  BY <1>1 DEF SettingsTypeOK
<1>3. SettingsKept
  BY DEF SettingsKept, SettingsOf
<1> QED
  BY <1>2, <1>3 DEF SettingsInv, TempIsWritten, CopyIsCurrent, OlderHaveLoaded

\* Renaming a written file: the one action that changes settings.json.
LEMMA RenameKeeps ==
  ASSUME SettingsInv, NEW c \in Cmd, RenameTemp(c)
  PROVE  SettingsInv'
<1> USE SettingsAssumption DEF SettingsInv
<1>1. /\ saved' = mine[c] /\ mine[c] \in SettingsOf /\ step[c] = "rename"
      /\ mine' = mine /\ sets' = sets /\ sets[c] \in Pref
  BY DEF RenameTemp, TempName, TempIsWritten, SettingsTypeOK
<1>2. saved' # Absent /\ saved' # Torn /\ Current' = mine[c]
  BY <1>1 DEF Current, SettingsOf
<1>3. SettingsTypeOK'
  <2>1. temp' \in [TempFile -> SettingsOf \cup {Absent, Torn}]
    BY DEF RenameTemp, TempName, SettingsTypeOK, TempFile
  <2>2. step' \in [Cmd -> {"load", "change", "create", "write", "rename", "done"}]
    BY DEF RenameTemp, Then, SettingsTypeOK
  <2>3. latest' \in SettingsOf
    BY <1>1 DEF RenameTemp, SettingsTypeOK, SettingsOf
  <2>4. older' \subseteq Cmd /\ undone' \in BOOLEAN
    BY DEF RenameTemp, SettingsTypeOK
  <2> QED
    BY <1>1, <2>1, <2>2, <2>3, <2>4 DEF SettingsTypeOK
<1>4. SettingsKept'
  <2> SUFFICES ASSUME ~undone' PROVE latest' = mine[c]
    BY <1>2 DEF SettingsKept, Current
  <2>1. ~undone /\ c \notin older
    BY DEF RenameTemp, SettingsTypeOK
  <2>2. latest = Current
    BY <2>1 DEF SettingsKept, Current
  <2>3. \A q \in Pref : q # sets[c] => mine[c][q] = latest[q]
    BY <1>1, <2>1, <2>2 DEF CopyIsCurrent
  <2>4. latest' = [latest EXCEPT ![sets[c]] = mine[c][sets[c]]] /\ latest \in SettingsOf
    BY DEF RenameTemp, SettingsTypeOK
  <2> HIDE DEF SettingsInv
  <2> QED
    BY <1>1, <2>3, <2>4 DEF SettingsOf
<1>5. TempIsWritten'
  BY <1>1 DEF RenameTemp, TempName, Then, TempIsWritten, SettingsTypeOK, TempFile
<1>6. CopyIsCurrent'
  BY <1>1 DEF RenameTemp, Then, CopyIsCurrent, SettingsTypeOK
<1>7. OlderHaveLoaded'
  BY DEF RenameTemp, Then, OlderHaveLoaded, SettingsTypeOK
<1> QED
  BY <1>3, <1>4, <1>5, <1>6, <1>7

LEMMA SettingsStep == SettingsInv /\ [SettingsNext]_settingsVars => SettingsInv'
<1> SUFFICES ASSUME SettingsInv, [SettingsNext]_settingsVars
             PROVE  SettingsInv'
  OBVIOUS
<1> USE SettingsAssumption
<1>s. CASE UNCHANGED settingsVars
  BY <1>s DEF SettingsInv, SettingsTypeOK, SettingsKept, TempIsWritten, CopyIsCurrent,
              OlderHaveLoaded, Current, settingsVars, auxVars
<1>c. ASSUME NEW c \in Cmd,
             \/ LoadSettings(c) \/ LoadSettingsFails(c)
             \/ \E q \in Pref, choice \in Choice \cup {Unset} : SetPreference(c, q, choice)
             \/ CreateTemp(c) \/ WriteTemp(c) \/ RenameTemp(c) \/ SaveSettingsFails(c)
      PROVE  SettingsInv'
  <2> USE DEF SettingsInv, SettingsKept, TempIsWritten, CopyIsCurrent, OlderHaveLoaded,
              Current, auxVars, Then, SettingsTypeOK, TempFile
  <2>1. CASE LoadSettings(c)
    <3>1. Current \in SettingsOf
      BY <2>1 DEF LoadSettings, SettingsOf, Empty
    <3> QED
      BY <2>1, <3>1 DEF LoadSettings
  <2>2. CASE LoadSettingsFails(c)
    BY <2>2 DEF LoadSettingsFails
  <2>3. ASSUME NEW q \in Pref, NEW choice \in Choice \cup {Unset}, SetPreference(c, q, choice)
        PROVE  SettingsInv'
    <3>1. mine' = [mine EXCEPT ![c] = [mine[c] EXCEPT ![q] = choice]]
      BY <2>3 DEF SetPreference
    <3>2. [mine[c] EXCEPT ![q] = choice] \in SettingsOf
      BY DEF SettingsOf
    <3>3. mine' \in [Cmd -> SettingsOf]
      BY <3>1, <3>2
    <3>4. \A r \in Pref : r # q => mine'[c][r] = mine[c][r]
      BY <3>1 DEF SettingsOf
    <3>5. \A d \in Cmd : d # c => mine'[d] = mine[d]
      BY <3>1
    <3> QED
      BY <2>3, <3>3, <3>4, <3>5 DEF SetPreference
  <2>4. CASE CreateTemp(c)
    BY <2>4 DEF CreateTemp, TempName
  <2>5. CASE WriteTemp(c)
    BY <2>5 DEF WriteTemp, TempName
  <2>6. CASE RenameTemp(c)
    BY <2>6, RenameKeeps
  <2>7. CASE SaveSettingsFails(c)
    BY <2>7 DEF SaveSettingsFails, TempName
  <2> QED
    BY <1>c, <2>1, <2>2, <2>3, <2>4, <2>5, <2>6, <2>7
<1> QED
  BY <1>s, <1>c DEF SettingsNext

\* settings.go:195 and 212: for any commands and preferences, however commands
\* overlap, fail or are killed, settings.json is never half-written and loses a change
\* only to a command that had loaded the file before that change was saved.
THEOREM SettingsSurvive == FilesSpec => []SettingsKept
<1>1. FilesInit => SettingsInit
  BY DEF FilesInit
<1>2. [FilesNext]_filesVars => [SettingsNext]_settingsVars
  BY DEF FilesNext, filesVars
<1>3. SettingsInv => SettingsKept
  BY DEF SettingsInv
<1> QED
  BY <1>1, <1>2, <1>3, SettingsStart, SettingsStep, PTL DEF FilesSpec

-----------------------------------------------------------------------------
(* The sanitizer's key.                                                    *)

\* While nobody has failed to read it, a key that has settled stays settled.
StaysSettled == late # {} /\ ~missed => Settled

HeldWhenRead == \A p \in Starter : stage[p] \in {"new", "read"} => held[p] = NoKey

WrittenIsThere == \A p \in Starter : stage[p] = "write" => keyFile.there

InstallInv ==
  InstallKeyTypeOK /\ LateRunsAgree /\ StaysSettled /\ HeldWhenRead /\ WrittenIsThere

LEMMA InstallStart == InstallInit => InstallInv
  BY InstallKeyAssumption
  DEF InstallInit, InstallInv, InstallKeyTypeOK, LateRunsAgree, StaysSettled, HeldWhenRead,
      WrittenIsThere

LEMMA InstallStep == InstallInv /\ [InstallNext]_installVars => InstallInv'
<1> SUFFICES ASSUME InstallInv, [InstallNext]_installVars
             PROVE  InstallInv'
  OBVIOUS
<1> USE InstallKeyAssumption
        DEF InstallInv, InstallKeyTypeOK, LateRunsAgree, StaysSettled, HeldWhenRead,
            WrittenIsThere, Settled
<1>s. CASE UNCHANGED installVars
  BY <1>s DEF installVars
<1>p. ASSUME NEW p \in Starter,
             \/ Look(p) \/ LookFails(p) \/ ReadKey(p) \/ ReadKeyFails(p)
             \/ CreateKeyFile(p) \/ WriteKey(p) \/ KeepForItself(p) \/ Killed(p)
      PROVE  InstallInv'
  <2> USE DEF Goto, Hold
  <2>1. CASE Look(p)
    BY <2>1 DEF Look
  <2>2. CASE ReadKey(p)
    BY <2>2 DEF ReadKey, WholeKey, KeyFile
  <2>3. CASE ReadKeyFails(p)
    BY <2>3 DEF ReadKeyFails
  <2>4. CASE CreateKeyFile(p)
    <3>1. keyFile' \in KeyFile
      BY <2>4 DEF CreateKeyFile, KeyFile
    <3> QED
      BY <2>4, <3>1 DEF CreateKeyFile
  <2>5. CASE WriteKey(p)
    <3>1. keyFile.there /\ keyFile' = [keyFile EXCEPT !.key = p]
      BY <2>5 DEF WriteKey
    <3>2. keyFile' \in KeyFile
      BY <3>1 DEF KeyFile
    <3> QED
      BY <2>5, <3>1, <3>2 DEF WriteKey, KeyFile
  <2>6. CASE KeepForItself(p)
    BY <2>6 DEF KeepForItself
  <2>7. CASE Killed(p)
    BY <2>7 DEF Killed
  <2>8. CASE LookFails(p)
    BY <2>8 DEF LookFails
  <2> QED
    BY <1>p, <2>1, <2>2, <2>3, <2>4, <2>5, <2>6, <2>7, <2>8
<1> QED
  BY <1>s, <1>p DEF InstallNext

\* installkey.go:30: for any number of processes, those that come when a whole key is
\* in the file and nobody is about to write one use that one, whatever the first runs
\* did to each other, unless looking at the file or reading it fails.
THEOREM SettledKeyIsShared == FilesSpec => []LateRunsAgree
<1>1. FilesInit => InstallInit
  BY DEF FilesInit
<1>2. [FilesNext]_filesVars => [InstallNext]_installVars
  BY DEF FilesNext, filesVars
<1>3. InstallInv => LateRunsAgree
  BY DEF InstallInv
<1> QED
  BY <1>1, <1>2, <1>3, InstallStart, InstallStep, PTL DEF FilesSpec

=============================================================================
